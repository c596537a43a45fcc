-------------------------- MODULE HostGatewayProofs --------------------------
(***************************************************************************)
(* What the control channel promises, for any requests, terminals,         *)
(* sessions and scopes.  None of the three invariants is inductive:        *)
(*                                                                         *)
(*   LaunchesFit and AnswersFit  look at the end of a chain of awaits; the *)
(*       handler in between carries what was checked, so JobInv says for   *)
(*       each of its steps which requests come there and what they hold,   *)
(*       and that two launches never hold the same terminal.               *)
(*   WritesInOrder  compares what the manager was given; OrderInv follows  *)
(*       the requests of a session from the order in which they were sent  *)
(*       through the channel to the process.                               *)
(***************************************************************************)
EXTENDS HostGateway, TLAPS

Messages == Calls \cup {"hello", "close"}
Kinds == Operations \cup {"none"}
Steps == {"none", "probing", "resolving", "checking", "creating", "listing",
          "attaching", "written", "detached"}
Results == Folders \cup Terminals \cup {"none"}

CallRecords ==
    [state : {"none", "waiting", "answered", "failed"}, op : Kinds,
     arg : Links \cup Terminals \cup {"none"}, session : Sessions \cup {0},
     got : Results]

Jobs == [step : Steps, holds : Results]

Shape ==
    /\ link \in [Links \cup Folders -> Folders \cup {"nothing"}]
    /\ cwd \in [Terminals -> Folders \cup {"none"}]
    /\ runs \in [Terminals -> Folders \cup {"none", "nothing"}]
    /\ toHost \in [Sessions -> Seq(Messages)]
    /\ call \in [Calls -> CallRecords]
    /\ job \in [Calls -> Jobs]

\* The operations whose handler comes to a step, and what it holds there: a launch a
\* folder of the roots once it was compared with them, an attachment its terminal.
Fits(step, op) ==
    CASE step = "probing" -> op \in {"roots", "runtimes", "launch"}
      [] step \in {"resolving", "checking"} -> op \in {"list", "launch"}
      [] step = "creating" -> op = "launch"
      [] step = "listing" -> op = "attach"
      [] step = "attaching" -> op \in {"launch", "attach"}
      [] step = "written" -> op = "write"
      [] step = "detached" -> op = "detach"
      [] OTHER -> TRUE

JobFits(c) ==
    /\ call[c].state = "none" => job[c].step = "none"
    /\ call[c].state # "none" => call[c].arg \in Arguments(call[c].op)
    /\ Fits(job[c].step, call[c].op)
    /\ job[c].step \in {"probing", "creating"} /\ call[c].op = "launch" =>
          job[c].holds \in Inside
    /\ job[c].step = "checking" => job[c].holds \in Folders
    /\ job[c].step = "attaching" /\ call[c].op = "attach" => job[c].holds = call[c].arg

\* An answer holds what the request named.
AnswerFits(c) ==
    call[c].state = "answered" /\ call[c].op \in {"attach", "write", "detach"} =>
       call[c].got = call[c].arg

\* A launch has created a terminal: its handler holds it, or its call was answered with it.
Launched(c, t) ==
    /\ call[c].op = "launch"
    /\ \/ job[c].step = "attaching" /\ job[c].holds = t
       \/ call[c].state = "answered" /\ call[c].got = t

\* It is a terminal of the manager, and no other launch has it.
LaunchesApart ==
    \A c \in Calls : \A t \in Results : Launched(c, t) =>
       /\ t \in Terminals /\ cwd[t] # "none"
       /\ \A d \in Calls \ {c} : ~Launched(d, t)

\* A request on its way was sent, in the session of its channel.
InTransit ==
    \A s \in Sessions : \A i \in DOMAIN toHost[s] :
       toHost[s][i] \in Calls =>
          call[toHost[s][i]].state # "none" /\ call[toHost[s][i]].session = s

JobInv ==
    /\ Shape /\ InTransit
    /\ \A c \in Calls : JobFits(c) /\ AnswerFits(c)
    /\ LaunchesApart
    /\ LaunchesFit

\* c comes before d in q.
Precedes(q, c, d) == \E i, j \in DOMAIN q : i < j /\ q[i] = c /\ q[j] = d

\* Every request is sent once.
IssuedOnce ==
    /\ issued \in Seq(Calls)
    /\ \A c \in Calls : call[c].state # "none" <=> \E i \in DOMAIN issued : issued[i] = c
    /\ \A i, j \in DOMAIN issued : issued[i] = issued[j] => i = j

ChannelInOrder ==
    \A s \in Sessions : \A i, j \in DOMAIN toHost[s] :
       i < j /\ toHost[s][i] \in Calls /\ toHost[s][j] \in Calls =>
          Precedes(issued, toHost[s][i], toHost[s][j])

\* What was written is older than what is still on its way in the same session.
WrittenBefore ==
    \A t \in Terminals : \A i \in DOMAIN written[t] :
       /\ written[t][i] \in Calls /\ call[written[t][i]].state # "none"
       /\ \A s \in Sessions : \A j \in DOMAIN toHost[s] :
             toHost[s][j] \in Calls /\ call[written[t][i]].session = s =>
                Precedes(issued, written[t][i], toHost[s][j])
       /\ \A j \in DOMAIN written[t] :
             i < j /\ call[written[t][i]].session = call[written[t][j]].session =>
                Precedes(issued, written[t][i], written[t][j])

OrderInv ==
    /\ written \in [Terminals -> Seq(Calls)]
    /\ IssuedOnce /\ ChannelInOrder /\ WrittenBefore

IInv == JobInv /\ OrderInv

\* What a channel p carries was carried by q, in the same order.
KeepsOrder(q, p) ==
    \A i, j \in DOMAIN p : p[i] \in Calls /\ p[j] \in Calls =>
       \E k, l \in DOMAIN q : q[k] = p[i] /\ q[l] = p[j] /\ (i < j => k < l)

-----------------------------------------------------------------------------
(* What the operators of the module do to the calls and the handlers.      *)

\* The answer of a handler reaches its own call, or nobody.
LEMMA FinishEffect ==
  ASSUME Shape, NEW c \in Calls, NEW ok \in BOOLEAN, NEW got \in Results,
         Finish(c, ok, got)
  PROVE  /\ call' \in [Calls -> CallRecords]
         /\ \A d \in Calls \ {c} : call'[d] = call[d] /\ job'[d] = job[d]
         /\ job' \in [Calls -> Jobs] /\ job'[c].step = "none"
         /\ \/ call'[c] = call[c]
            \/ /\ call[c].state = "waiting"
               /\ call'[c] = [call[c] EXCEPT !.state = "failed"]
            \/ /\ call[c].state = "waiting" /\ ok
               /\ call'[c] = [call[c] EXCEPT !.state = "answered", !.got = got]
  <1> DEFINE answer == [to |-> c, op |-> call[c].op, ok |-> ok, got |-> got]
  <1>1. job' \in [Calls -> Jobs] /\ job'[c].step = "none"
        /\ \A d \in Calls \ {c} : job'[d] = job[d]
    <2>1. NoJob \in Jobs /\ NoJob.step = "none"
      BY DEF NoJob, Jobs, Steps, Results
    <2> QED BY <2>1 DEF Finish, Shape
  <1>2. AnswerArrives(call[c].session, answer)
    BY DEF Finish
  <1>3. \A d \in Calls \ {c} : call'[d] = call[d]
    BY <1>2 DEF AnswerArrives, Asker
  <1>4. \/ call'[c] = call[c]
        \/ /\ call[c].state = "waiting"
           /\ call'[c] = [call[c] EXCEPT !.state = "failed"]
        \/ /\ call[c].state = "waiting" /\ ok
           /\ call'[c] = [call[c] EXCEPT !.state = "answered", !.got = got]
    BY <1>2 DEF AnswerArrives, Asker, Waiting
  <1>5. call'[c] \in CallRecords
    BY <1>4 DEF Shape, CallRecords
  <1>6. call' \in [Calls -> CallRecords]
    <2>1. DOMAIN call' = Calls /\ call' = [d \in Calls |-> call'[d]]
      BY <1>2 DEF AnswerArrives
    <2> QED BY <2>1, <1>3, <1>5 DEF Shape
  <1> QED BY <1>1, <1>3, <1>4, <1>6

LEMMA GoesEffect ==
  ASSUME Shape, NEW c \in Calls, NEW step \in Steps,
         NEW holds \in Results, Goes(c, step, holds)
  PROVE  /\ job' \in [Calls -> Jobs]
         /\ job'[c].step = step /\ job'[c].holds = holds
         /\ \A d \in Calls \ {c} : job'[d] = job[d]
  BY DEF Goes, Shape, Jobs

\* The rest of a channel, a channel that got a message, and one that was emptied.
LEMMA Channels ==
  ASSUME Shape, NEW s \in Sessions, NEW m \in Messages
  PROVE  /\ [toHost EXCEPT ![s] = Append(@, m)] \in [Sessions -> Seq(Messages)]
         /\ [toHost EXCEPT ![s] = <<>>] \in [Sessions -> Seq(Messages)]
         /\ [toHost EXCEPT ![s] = <<m>>] \in [Sessions -> Seq(Messages)]
  BY DEF Shape

LEMMA OrderKept ==
  ASSUME NEW q \in Seq(Messages), NEW m \in Messages \ Calls
  PROVE  /\ KeepsOrder(q, q) /\ KeepsOrder(q, <<>>) /\ KeepsOrder(q, <<m>>)
         /\ KeepsOrder(q, Append(q, m))
         /\ q # <<>> => KeepsOrder(q, Tail(q))
  <1>1. KeepsOrder(q, q) /\ KeepsOrder(q, <<>>) /\ KeepsOrder(q, <<m>>)
    BY DEF KeepsOrder
  <1>2. KeepsOrder(q, Append(q, m))
    <2> SUFFICES ASSUME NEW i \in DOMAIN Append(q, m), NEW j \in DOMAIN Append(q, m),
                        Append(q, m)[i] \in Calls, Append(q, m)[j] \in Calls
                 PROVE  \E k, l \in DOMAIN q : /\ q[k] = Append(q, m)[i]
                                               /\ q[l] = Append(q, m)[j]
                                               /\ i < j => k < l
      BY DEF KeepsOrder
    <2>1. /\ i \in DOMAIN q /\ q[i] = Append(q, m)[i]
          /\ j \in DOMAIN q /\ q[j] = Append(q, m)[j]
      OBVIOUS
    <2> QED BY <2>1
  <1>3. ASSUME q # <<>>
        PROVE  KeepsOrder(q, Tail(q))
    <2> SUFFICES ASSUME NEW i \in DOMAIN Tail(q), NEW j \in DOMAIN Tail(q)
                 PROVE  \E k, l \in DOMAIN q : /\ q[k] = Tail(q)[i]
                                               /\ q[l] = Tail(q)[j]
                                               /\ i < j => k < l
      BY DEF KeepsOrder
    <2>1. /\ i + 1 \in DOMAIN q /\ q[i + 1] = Tail(q)[i]
          /\ j + 1 \in DOMAIN q /\ q[j + 1] = Tail(q)[j]
          /\ i < j => i + 1 < j + 1
      BY <1>3
    <2> QED BY <2>1
  <1> QED BY <1>1, <1>2, <1>3

\* The greeting and the farewell of the client are no requests.
LEMMA NoRequest == {"hello", "close"} \subseteq Messages \ Calls
  BY GatewayAssumption DEF Messages, GatewayAssumption

\* A channel that lost messages, or got one that is no request, carries no other one.
LEMMA TransitKeeps ==
  ASSUME InTransit,
         \A c \in Calls : call[c].state # "none" =>
            call'[c].state # "none" /\ call'[c].session = call[c].session,
         \A s \in Sessions : KeepsOrder(toHost[s], toHost'[s])
  PROVE  InTransit'
  <1> SUFFICES ASSUME NEW s \in Sessions, NEW i \in DOMAIN toHost'[s],
                      toHost'[s][i] \in Calls
               PROVE  /\ call'[toHost'[s][i]].state # "none"
                      /\ call'[toHost'[s][i]].session = s
    BY DEF InTransit
  <1>1. PICK j \in DOMAIN toHost[s] : toHost[s][j] = toHost'[s][i]
    BY DEF KeepsOrder
  <1> QED BY <1>1 DEF InTransit

\* The messages behind the head of a channel were in it.
LEMMA ReceivedEffect ==
  ASSUME Shape, NEW s \in Sessions, NEW m, Received(s, m)
  PROVE  /\ toHost' \in [Sessions -> Seq(Messages)]
         /\ toHost[s] # <<>> /\ Head(toHost[s]) = m
         /\ toHost'[s] = Tail(toHost[s])
         /\ \A r \in Sessions \ {s} : toHost'[r] = toHost[r]
         /\ \A r \in Sessions : KeepsOrder(toHost[r], toHost'[r])
  <1>1. /\ toHost[s] # <<>> /\ Head(toHost[s]) = m
        /\ toHost' = [toHost EXCEPT ![s] = Tail(@)]
    BY DEF Received
  <1>2. toHost[s] \in Seq(Messages)
    BY DEF Shape
  <1>3. toHost' \in [Sessions -> Seq(Messages)] /\ toHost'[s] = Tail(toHost[s])
    BY <1>1, <1>2 DEF Shape
  <1>4. \A r \in Sessions \ {s} : toHost'[r] = toHost[r]
    BY <1>1 DEF Shape
  <1>5. ASSUME NEW r \in Sessions
        PROVE  KeepsOrder(toHost[r], toHost'[r])
    <2>1. toHost[r] \in Seq(Messages)
      BY DEF Shape
    <2> QED BY <1>1, <1>3, <1>4, <2>1, OrderKept, NoRequest
  <1> QED BY <1>1, <1>3, <1>4, <1>5

-----------------------------------------------------------------------------
(* One step of the launches and the answers.                               *)

LEMMA ChannelsKept ==
  ASSUME Shape, toHost' = toHost
  PROVE  /\ toHost' \in [Sessions -> Seq(Messages)]
         /\ \A s \in Sessions : KeepsOrder(toHost[s], toHost'[s])
  BY OrderKept, NoRequest DEF Shape

LEMMA InitJobInv == GatewayAssumption /\ Init => JobInv
  BY DEF Init, AsFound, JobInv, Shape, InTransit, JobFits, AnswerFits, Fits, Launched,
         LaunchesApart, LaunchesFit, CallRecords, Jobs, NoCall, NoJob, Kinds, Steps,
         Results, Folders, Inside, Links, Messages

\* Steps that launch nothing keep the launches apart.
LEMMA ApartKept ==
  ASSUME LaunchesApart, UNCHANGED cwd,
         \A c \in Calls : \A t \in Results : Launched(c, t)' => Launched(c, t)
  PROVE  LaunchesApart'
  BY DEF LaunchesApart

\* Steps of the channel and the file system alone.
LEMMA ChannelJobInv ==
  ASSUME JobInv, UNCHANGED <<cwd, runs, owned, call, job>>,
         link' \in [Links \cup Folders -> Folders \cup {"nothing"}],
         \A folder \in Folders : link'[folder] = folder => link[folder] = folder,
         toHost' \in [Sessions -> Seq(Messages)],
         \A s \in Sessions : KeepsOrder(toHost[s], toHost'[s])
  PROVE  JobInv'
  <1>1. InTransit'
    BY TransitKeeps DEF JobInv
  <1>2. Shape'
    BY DEF JobInv, Shape
  <1>3. LaunchesApart' /\ LaunchesFit'
    <2>1. LaunchesApart'
      BY ApartKept DEF JobInv, Launched
    <2>2. LaunchesFit'
      BY DEF JobInv, LaunchesFit, Folders
    <2> QED BY <2>1, <2>2
  <1>4. ASSUME NEW c \in Calls
        PROVE  JobFits(c)' /\ AnswerFits(c)'
    BY DEF JobInv, JobFits, AnswerFits
  <1> QED BY <1>1, <1>2, <1>3, <1>4 DEF JobInv

\* Calls that are given up.
LEMMA FailedJobInv ==
  ASSUME JobInv, UNCHANGED <<link, cwd, runs, owned, job>>,
         call' \in [Calls -> CallRecords],
         \A c \in Calls : \/ call'[c] = call[c]
                          \/ /\ call[c].state = "waiting"
                             /\ call'[c] = [call[c] EXCEPT !.state = "failed"],
         toHost' \in [Sessions -> Seq(Messages)],
         \A s \in Sessions : KeepsOrder(toHost[s], toHost'[s])
  PROVE  JobInv'
  <1>0. \A c \in Calls : /\ call[c] \in CallRecords
                         /\ call'[c].op = call[c].op /\ call'[c].arg = call[c].arg
                         /\ call'[c].got = call[c].got
                         /\ call'[c].session = call[c].session
                         /\ \/ call'[c].state = call[c].state
                            \/ call[c].state # "none" /\ call'[c].state = "failed"
    BY DEF JobInv, Shape, CallRecords
  <1>1. InTransit'
    BY <1>0, TransitKeeps DEF JobInv
  <1>2. Shape'
    BY DEF JobInv, Shape
  <1>3. LaunchesApart' /\ LaunchesFit'
    <2>1. \A c \in Calls : \A t \in Results : Launched(c, t)' => Launched(c, t)
      BY <1>0 DEF Launched
    <2> QED BY <2>1, ApartKept DEF JobInv, LaunchesFit
  <1>4. ASSUME NEW c \in Calls
        PROVE  JobFits(c)' /\ AnswerFits(c)'
    BY <1>0 DEF JobInv, JobFits, AnswerFits
  <1> QED BY <1>1, <1>2, <1>3, <1>4 DEF JobInv

\* A handler that finishes with what its request asked for.
LEMMA FinishedJobInv ==
  ASSUME JobInv, NEW c \in Calls, call[c].state # "none",
         NEW ok \in BOOLEAN, NEW got \in Results, Finish(c, ok, got),
         ok /\ call[c].op \in {"attach", "write", "detach"} => got = call[c].arg,
         ok /\ call[c].op = "launch" => job[c].step = "attaching" /\ got = job[c].holds,
         UNCHANGED <<link, cwd, runs, owned>>,
         toHost' \in [Sessions -> Seq(Messages)],
         \A s \in Sessions : KeepsOrder(toHost[s], toHost'[s])
  PROVE  JobInv'
  <1>1. Shape /\ call[c] \in CallRecords
    BY DEF JobInv, Shape
  <1>2. /\ call' \in [Calls -> CallRecords]
        /\ \A d \in Calls \ {c} : call'[d] = call[d] /\ job'[d] = job[d]
        /\ job' \in [Calls -> Jobs] /\ job'[c].step = "none"
        /\ \/ call'[c] = call[c]
           \/ /\ call[c].state = "waiting"
              /\ call'[c] = [call[c] EXCEPT !.state = "failed"]
           \/ /\ call[c].state = "waiting" /\ ok
              /\ call'[c] = [call[c] EXCEPT !.state = "answered", !.got = got]
    BY <1>1, FinishEffect
  <1>3. /\ call'[c].op = call[c].op /\ call'[c].arg = call[c].arg
        /\ call'[c].session = call[c].session /\ call'[c].state # "none"
        /\ \/ call'[c].state = call[c].state /\ call'[c].got = call[c].got
           \/ call'[c].state = "failed"
           \/ call'[c].state = "answered" /\ ok /\ call'[c].got = got
    BY <1>1, <1>2 DEF CallRecords
  <1>4. InTransit'
    BY <1>2, <1>3, TransitKeeps DEF JobInv
  <1>5. Shape'
    BY <1>2 DEF JobInv, Shape
  <1>6. ASSUME NEW d \in Calls
        PROVE  JobFits(d)' /\ AnswerFits(d)'
    BY <1>2, <1>3 DEF JobInv, JobFits, AnswerFits, Fits
  <1>7. LaunchesApart' /\ LaunchesFit'
    <2>1. ASSUME NEW d \in Calls, NEW t \in Results, Launched(d, t)'
          PROVE  Launched(d, t)
      <3>1. CASE d = c
        BY <1>2, <1>3, <2>1, <3>1 DEF Launched
      <3>2. CASE d # c
        BY <1>2, <2>1, <3>2 DEF Launched
      <3> QED BY <3>1, <3>2
    <2> QED BY <2>1, ApartKept DEF JobInv, LaunchesFit
  <1> QED BY <1>4, <1>5, <1>6, <1>7 DEF JobInv

\* A handler that goes on to its next await.
LEMMA MovedJobInv ==
  ASSUME JobInv, NEW c \in Calls, call[c].state # "none",
         NEW step \in Steps, NEW holds \in Results,
         Goes(c, step, holds), Fits(step, call[c].op),
         step \in {"probing", "creating"} /\ call[c].op = "launch" => holds \in Inside,
         step = "checking" => holds \in Folders,
         step = "attaching" => call[c].op = "attach" /\ holds = call[c].arg,
         UNCHANGED <<link, cwd, runs, owned, call>>,
         toHost' \in [Sessions -> Seq(Messages)],
         \A s \in Sessions : KeepsOrder(toHost[s], toHost'[s])
  PROVE  JobInv'
  <1>1. /\ job' \in [Calls -> Jobs]
        /\ job'[c].step = step /\ job'[c].holds = holds
        /\ \A d \in Calls \ {c} : job'[d] = job[d]
    BY GoesEffect DEF JobInv
  <1>2. InTransit'
    BY TransitKeeps DEF JobInv
  <1>3. Shape'
    BY <1>1 DEF JobInv, Shape
  <1>4. ASSUME NEW d \in Calls
        PROVE  JobFits(d)' /\ AnswerFits(d)'
    <2>1. AnswerFits(d)'
      BY DEF JobInv, AnswerFits
    <2>2. CASE d = c
      BY <1>1, <2>1, <2>2 DEF JobInv, JobFits
    <2>3. CASE d # c
      BY <1>1, <2>1, <2>3 DEF JobInv, JobFits
    <2> QED BY <2>2, <2>3
  <1>5. LaunchesApart' /\ LaunchesFit'
    <2>1. \A d \in Calls : \A t \in Results : Launched(d, t)' => Launched(d, t)
      BY <1>1 DEF Launched
    <2> QED BY <2>1, ApartKept DEF JobInv, LaunchesFit
  <1> QED BY <1>2, <1>3, <1>4, <1>5 DEF JobInv

LEMMA RequestJobInv ==
  ASSUME GatewayAssumption, JobInv, NEW c \in Calls, NEW s \in Sessions,
         NEW op \in OpsOf(c, s), NEW arg \in Arguments(op), Request(c, s, op, arg)
  PROVE  JobInv'
  <1>1. op \in Operations /\ arg \in Links \cup Terminals \cup {"none"}
    BY DEF GatewayAssumption, Arguments
  <1>2. /\ call' \in [Calls -> CallRecords]
        /\ call'[c].state = "waiting" /\ call'[c].session = s
        /\ call'[c].op = op /\ call'[c].arg = arg
        /\ \A d \in Calls \ {c} : call'[d] = call[d]
    BY <1>1 DEF JobInv, Shape, CallRecords, Kinds, Results, Request
  <1>3. /\ toHost' \in [Sessions -> Seq(Messages)]
        /\ toHost'[s] = Append(toHost[s], c)
        /\ \A r \in Sessions \ {s} : toHost'[r] = toHost[r]
    BY Channels DEF JobInv, Shape, Messages, Request
  <1>4. InTransit'
    <2> SUFFICES ASSUME NEW r \in Sessions, NEW i \in DOMAIN toHost'[r],
                        toHost'[r][i] \in Calls
                 PROVE  /\ call'[toHost'[r][i]].state # "none"
                        /\ call'[toHost'[r][i]].session = r
      BY DEF InTransit
    <2>1. toHost[r] \in Seq(Messages)
      BY DEF JobInv, Shape
    <2>2. \/ i \in DOMAIN toHost[r] /\ toHost'[r][i] = toHost[r][i]
          \/ r = s /\ toHost'[r][i] = c
      <3>1. CASE r # s
        BY <1>3, <3>1
      <3>2. CASE r = s
        <4>1. toHost'[r] = Append(toHost[r], c)
          BY <1>3, <3>2
        <4> QED BY <2>1, <3>2, <4>1
      <3> QED BY <3>1, <3>2
    <2>3. call[c].state = "none"
      BY DEF Request
    <2>4. CASE i \in DOMAIN toHost[r] /\ toHost'[r][i] = toHost[r][i]
      <3>1. call[toHost[r][i]].state # "none" /\ call[toHost[r][i]].session = r
        BY <2>4 DEF JobInv, InTransit
      <3>2. toHost'[r][i] \in Calls \ {c}
        BY <2>3, <2>4, <3>1
      <3> QED BY <1>2, <2>4, <3>1, <3>2
    <2>5. CASE r = s /\ toHost'[r][i] = c
      BY <1>2, <2>5
    <2> QED BY <2>2, <2>4, <2>5
  <1>5. Shape'
    BY <1>2, <1>3 DEF JobInv, Shape, Request, host
  <1>6. job[c].step = "none" /\ UNCHANGED <<link, job, cwd, runs, owned>>
    BY DEF JobInv, JobFits, Request, host
  <1>7. ASSUME NEW d \in Calls
        PROVE  JobFits(d)' /\ AnswerFits(d)'
    <2>1. CASE d = c
      BY <1>2, <1>6, <2>1 DEF JobFits, AnswerFits, Fits
    <2>2. CASE d # c
      BY <1>2, <1>6, <2>2 DEF JobInv, JobFits, AnswerFits
    <2> QED BY <2>1, <2>2
  <1>8. LaunchesApart' /\ LaunchesFit'
    <2>1. \A d \in Calls : \A t \in Results : Launched(d, t)' => Launched(d, t)
      BY <1>2, <1>6 DEF Launched
    <2> QED BY <1>6, <2>1, ApartKept DEF JobInv, LaunchesFit
  <1> QED BY <1>4, <1>5, <1>7, <1>8 DEF JobInv

LEMMA ClientEndsJobInv ==
  ASSUME JobInv, NEW s \in Sessions, ClientEnds(s)
  PROVE  JobInv'
  <1>1. /\ call' \in [Calls -> CallRecords]
        /\ \A c \in Calls : \/ call'[c] = call[c]
                            \/ /\ call[c].state = "waiting"
                               /\ call'[c] = [call[c] EXCEPT !.state = "failed"]
    <2>1. call' = [c \in Calls |-> IF c \in Waiting(s)
                                   THEN [call[c] EXCEPT !.state = "failed"] ELSE call[c]]
      BY DEF ClientEnds
    <2>2. \A c \in Calls : [call[c] EXCEPT !.state = "failed"] \in CallRecords
      BY DEF JobInv, Shape, CallRecords
    <2> QED BY <2>1, <2>2 DEF JobInv, Shape, Waiting
  <1>2. "close" \in Messages
    BY DEF Messages
  <1>3. toHost' \in [Sessions -> Seq(Messages)]
    <2>1. [toHost EXCEPT ![s] = Append(@, "close")] \in [Sessions -> Seq(Messages)]
      BY <1>2, Channels DEF JobInv
    <2> QED BY <2>1 DEF JobInv, Shape, ClientEnds
  <1>4. ASSUME NEW r \in Sessions
        PROVE  KeepsOrder(toHost[r], toHost'[r])
    <2>1. toHost[r] \in Seq(Messages)
      BY DEF JobInv, Shape
    <2>2. toHost'[r] = toHost[r] \/ toHost'[r] = Append(toHost[r], "close")
      BY DEF JobInv, Shape, ClientEnds
    <2> QED BY <2>1, <2>2, OrderKept, NoRequest
  <1>5. UNCHANGED <<link, cwd, runs, owned, job>>
    BY DEF ClientEnds, host
  <1> QED BY <1>1, <1>3, <1>4, <1>5, FailedJobInv

LEMMA ChannelStepJobInv ==
  ASSUME JobInv, NEW s \in Sessions,
         \/ Start(s) \/ HelloReceived(s) \/ CloseReceived(s) \/ ConnectionLost(s)
  PROVE  JobInv'
  <1>1. UNCHANGED <<link, cwd, runs, owned, call, job>>
    BY DEF Start, HelloReceived, CloseReceived, ConnectionLost, host
  <1>2. link' \in [Links \cup Folders -> Folders \cup {"nothing"}]
    BY <1>1 DEF JobInv, Shape
  <1>3. CASE Start(s) \/ ConnectionLost(s)
    <2>1. \/ toHost' = [toHost EXCEPT ![s] = <<>>]
          \/ toHost' = [toHost EXCEPT ![s] = <<"hello">>]
      BY <1>3 DEF Start, ConnectionLost
    <2>2. "hello" \in Messages /\ "hello" \notin Calls
      BY GatewayAssumption DEF Messages, GatewayAssumption
    <2>3. toHost' \in [Sessions -> Seq(Messages)]
      <3>1. /\ [toHost EXCEPT ![s] = <<>>] \in [Sessions -> Seq(Messages)]
            /\ [toHost EXCEPT ![s] = <<"hello">>] \in [Sessions -> Seq(Messages)]
        BY <2>2, Channels DEF JobInv
      <3> QED BY <2>1, <3>1
    <2>4. ASSUME NEW r \in Sessions
          PROVE  KeepsOrder(toHost[r], toHost'[r])
      <3>1. toHost[r] \in Seq(Messages)
        BY DEF JobInv, Shape
      <3>2. toHost'[r] \in {toHost[r], <<>>, <<"hello">>}
        BY <2>1 DEF JobInv, Shape
      <3> QED BY <3>1, <3>2, OrderKept, NoRequest
    <2> QED BY <1>1, <1>2, <2>3, <2>4, ChannelJobInv
  <1>4. CASE HelloReceived(s) \/ CloseReceived(s)
    <2>1. PICK m : Received(s, m)
      BY <1>4 DEF HelloReceived, CloseReceived
    <2> QED BY <1>1, <1>2, <2>1, ReceivedEffect, ChannelJobInv DEF JobInv
  <1> QED BY <1>3, <1>4

LEMMA RequestReceivedJobInv ==
  ASSUME JobInv, NEW s \in Sessions, NEW c \in Calls, RequestReceived(s, c)
  PROVE  JobInv'
  <1> DEFINE step == FirstStep(s, c)
  <1>0. Shape /\ Received(s, c)
    BY DEF JobInv, RequestReceived
  <1>1. /\ toHost' \in [Sessions -> Seq(Messages)]
        /\ toHost[s] # <<>> /\ Head(toHost[s]) = c
        /\ \A r \in Sessions : KeepsOrder(toHost[r], toHost'[r])
    BY <1>0, ReceivedEffect
  <1>2. call[c].state # "none" /\ call[c].session = s
    <2>1. toHost[s] \in Seq(Messages)
      BY <1>0 DEF Shape
    <2>2. 1 \in DOMAIN toHost[s] /\ toHost[s][1] = c
      BY <1>1, <2>1
    <2> QED BY <2>2 DEF JobInv, InTransit
  <1>3. call[c].op \in Kinds /\ "none" \in Results
    BY <1>0 DEF Shape, CallRecords, Results
  <1>4. UNCHANGED <<link, cwd, runs, owned>>
    BY DEF RequestReceived
  <1>5. CASE step = "refused"
    <2>1. Finish(c, FALSE, "none")
      BY <1>5 DEF RequestReceived
    <2> QED BY <1>1, <1>2, <1>3, <1>4, <2>1, FinishedJobInv
  <1>6. CASE step # "refused"
    <2>1. Goes(c, step, "none") /\ UNCHANGED call
      BY <1>6 DEF RequestReceived
    <2>2. call[c].op \in Operations
      <3>1. call[c].op \in Scopes
        BY <1>6 DEF FirstStep
      <3> QED BY <3>1, GatewayAssumption DEF GatewayAssumption
    <2>3. step \in Steps /\ Fits(step, call[c].op)
      BY <1>6, <2>2 DEF FirstStep, Steps, Fits, Operations, WriteStep
    <2>4. /\ step \in {"probing", "creating"} => call[c].op # "launch"
          /\ step \notin {"checking", "attaching"}
      BY <1>6, <2>2 DEF FirstStep, Operations, WriteStep
    <2> HIDE DEF step
    <2> QED BY <1>1, <1>2, <1>3, <1>4, <2>1, <2>3, <2>4, MovedJobInv
  <1> QED BY <1>5, <1>6

\* The steps of a handler up to the creation of a terminal.
LEMMA HandlerJobInv ==
  ASSUME JobInv, NEW c \in Calls,
         Resolved(c) \/ Checked(c) \/ Probed(c) \/ Listed(c) \/ Pumped(c) \/ Done(c)
  PROVE  JobInv'
  <1>0. Shape /\ JobFits(c) /\ call[c] \in CallRecords /\ job[c] \in Jobs
    BY DEF JobInv, Shape
  <1>1. /\ UNCHANGED <<link, cwd, runs, owned, toHost>>
        /\ toHost' \in [Sessions -> Seq(Messages)]
        /\ \A r \in Sessions : KeepsOrder(toHost[r], toHost'[r])
    BY <1>0, ChannelsKept DEF Resolved, Checked, Probed, Listed, Pumped, Done, host
  <1>2. call[c].state # "none"
    BY <1>0 DEF JobFits, Resolved, Checked, Probed, Listed, Pumped, Done
  <1>3. "none" \in Results /\ Folders \subseteq Results /\ job[c].holds \in Results
    BY <1>0 DEF Results, Jobs
  <1>4. ASSUME Finish(c, FALSE, "none")
        PROVE  JobInv'
    BY <1>1, <1>2, <1>3, <1>4, FinishedJobInv
  <1>5. ASSUME NEW got \in Results, call[c].op \notin {"attach", "write", "detach", "launch"},
               Finish(c, TRUE, got)
        PROVE  JobInv'
    BY <1>1, <1>2, <1>5, FinishedJobInv
  <1>6. call[c].op \in {"list", "launch"} => call[c].arg \in Links
    BY <1>0, <1>2 DEF JobFits, Arguments
  <1>7. call[c].op \in {"attach", "write", "detach"} => call[c].arg \in Results
    BY <1>0, <1>2 DEF JobFits, Arguments, Results
  <1>8. CASE Resolved(c)
    <2> DEFINE folder == Leads(call[c].arg)
    <2>1. call[c].op \in {"list", "launch"}
      BY <1>0, <1>8 DEF JobFits, Fits, Resolved
    <2>2. CASE folder = "nothing"
      BY <1>4, <1>8, <2>2 DEF Resolved
    <2>3. CASE folder # "nothing"
      <3>1. Goes(c, "checking", folder) /\ UNCHANGED call
        BY <1>8, <2>3 DEF Resolved
      <3>2. "checking" \in Steps /\ Fits("checking", call[c].op)
        BY <2>1 DEF Steps, Fits
      <3>3. folder \in Folders
        BY <1>0, <1>6, <2>1, <2>3 DEF Shape, Leads
      <3> HIDE DEF folder
      <3> QED BY <1>1, <1>2, <1>3, <3>1, <3>2, <3>3, MovedJobInv
    <2> QED BY <2>2, <2>3
  <1>9. CASE Checked(c)
    <2>1. call[c].op \in {"list", "launch"} /\ job[c].holds \in Folders
      BY <1>0, <1>9 DEF JobFits, Fits, Checked
    <2>2. CASE Finish(c, FALSE, "none")
      BY <1>4, <2>2
    <2>3. CASE ~Finish(c, FALSE, "none") /\ call[c].op = "list"
      <3>1. Finish(c, TRUE, job[c].holds)
        BY <1>9, <2>3 DEF Checked
      <3> QED BY <1>3, <1>5, <2>3, <3>1
    <2>4. CASE ~Finish(c, FALSE, "none") /\ call[c].op = "launch"
      <3>1. Goes(c, "probing", job[c].holds) /\ UNCHANGED call
        BY <1>9, <2>4 DEF Checked
      <3>2. job[c].holds \in Inside
        BY <1>9, <2>4 DEF Checked, InsideRoots
      <3>3. "probing" \in Steps /\ Fits("probing", call[c].op)
        BY <2>4 DEF Steps, Fits
      <3> QED BY <1>1, <1>2, <1>3, <3>1, <3>2, <3>3, MovedJobInv
    <2> QED BY <2>1, <2>2, <2>3, <2>4
  <1>10. CASE Probed(c)
    <2>1. call[c].op \in {"roots", "runtimes", "launch"}
      BY <1>0, <1>10 DEF JobFits, Fits, Probed
    <2>2. CASE Finish(c, FALSE, "none")
      BY <1>4, <2>2
    <2>3. CASE ~Finish(c, FALSE, "none") /\ call[c].op # "launch"
      <3>1. Finish(c, TRUE, "none")
        BY <1>10, <2>3 DEF Probed
      <3> QED BY <1>3, <1>5, <2>1, <2>3, <3>1
    <2>4. CASE ~Finish(c, FALSE, "none") /\ call[c].op = "launch"
      <3>1. Goes(c, "creating", job[c].holds) /\ UNCHANGED call
        BY <1>10, <2>4 DEF Probed
      <3>2. job[c].holds \in Inside
        BY <1>0, <1>10, <2>4 DEF JobFits, Probed
      <3>3. "creating" \in Steps /\ Fits("creating", call[c].op)
        BY <2>4 DEF Steps, Fits
      <3> QED BY <1>1, <1>2, <1>3, <3>1, <3>2, <3>3, MovedJobInv
    <2> QED BY <2>2, <2>3, <2>4
  <1>11. CASE Listed(c)
    <2>1. call[c].op = "attach"
      BY <1>0, <1>11 DEF JobFits, Fits, Listed
    <2>2. CASE Finish(c, FALSE, "none")
      BY <1>4, <2>2
    <2>3. CASE ~Finish(c, FALSE, "none")
      <3>1. Goes(c, "attaching", call[c].arg) /\ UNCHANGED call
        BY <1>11, <2>1, <2>3 DEF Listed, Attaches
      <3>2. "attaching" \in Steps /\ Fits("attaching", call[c].op)
        BY <2>1 DEF Steps, Fits
      <3> QED BY <1>1, <1>2, <1>7, <2>1, <3>1, <3>2, MovedJobInv
    <2> QED BY <2>2, <2>3
  <1>12. CASE Pumped(c)
    <2>1. /\ job[c].step = "attaching" /\ call[c].op \in {"launch", "attach"}
          /\ call[c].op = "attach" => job[c].holds = call[c].arg
      BY <1>0, <1>12 DEF JobFits, Fits, Pumped
    <2>2. PICK ok \in BOOLEAN : Finish(c, ok, job[c].holds)
      BY <1>12 DEF Pumped
    <2> QED BY <1>1, <1>2, <1>3, <2>1, <2>2, FinishedJobInv
  <1>13. CASE Done(c)
    <2>1. call[c].op \in {"write", "detach"}
      BY <1>0, <1>13 DEF JobFits, Fits, Done
    <2>2. PICK ok \in BOOLEAN : Finish(c, ok, call[c].arg)
      BY <1>13 DEF Done
    <2> QED BY <1>1, <1>2, <1>7, <2>1, <2>2, FinishedJobInv
  <1> QED BY <1>8, <1>9, <1>10, <1>11, <1>12, <1>13

\* A terminal is created with the path that was checked, and no other launch has it.
LEMMA CreatedJobInv ==
  ASSUME JobInv, NEW c \in Calls, Created(c)
  PROVE  JobInv'
  <1>0. Shape /\ JobFits(c) /\ call[c] \in CallRecords /\ job[c].step = "creating"
    BY DEF JobInv, Shape, Created
  <1>1. call[c].op = "launch" /\ call[c].state # "none" /\ job[c].holds \in Inside
    BY <1>0 DEF JobFits, Fits
  <1>2. /\ toHost' = toHost /\ link' = link
        /\ toHost' \in [Sessions -> Seq(Messages)]
        /\ \A r \in Sessions : KeepsOrder(toHost[r], toHost'[r])
    BY <1>0, ChannelsKept DEF Created
  <1>3. CASE UNCHANGED host /\ Finish(c, FALSE, "none")
    <2>1. "none" \in Results /\ UNCHANGED <<link, cwd, runs, owned>>
      BY <1>2, <1>3 DEF Results, host
    <2> QED BY <1>1, <1>2, <1>3, <2>1, FinishedJobInv
  <1>4. ASSUME NEW t \in Terminals, cwd[t] = "none",
               cwd' = [cwd EXCEPT ![t] = LaunchFolder(c)],
               runs' = [runs EXCEPT ![t] = Leads(LaunchFolder(c))],
               owned' = OwnedNow(t), Goes(c, "attaching", t), UNCHANGED call
        PROVE  JobInv'
    <2>1. /\ job' \in [Calls -> Jobs]
          /\ job'[c].step = "attaching" /\ job'[c].holds = t
          /\ \A d \in Calls \ {c} : job'[d] = job[d]
      <3>1. t \in Results /\ "attaching" \in Steps
        BY DEF Results, Steps
      <3> QED BY <1>0, <1>4, <3>1, GoesEffect
    <2>2. job[c].holds \in Folders /\ LaunchFolder(c) = job[c].holds
      BY <1>1 DEF Folders, LaunchFolder
    <2>3. /\ cwd' \in [Terminals -> Folders \cup {"none"}]
          /\ cwd'[t] = job[c].holds /\ cwd'[t] # "none"
          /\ \A u \in Terminals \ {t} : cwd'[u] = cwd[u]
      BY <1>0, <1>1, <1>4, <2>2 DEF Shape, Inside
    <2>4. /\ runs' \in [Terminals -> Folders \cup {"none", "nothing"}]
          /\ link[job[c].holds] = job[c].holds => runs'[t] = job[c].holds
          /\ \A u \in Terminals \ {t} : runs'[u] = runs[u]
      BY <1>0, <1>4, <2>2 DEF Shape, Leads
    <2>5. InTransit'
      BY <1>2, <1>4, TransitKeeps DEF JobInv
    <2>6. Shape'
      BY <1>0, <1>2, <1>4, <2>1, <2>3, <2>4 DEF Shape
    <2>7. ASSUME NEW d \in Calls
          PROVE  JobFits(d)' /\ AnswerFits(d)'
      <3>1. JobFits(d)'
        BY <1>0, <1>1, <1>4, <2>1 DEF JobInv, JobFits, Fits
      <3>2. AnswerFits(d)'
        BY <1>4 DEF JobInv, AnswerFits
      <3> QED BY <3>1, <3>2
    <2>8. LaunchesApart'
      <3>1. \A d \in Calls : ~Launched(d, t)
        BY <1>4 DEF JobInv, LaunchesApart, Results
      <3>2. ASSUME NEW d \in Calls, NEW u \in Results, Launched(d, u)'
            PROVE  Launched(d, u) \/ (d = c /\ u = t)
        <4>1. CASE d = c
          BY <1>4, <2>1, <3>2, <4>1 DEF Launched
        <4>2. CASE d # c
          BY <1>4, <2>1, <3>2, <4>2 DEF Launched
        <4> QED BY <4>1, <4>2
      <3> SUFFICES ASSUME NEW d \in Calls, NEW u \in Results, Launched(d, u)'
                   PROVE  /\ u \in Terminals /\ cwd'[u] # "none"
                          /\ \A e \in Calls \ {d} : ~Launched(e, u)'
        BY DEF LaunchesApart
      <3>3. CASE u = t
        BY <2>3, <3>1, <3>2, <3>3
      <3>4. CASE u # t
        <4>1. /\ u \in Terminals /\ cwd[u] # "none"
              /\ \A e \in Calls \ {d} : ~Launched(e, u)
          BY <3>2, <3>4 DEF JobInv, LaunchesApart
        <4> QED BY <2>3, <3>2, <3>4, <4>1
      <3> QED BY <3>3, <3>4
    <2>9. LaunchesFit'
      <3> SUFFICES ASSUME NEW u \in Terminals, cwd'[u] # "none"
                   PROVE  /\ cwd'[u] \in Inside /\ u \in owned'
                          /\ link[cwd'[u]] = cwd'[u] => runs'[u] = cwd'[u]
        BY <1>2 DEF LaunchesFit
      <3>1. CASE u = t
        BY <1>1, <1>4, <2>3, <2>4, <3>1 DEF OwnedNow
      <3>2. CASE u # t
        BY <1>4, <2>3, <2>4, <3>2 DEF JobInv, LaunchesFit, OwnedNow
      <3> QED BY <3>1, <3>2
    <2> QED BY <2>5, <2>6, <2>7, <2>8, <2>9 DEF JobInv
  <1> QED BY <1>3, <1>4 DEF Created, Attaches

LEMMA NextJobInv ==
  ASSUME JobInv, [Next]_vars
  PROVE  JobInv'
  <1>1. CASE UNCHANGED vars
    <2>1. UNCHANGED <<link, cwd, runs, owned, call, job, toHost>>
      BY <1>1 DEF vars, host
    <2> QED BY <2>1, ChannelsKept, ChannelJobInv DEF JobInv, Shape
  <1>2. ASSUME NEW s \in Sessions,
               \/ Start(s) \/ HelloReceived(s) \/ CloseReceived(s) \/ ConnectionLost(s)
        PROVE  JobInv'
    BY <1>2, ChannelStepJobInv
  <1>3. ASSUME NEW s \in Sessions, ClientEnds(s)
        PROVE  JobInv'
    BY <1>3, ClientEndsJobInv
  <1>4. ASSUME NEW s \in Sessions, NEW c \in Calls, RequestReceived(s, c)
        PROVE  JobInv'
    BY <1>4, RequestReceivedJobInv
  <1>5. ASSUME NEW s \in Sessions, NEW c \in Calls, NEW op \in OpsOf(c, s),
               NEW arg \in Arguments(op), Request(c, s, op, arg)
        PROVE  JobInv'
    BY <1>5, GatewayAssumption, RequestJobInv
  <1>6. ASSUME NEW c \in Calls, RequestTimesOut(c)
        PROVE  JobInv'
    <2>1. UNCHANGED <<link, cwd, runs, owned, job, toHost>>
      BY <1>6 DEF RequestTimesOut, host
    <2>2. /\ call' \in [Calls -> CallRecords]
          /\ \A d \in Calls : \/ call'[d] = call[d]
                              \/ /\ call[d].state = "waiting"
                                 /\ call'[d] = [call[d] EXCEPT !.state = "failed"]
      <3>1. /\ call \in [Calls -> CallRecords] /\ call[c].state = "waiting"
            /\ call' = [call EXCEPT ![c].state = "failed"]
        BY <1>6 DEF JobInv, Shape, RequestTimesOut
      <3>2. [call[c] EXCEPT !.state = "failed"] \in CallRecords
        BY <3>1 DEF CallRecords
      <3> QED BY <3>1, <3>2
    <2> QED BY <2>1, <2>2, ChannelsKept, FailedJobInv DEF JobInv
  <1>7. ASSUME NEW c \in Calls,
               Resolved(c) \/ Checked(c) \/ Probed(c) \/ Listed(c) \/ Pumped(c) \/ Done(c)
        PROVE  JobInv'
    BY <1>7, HandlerJobInv
  <1>8. ASSUME NEW c \in Calls, Created(c)
        PROVE  JobInv'
    BY <1>8, CreatedJobInv
  <1>9. ASSUME NEW path \in Links \cup Folders, Relink(path)
        PROVE  JobInv'
    <2>1. UNCHANGED <<cwd, runs, owned, call, job, toHost>>
      BY <1>9 DEF Relink, host
    <2>2. /\ link' \in [Links \cup Folders -> Folders \cup {"nothing"}]
          /\ \A folder \in Folders : link'[folder] = folder => link[folder] = folder
      <3>1. PICK folder \in {"elsewhere", "nothing"} : link' = [link EXCEPT ![path] = folder]
        BY <1>9 DEF Relink
      <3>2. link[path] = "project"
        BY <1>9 DEF Relink
      <3>3. link = AsFound
        BY <1>9 DEF Relink
      <3> QED BY <3>1, <3>2, <3>3 DEF JobInv, Shape, AsFound, Links, Folders, Inside
    <2> QED BY <2>1, <2>2, ChannelsKept, ChannelJobInv DEF JobInv
  <1> QED
    BY <1>1, <1>2, <1>3, <1>4, <1>5, <1>6, <1>7, <1>8, <1>9 DEF Next

-----------------------------------------------------------------------------
(* One step of the order of the writes.                                    *)

\* Every step but the sending of a request keeps the calls that were made.
CallsKept ==
    \A c \in Calls : /\ call'[c].state = "none" <=> call[c].state = "none"
                     /\ call'[c].session = call[c].session

LEMMA InitOrderInv == Init => OrderInv
  BY DEF Init, OrderInv, IssuedOnce, ChannelInOrder, WrittenBefore, NoCall

\* Steps that neither send nor write.
LEMMA QuietOrderInv ==
  ASSUME OrderInv, CallsKept, UNCHANGED <<issued, written>>,
         \A s \in Sessions : KeepsOrder(toHost[s], toHost'[s])
  PROVE  OrderInv'
  <1>1. issued' = issued
    OBVIOUS
  <1>2. IssuedOnce'
    BY DEF OrderInv, IssuedOnce, CallsKept
  <1>3. ChannelInOrder'
    <2> SUFFICES ASSUME NEW s \in Sessions, NEW i \in DOMAIN toHost'[s],
                        NEW j \in DOMAIN toHost'[s], i < j,
                        toHost'[s][i] \in Calls, toHost'[s][j] \in Calls
                 PROVE  Precedes(issued, toHost'[s][i], toHost'[s][j])
      BY <1>1 DEF ChannelInOrder
    <2>1. PICK k, l \in DOMAIN toHost[s] : /\ toHost[s][k] = toHost'[s][i]
                                           /\ toHost[s][l] = toHost'[s][j] /\ k < l
      BY DEF KeepsOrder
    <2> QED BY <2>1 DEF OrderInv, ChannelInOrder
  <1>4. WrittenBefore'
    <2> SUFFICES ASSUME NEW t \in Terminals, NEW i \in DOMAIN written[t]
                 PROVE  /\ written[t][i] \in Calls /\ call'[written[t][i]].state # "none"
                        /\ \A s \in Sessions : \A j \in DOMAIN toHost'[s] :
                              /\ toHost'[s][j] \in Calls
                              /\ call'[written[t][i]].session = s
                              => Precedes(issued, written[t][i], toHost'[s][j])
                        /\ \A j \in DOMAIN written[t] :
                              /\ i < j
                              /\ call'[written[t][i]].session = call'[written[t][j]].session
                              => Precedes(issued, written[t][i], written[t][j])
      BY <1>1 DEF WrittenBefore
    <2>1. written[t][i] \in Calls /\ call[written[t][i]].state # "none"
      BY DEF OrderInv, WrittenBefore
    <2>2. /\ call'[written[t][i]].state # "none"
          /\ call'[written[t][i]].session = call[written[t][i]].session
      BY <2>1 DEF CallsKept
    <2>3. ASSUME NEW s \in Sessions, NEW j \in DOMAIN toHost'[s], toHost'[s][j] \in Calls,
                 call'[written[t][i]].session = s
          PROVE  Precedes(issued, written[t][i], toHost'[s][j])
      <3>1. PICK k \in DOMAIN toHost[s] : toHost[s][k] = toHost'[s][j]
        BY <2>3 DEF KeepsOrder
      <3> QED BY <2>2, <2>3, <3>1 DEF OrderInv, WrittenBefore
    <2>4. ASSUME NEW j \in DOMAIN written[t], i < j,
                 call'[written[t][i]].session = call'[written[t][j]].session
          PROVE  Precedes(issued, written[t][i], written[t][j])
      <3>1. written[t][j] \in Calls
        BY DEF OrderInv, WrittenBefore
      <3> QED BY <2>2, <2>4, <3>1 DEF CallsKept, OrderInv, WrittenBefore
    <2> QED BY <2>1, <2>2, <2>3, <2>4
  <1> QED BY <1>2, <1>3, <1>4 DEF OrderInv

\* A request that is sent now is younger than every other one.
LEMMA RequestOrderInv ==
  ASSUME JobInv, OrderInv, NEW c \in Calls, NEW s \in Sessions,
         NEW op, NEW arg, Request(c, s, op, arg)
  PROVE  OrderInv'
  <1>0. /\ issued \in Seq(Calls) /\ IssuedOnce
        /\ call \in [Calls -> CallRecords] /\ toHost \in [Sessions -> Seq(Messages)]
    BY DEF JobInv, Shape, OrderInv, IssuedOnce
  <1>1. /\ call[c].state = "none" /\ issued' = Append(issued, c) /\ written' = written
        /\ call'[c].state = "waiting" /\ call'[c].session = s
        /\ \A d \in Calls \ {c} : call'[d] = call[d]
        /\ toHost'[s] = Append(toHost[s], c)
        /\ \A r \in Sessions \ {s} : toHost'[r] = toHost[r]
    BY <1>0 DEF Request
  <1>2. /\ issued' \in Seq(Calls) /\ Len(issued') = Len(issued) + 1
        /\ \A i \in DOMAIN issued : i \in DOMAIN issued' /\ issued'[i] = issued[i]
        /\ Len(issued) + 1 \in DOMAIN issued' /\ issued'[Len(issued) + 1] = c
        /\ \A i \in DOMAIN issued' : i \in DOMAIN issued \/ i = Len(issued) + 1
        /\ \A i \in DOMAIN issued : i < Len(issued) + 1
    BY <1>0, <1>1
  <1>3. \A i \in DOMAIN issued : issued[i] # c
    BY <1>0, <1>1 DEF IssuedOnce
  <1>4. IssuedOnce'
    <2>1. \A d \in Calls : call'[d].state # "none" <=> \E i \in DOMAIN issued' : issued'[i] = d
      <3> SUFFICES ASSUME NEW d \in Calls
                   PROVE  call'[d].state # "none" <=> \E i \in DOMAIN issued' : issued'[i] = d
        OBVIOUS
      <3>1. CASE d = c
        BY <1>1, <1>2, <3>1
      <3>2. CASE d # c
        BY <1>0, <1>1, <1>2, <3>2 DEF IssuedOnce
      <3> QED BY <3>1, <3>2
    <2>2. \A i, j \in DOMAIN issued' : issued'[i] = issued'[j] => i = j
      BY <1>0, <1>2, <1>3 DEF IssuedOnce
    <2> QED BY <1>2, <2>1, <2>2 DEF IssuedOnce
  <1>5. \A d, e : Precedes(issued, d, e) => Precedes(issued', d, e)
    <2> SUFFICES ASSUME NEW d, NEW e, Precedes(issued, d, e)
                 PROVE  Precedes(issued', d, e)
      OBVIOUS
    <2>1. PICK i, j \in DOMAIN issued : i < j /\ issued[i] = d /\ issued[j] = e
      BY DEF Precedes
    <2> QED BY <1>2, <2>1 DEF Precedes
  <1>6. \A d \in Calls : call[d].state # "none" => Precedes(issued', d, c)
    <2> SUFFICES ASSUME NEW d \in Calls, call[d].state # "none"
                 PROVE  Precedes(issued', d, c)
      OBVIOUS
    <2>1. PICK i \in DOMAIN issued : issued[i] = d
      BY <1>0 DEF IssuedOnce
    <2> QED BY <1>2, <2>1 DEF Precedes
  <1>7. ASSUME NEW r \in Sessions, NEW i \in DOMAIN toHost'[r]
        PROVE  \/ i \in DOMAIN toHost[r] /\ toHost'[r][i] = toHost[r][i]
               \/ r = s /\ toHost'[r][i] = c
    <2>1. toHost[r] \in Seq(Messages) /\ c \in Messages
      BY <1>0 DEF Messages
    <2> QED BY <1>1, <2>1
  <1>8. \A r \in Sessions : \A i \in DOMAIN toHost[r] :
           toHost[r][i] \in Calls => call[toHost[r][i]].state # "none"
    BY DEF JobInv, InTransit
  <1>9. ChannelInOrder'
    <2> SUFFICES ASSUME NEW r \in Sessions, NEW i \in DOMAIN toHost'[r],
                        NEW j \in DOMAIN toHost'[r], i < j,
                        toHost'[r][i] \in Calls, toHost'[r][j] \in Calls
                 PROVE  Precedes(issued', toHost'[r][i], toHost'[r][j])
      BY DEF ChannelInOrder
    <2>1. i \in DOMAIN toHost[r] /\ toHost'[r][i] = toHost[r][i]
      <3>1. toHost[r] \in Seq(Messages) /\ toHost'[r] \in {toHost[r], Append(toHost[r], c)}
        BY <1>0, <1>1
      <3> QED BY <1>7, <3>1
    <2>2. CASE j \in DOMAIN toHost[r] /\ toHost'[r][j] = toHost[r][j]
      BY <1>5, <2>1, <2>2 DEF OrderInv, ChannelInOrder
    <2>3. CASE toHost'[r][j] = c
      BY <1>6, <1>8, <2>1, <2>3
    <2> QED BY <1>7, <2>2, <2>3
  <1>10. WrittenBefore'
    <2> SUFFICES ASSUME NEW t \in Terminals, NEW i \in DOMAIN written[t]
                 PROVE  /\ written[t][i] \in Calls /\ call'[written[t][i]].state # "none"
                        /\ \A r \in Sessions : \A j \in DOMAIN toHost'[r] :
                              /\ toHost'[r][j] \in Calls
                              /\ call'[written[t][i]].session = r
                              => Precedes(issued', written[t][i], toHost'[r][j])
                        /\ \A j \in DOMAIN written[t] :
                              /\ i < j
                              /\ call'[written[t][i]].session = call'[written[t][j]].session
                              => Precedes(issued', written[t][i], written[t][j])
      BY <1>1 DEF WrittenBefore
    <2>1. \A j \in DOMAIN written[t] :
             written[t][j] \in Calls \ {c} /\ call[written[t][j]].state # "none"
      BY <1>1 DEF OrderInv, WrittenBefore
    <2>2. \A j \in DOMAIN written[t] : call'[written[t][j]] = call[written[t][j]]
      BY <1>1, <2>1
    <2>3. ASSUME NEW r \in Sessions, NEW j \in DOMAIN toHost'[r], toHost'[r][j] \in Calls,
                 call'[written[t][i]].session = r
          PROVE  Precedes(issued', written[t][i], toHost'[r][j])
      <3>1. CASE j \in DOMAIN toHost[r] /\ toHost'[r][j] = toHost[r][j]
        BY <1>5, <2>2, <2>3, <3>1 DEF OrderInv, WrittenBefore
      <3>2. CASE toHost'[r][j] = c
        BY <1>6, <2>1, <3>2
      <3> QED BY <1>7, <3>1, <3>2
    <2>4. ASSUME NEW j \in DOMAIN written[t], i < j,
                 call'[written[t][i]].session = call'[written[t][j]].session
          PROVE  Precedes(issued', written[t][i], written[t][j])
      BY <1>5, <2>2, <2>4 DEF OrderInv, WrittenBefore
    <2> QED BY <2>1, <2>2, <2>3, <2>4
  <1> QED BY <1>1, <1>4, <1>9, <1>10 DEF OrderInv

\* A handler that finishes, or goes on, leaves its call as it was sent.
LEMMA AnswerKeepsCalls ==
  ASSUME Shape, NEW c \in Calls, call[c].state # "none",
         \/ UNCHANGED call
         \/ \E ok \in BOOLEAN, got \in Results : Finish(c, ok, got)
  PROVE  CallsKept
  <1>1. CASE UNCHANGED call
    BY <1>1 DEF CallsKept
  <1>2. ASSUME NEW ok \in BOOLEAN, NEW got \in Results, Finish(c, ok, got)
        PROVE  CallsKept
    <2>1. /\ \A d \in Calls \ {c} : call'[d] = call[d]
          /\ \/ call'[c] = call[c]
             \/ call'[c] = [call[c] EXCEPT !.state = "failed"]
             \/ call'[c] = [call[c] EXCEPT !.state = "answered", !.got = got]
      BY <1>2, FinishEffect
    <2>2. call[c] \in CallRecords
      BY DEF Shape
    <2>3. call'[c].session = call[c].session /\ call'[c].state # "none"
      BY <2>1, <2>2 DEF CallRecords
    <2> QED BY <2>1, <2>3 DEF CallsKept
  <1> QED BY <1>1, <1>2

\* A write that is taken off the channel is younger than what was written in its
\* session, and older than what is still on its way.
LEMMA RequestReceivedOrderInv ==
  ASSUME JobInv, OrderInv, NEW s \in Sessions, NEW c \in Calls, RequestReceived(s, c)
  PROVE  OrderInv'
  <1>0. Shape /\ Received(s, c) /\ UNCHANGED issued
    BY DEF JobInv, RequestReceived
  <1>1. /\ toHost[s] # <<>> /\ Head(toHost[s]) = c /\ toHost'[s] = Tail(toHost[s])
        /\ \A r \in Sessions \ {s} : toHost'[r] = toHost[r]
        /\ \A r \in Sessions : KeepsOrder(toHost[r], toHost'[r])
    BY <1>0, ReceivedEffect
  <1>2. toHost[s] \in Seq(Messages) /\ 1 \in DOMAIN toHost[s] /\ toHost[s][1] = c
    BY <1>0, <1>1 DEF Shape
  <1>3. call[c].state # "none" /\ call[c].session = s
    BY <1>2 DEF JobInv, InTransit
  <1>4. CallsKept
    <2>1. \/ UNCHANGED call
          \/ Finish(c, FALSE, "none")
      BY DEF RequestReceived
    <2>2. "none" \in Results
      BY DEF Results
    <2> QED BY <1>0, <1>3, <2>1, <2>2, AnswerKeepsCalls
  <1>5. CASE UNCHANGED written
    BY <1>0, <1>1, <1>4, <1>5, QuietOrderInv
  <1>6. CASE Writes(c, call[c].arg) /\ ~UNCHANGED written
    <2> DEFINE t == call[c].arg
    <2>1. /\ t \in Terminals /\ written' \in [Terminals -> Seq(Calls)]
          /\ written[t] \in Seq(Calls) /\ written'[t] = Append(written[t], c)
          /\ \A u \in Terminals \ {t} : written'[u] = written[u]
      BY <1>6 DEF OrderInv, Writes
    <2>2. IssuedOnce' /\ ChannelInOrder'
      <3>1. IssuedOnce'
        BY <1>0, <1>4 DEF OrderInv, IssuedOnce, CallsKept
      <3> SUFFICES ASSUME NEW r \in Sessions, NEW i \in DOMAIN toHost'[r],
                          NEW j \in DOMAIN toHost'[r], i < j,
                          toHost'[r][i] \in Calls, toHost'[r][j] \in Calls
                   PROVE  Precedes(issued, toHost'[r][i], toHost'[r][j])
        BY <1>0, <3>1 DEF ChannelInOrder
      <3>2. PICK k, l \in DOMAIN toHost[r] : /\ toHost[r][k] = toHost'[r][i]
                                             /\ toHost[r][l] = toHost'[r][j] /\ k < l
        BY <1>1 DEF KeepsOrder
      <3> QED BY <3>2 DEF OrderInv, ChannelInOrder
    <2>3. \A u \in Terminals : \A i \in DOMAIN written'[u] :
             \/ i \in DOMAIN written[u] /\ written'[u][i] = written[u][i]
             \/ u = t /\ written'[u][i] = c /\ i = Len(written[t]) + 1
      <3>1. \A i \in DOMAIN written'[t] :
               \/ i \in DOMAIN written[t] /\ written'[t][i] = written[t][i]
               \/ written'[t][i] = c /\ i = Len(written[t]) + 1
        BY <2>1
      <3> HIDE DEF t
      <3> QED BY <2>1, <3>1
    <2>4. \A r \in Sessions : \A j \in DOMAIN toHost'[r] : toHost'[r][j] \in Calls =>
             \E k \in DOMAIN toHost[r] : toHost[r][k] = toHost'[r][j]
      BY <1>1 DEF KeepsOrder
    <2>5. WrittenBefore'
      <3> HIDE DEF t
      <3> SUFFICES ASSUME NEW u \in Terminals, NEW i \in DOMAIN written'[u]
                   PROVE  /\ written'[u][i] \in Calls /\ call'[written'[u][i]].state # "none"
                          /\ \A r \in Sessions : \A j \in DOMAIN toHost'[r] :
                                /\ toHost'[r][j] \in Calls
                                /\ call'[written'[u][i]].session = r
                                => Precedes(issued, written'[u][i], toHost'[r][j])
                          /\ \A j \in DOMAIN written'[u] :
                                /\ i < j
                                /\ call'[written'[u][i]].session = call'[written'[u][j]].session
                                => Precedes(issued, written'[u][i], written'[u][j])
        BY <1>0 DEF WrittenBefore
      <3>1. \A j \in DOMAIN written'[u] : /\ written'[u][j] \in Calls
                                         /\ call[written'[u][j]].state # "none"
        BY <1>3, <2>3 DEF OrderInv, WrittenBefore
      <3>2. \A j \in DOMAIN written'[u] :
               /\ call'[written'[u][j]].state # "none"
               /\ call'[written'[u][j]].session = call[written'[u][j]].session
        BY <1>4, <3>1 DEF CallsKept
      <3>3. ASSUME NEW r \in Sessions, NEW j \in DOMAIN toHost'[r], toHost'[r][j] \in Calls,
                   call[written'[u][i]].session = r
            PROVE  Precedes(issued, written'[u][i], toHost'[r][j])
        <4>1. CASE i \in DOMAIN written[u] /\ written'[u][i] = written[u][i]
          <5>1. PICK k \in DOMAIN toHost[r] : toHost[r][k] = toHost'[r][j]
            BY <2>4, <3>3
          <5> QED BY <3>3, <4>1, <5>1 DEF OrderInv, WrittenBefore
        <4>2. CASE written'[u][i] = c
          <5>0. r = s
            BY <1>3, <3>3, <4>2
          <5>1. /\ j + 1 \in DOMAIN toHost[s] /\ toHost[s][j + 1] = toHost'[s][j]
                /\ 1 < j + 1
            <6>1. \A k \in DOMAIN Tail(toHost[s]) :
                     /\ k + 1 \in DOMAIN toHost[s] /\ 1 < k + 1
                     /\ toHost[s][k + 1] = Tail(toHost[s])[k]
              BY <1>1, <1>2
            <6> QED BY <1>1, <5>0, <6>1
          <5> QED BY <1>2, <3>3, <4>2, <5>0, <5>1 DEF OrderInv, ChannelInOrder
        <4> QED BY <2>3, <4>1, <4>2
      <3>4. ASSUME NEW j \in DOMAIN written'[u], i < j,
                   call[written'[u][i]].session = call[written'[u][j]].session
            PROVE  Precedes(issued, written'[u][i], written'[u][j])
        <4>1. i \in DOMAIN written[u] /\ written'[u][i] = written[u][i]
          BY <2>1, <2>3, <3>4
        <4>2. CASE j \in DOMAIN written[u] /\ written'[u][j] = written[u][j]
          BY <3>4, <4>1, <4>2 DEF OrderInv, WrittenBefore
        <4>3. CASE written'[u][j] = c
          BY <1>2, <1>3, <3>4, <4>1, <4>3 DEF OrderInv, WrittenBefore
        <4> QED BY <2>3, <4>2, <4>3
      <3> QED BY <3>1, <3>2, <3>3, <3>4
    <2> QED BY <2>1, <2>2, <2>5 DEF OrderInv
  <1>7. UNCHANGED written \/ Writes(c, call[c].arg)
    BY DEF RequestReceived
  <1> QED BY <1>5, <1>6, <1>7

\* Every other step neither sends nor writes: what is listed is attached.
LEMMA OtherOrderInv ==
  ASSUME JobInv, OrderInv, CallsKept, UNCHANGED <<issued, written, toHost>>
  PROVE  OrderInv'
  BY ChannelsKept, QuietOrderInv DEF JobInv

LEMMA HandlerOrderInv ==
  ASSUME JobInv, OrderInv, NEW c \in Calls,
         \/ Resolved(c) \/ Checked(c) \/ Probed(c) \/ Created(c)
         \/ Listed(c) \/ Pumped(c) \/ Done(c)
  PROVE  OrderInv'
  <1>0. Shape /\ JobFits(c) /\ call[c] \in CallRecords /\ job[c] \in Jobs
    BY DEF JobInv, Shape
  <1>1. call[c].state # "none" /\ job[c].holds \in Results
    BY <1>0 DEF JobFits, Jobs, Resolved, Checked, Probed, Created, Listed, Pumped, Done
  <1>2. UNCHANGED <<issued, toHost>>
    BY DEF Resolved, Checked, Probed, Created, Listed, Pumped, Done
  <1>3. UNCHANGED written
    <2>1. CASE Listed(c)
      <3>1. call[c].op = "attach"
        BY <1>0, <2>1 DEF JobFits, Fits, Listed
      <3> QED BY <2>1, <3>1 DEF Listed
    <2>2. CASE ~Listed(c)
      BY <2>2 DEF Resolved, Checked, Probed, Created, Pumped, Done
    <2> QED BY <2>1, <2>2
  <1>4. CallsKept
    <2>1. \A ok \in BOOLEAN : Finish(c, ok, "none") => CallsKept
      BY <1>0, <1>1, AnswerKeepsCalls DEF Results
    <2>2. \A ok \in BOOLEAN : Finish(c, ok, job[c].holds) => CallsKept
      BY <1>0, <1>1, AnswerKeepsCalls
    <2>3. UNCHANGED call => CallsKept
      BY <1>0, <1>1, AnswerKeepsCalls
    <2>4. CASE Resolved(c)
      BY <2>1, <2>3, <2>4 DEF Resolved
    <2>5. CASE Checked(c) \/ Pumped(c)
      BY <2>1, <2>2, <2>3, <2>5 DEF Checked, Pumped
    <2>6. CASE Probed(c) \/ Created(c)
      BY <2>1, <2>3, <2>6 DEF Probed, Created, Attaches
    <2>7. CASE Listed(c)
      <3>1. call[c].op = "attach"
        BY <1>0, <2>7 DEF JobFits, Fits, Listed
      <3> QED BY <2>1, <2>3, <2>7, <3>1 DEF Listed, Attaches
    <2>8. CASE Done(c)
      <3>1. PICK ok \in BOOLEAN : Finish(c, ok, call[c].arg)
        BY <2>8 DEF Done
      <3>2. call[c].arg \in Results
        BY <1>0, <1>1, <2>8 DEF JobFits, Fits, Arguments, Results, Done
      <3> QED BY <1>0, <1>1, <3>1, <3>2, AnswerKeepsCalls
    <2> QED BY <2>4, <2>5, <2>6, <2>7, <2>8
  <1> QED BY <1>2, <1>3, <1>4, OtherOrderInv

LEMMA NextOrderInv ==
  ASSUME JobInv, OrderInv, [Next]_vars
  PROVE  OrderInv'
  <1>0. Shape
    BY DEF JobInv
  <1>1. CASE UNCHANGED vars
    <2>1. CallsKept /\ UNCHANGED <<issued, written, toHost>>
      BY <1>1 DEF vars, CallsKept
    <2> QED BY <2>1, OtherOrderInv
  <1>2. ASSUME NEW s \in Sessions, Start(s) \/ ConnectionLost(s)
        PROVE  OrderInv'
    <2>1. CallsKept /\ UNCHANGED <<issued, written>>
      BY <1>2 DEF Start, ConnectionLost, CallsKept
    <2>2. ASSUME NEW r \in Sessions
          PROVE  KeepsOrder(toHost[r], toHost'[r])
      <3>1. toHost[r] \in Seq(Messages)
        BY <1>0 DEF Shape
      <3>2. toHost'[r] \in {toHost[r], <<>>, <<"hello">>}
        BY <1>0, <1>2 DEF Shape, Start, ConnectionLost
      <3> QED BY <3>1, <3>2, OrderKept, NoRequest
    <2> QED BY <2>1, <2>2, QuietOrderInv
  <1>3. ASSUME NEW s \in Sessions, HelloReceived(s) \/ CloseReceived(s)
        PROVE  OrderInv'
    <2>1. CallsKept /\ UNCHANGED <<issued, written>>
      BY <1>3 DEF HelloReceived, CloseReceived, CallsKept
    <2>2. PICK m : Received(s, m)
      BY <1>3 DEF HelloReceived, CloseReceived
    <2> QED BY <1>0, <2>1, <2>2, ReceivedEffect, QuietOrderInv
  <1>4. ASSUME NEW s \in Sessions, ClientEnds(s)
        PROVE  OrderInv'
    <2>1. CallsKept
      <3>1. ASSUME NEW c \in Calls
            PROVE  /\ call'[c].state = "none" <=> call[c].state = "none"
                   /\ call'[c].session = call[c].session
        <4>1. \/ call'[c] = call[c]
              \/ /\ call[c].state = "waiting"
                 /\ call'[c] = [call[c] EXCEPT !.state = "failed"]
          BY <1>4 DEF ClientEnds, Waiting
        <4>2. call[c] \in CallRecords
          BY <1>0 DEF Shape
        <4> QED BY <4>1, <4>2 DEF CallRecords
      <3> QED BY <3>1 DEF CallsKept
    <2>2. UNCHANGED <<issued, written>>
      BY <1>4 DEF ClientEnds
    <2>3. ASSUME NEW r \in Sessions
          PROVE  KeepsOrder(toHost[r], toHost'[r])
      <3>1. toHost[r] \in Seq(Messages)
        BY <1>0 DEF Shape
      <3>2. toHost'[r] = toHost[r] \/ toHost'[r] = Append(toHost[r], "close")
        BY <1>0, <1>4 DEF Shape, ClientEnds
      <3> QED BY <3>1, <3>2, OrderKept, NoRequest
    <2> QED BY <2>1, <2>2, <2>3, QuietOrderInv
  <1>5. ASSUME NEW s \in Sessions, NEW c \in Calls, RequestReceived(s, c)
        PROVE  OrderInv'
    BY <1>5, RequestReceivedOrderInv
  <1>6. ASSUME NEW s \in Sessions, NEW c \in Calls, NEW op \in OpsOf(c, s),
               NEW arg \in Arguments(op), Request(c, s, op, arg)
        PROVE  OrderInv'
    BY <1>6, RequestOrderInv
  <1>7. ASSUME NEW c \in Calls, RequestTimesOut(c)
        PROVE  OrderInv'
    <2>1. CallsKept
      <3>1. /\ call[c].state = "waiting" /\ call[c] \in CallRecords
            /\ call' = [call EXCEPT ![c].state = "failed"]
        BY <1>0, <1>7 DEF Shape, RequestTimesOut
      <3>2. call'[c].session = call[c].session /\ call'[c].state = "failed"
        BY <1>0, <3>1 DEF Shape, CallRecords
      <3>3. \A d \in Calls \ {c} : call'[d] = call[d]
        BY <1>0, <3>1 DEF Shape
      <3> QED BY <3>1, <3>2, <3>3 DEF CallsKept
    <2>2. UNCHANGED <<issued, written, toHost>>
      BY <1>7 DEF RequestTimesOut
    <2> QED BY <2>1, <2>2, OtherOrderInv
  <1>8. ASSUME NEW c \in Calls,
               \/ Resolved(c) \/ Checked(c) \/ Probed(c) \/ Created(c)
               \/ Listed(c) \/ Pumped(c) \/ Done(c)
        PROVE  OrderInv'
    BY <1>8, HandlerOrderInv
  <1>9. ASSUME NEW path \in Links \cup Folders, Relink(path)
        PROVE  OrderInv'
    BY <1>9, OtherOrderInv DEF Relink, CallsKept
  <1> QED
    BY <1>1, <1>2, <1>3, <1>4, <1>5, <1>6, <1>7, <1>8, <1>9 DEF Next

\* The place of a request among those that were sent.
LEMMA SentPlace ==
  ASSUME IssuedOnce, NEW c \in Calls, NEW d \in Calls, Precedes(issued, c, d)
  PROVE  Sent(c) < Sent(d)
  <1>1. PICK i, j \in DOMAIN issued : i < j /\ issued[i] = c /\ issued[j] = d
    BY DEF Precedes
  <1>2. \A k \in DOMAIN issued : (issued[k] = c <=> k = i) /\ (issued[k] = d <=> k = j)
    BY <1>1 DEF IssuedOnce
  <1>3. Sent(c) = i
    <2>1. Sent(c) \in DOMAIN issued /\ issued[Sent(c)] = c
      BY <1>1 DEF Sent
    <2> QED BY <1>2, <2>1
  <1>4. Sent(d) = j
    <2>1. Sent(d) \in DOMAIN issued /\ issued[Sent(d)] = d
      BY <1>1 DEF Sent
    <2> QED BY <1>2, <2>1
  <1> QED BY <1>1, <1>3, <1>4

-----------------------------------------------------------------------------
LEMMA InvariantHolds == Spec => []IInv
  <1>1. Init => IInv
    BY InitJobInv, InitOrderInv, GatewayAssumption DEF IInv
  <1>2. IInv /\ [Next]_vars => IInv'
    BY NextJobInv, NextOrderInv DEF IInv
  <1> QED BY <1>1, <1>2, PTL DEF Spec

\* A terminal that was launched remotely got a path that was compared with the roots,
\* belongs to the device, and its process started in that folder unless somebody replaced
\* the folder itself: wherever the requested path leads by then, and whatever became of
\* the session (the handlers of launch in host-control-gateway.ts).
THEOREM LaunchIsInside == Spec => []LaunchesFit
  <1>1. IInv => LaunchesFit
    BY DEF IInv, JobInv
  <1> QED BY <1>1, InvariantHolds, PTL

\* An answered call holds the terminal it named or the one launched for it, which
\* no other call holds, however the handlers overtake each other.
THEOREM AnswerIsOwn == Spec => []AnswersFit
  <1>1. ASSUME IInv
        PROVE  AnswersFit
    <2> SUFFICES ASSUME NEW c \in Calls, call[c].state = "answered"
                 PROVE  /\ call[c].op \in {"attach", "write", "detach"} =>
                              call[c].got = call[c].arg
                        /\ call[c].op = "launch" =>
                              /\ call[c].got \in Terminals
                              /\ \A d \in Calls \ {c} :
                                    call[d].state = "answered" /\ call[d].op = "launch" =>
                                       call[d].got # call[c].got
      BY DEF AnswersFit
    <2>1. AnswerFits(c) /\ LaunchesApart /\ call[c].got \in Results
      BY <1>1 DEF IInv, JobInv, Shape, CallRecords
    <2>2. ASSUME call[c].op = "launch"
          PROVE  /\ call[c].got \in Terminals
                 /\ \A d \in Calls \ {c} : ~Launched(d, call[c].got)
      <3>1. Launched(c, call[c].got)
        BY <2>2 DEF Launched
      <3> QED BY <2>1, <3>1 DEF LaunchesApart
    <2> QED BY <2>1, <2>2 DEF AnswerFits, Launched
  <1> QED BY <1>1, InvariantHolds, PTL

\* The writes of a session reach the process in the order in which the client sent
\* them, although their handlers run at the same time and requests time out.
THEOREM WritesKeepOrder == Spec => []WritesInOrder
  <1>1. ASSUME IInv
        PROVE  WritesInOrder
    <2> SUFFICES ASSUME NEW t \in Terminals, NEW i \in DOMAIN written[t],
                        NEW j \in DOMAIN written[t], i < j,
                        call[written[t][i]].session = call[written[t][j]].session
                 PROVE  Sent(written[t][i]) < Sent(written[t][j])
      BY DEF WritesInOrder
    <2>1. /\ written[t][i] \in Calls /\ written[t][j] \in Calls
          /\ Precedes(issued, written[t][i], written[t][j]) /\ IssuedOnce
      BY <1>1 DEF IInv, OrderInv, WrittenBefore
    <2> QED BY <2>1, SentPlace
  <1> QED BY <1>1, InvariantHolds, PTL

=============================================================================
