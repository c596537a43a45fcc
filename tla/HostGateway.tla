---------------------------- MODULE HostGateway ----------------------------
(***************************************************************************)
(* The control channel of a remote session: RemoteAgentChannelClient with  *)
(* its pending requests, HostControlGateway, which handles the messages    *)
(* concurrently across its awaits, and the workspace service it asks.      *)
(*                                                                         *)
(* A request goes over a reliable ordered channel; its handler reads the   *)
(* file system, the runtimes or the terminal list in steps during which    *)
(* other requests are handled, links are changed and the session is lost.  *)
(* A device that connects again gets a new gateway that shares the         *)
(* terminals the device owns.  Output, its pumps and the exit of terminals *)
(* are in RemoteOutput, the terminals themselves in TerminalManager.       *)
(***************************************************************************)
EXTENDS Naturals, Sequences, SequencesExt

CONSTANTS Calls,      \* request ids
          Terminals,  \* terminal ids the manager may give out
          Sessions,   \* numbers: the sessions of one client device, one after the other
          OpsOf(_, _), \* the operations a request may ask for in a session
          Scopes      \* the operations the approved scopes cover

Operations == {"roots", "list", "runtimes", "launch", "attach", "write", "detach"}

ASSUME GatewayAssumption ==
    /\ {"hello", "close"} \cap Calls = {}
    /\ \A c \in Calls, s \in Sessions : OpsOf(c, s) \subseteq Operations
    /\ Scopes \subseteq Operations
    /\ Sessions \subseteq Nat \ {0}

\* Links: paths that are asked for. Folders: canonical paths; the roots contain one of them.
Links == {"work"}
Inside == {"project"}
Folders == Inside \cup {"elsewhere"}

VARIABLES
    link,       \* [Links and Folders -> Folders or "nothing"]: where a path leads, a folder
                \* to itself until it is replaced
    cwd,        \* [Terminals -> the path it was launched with, "none" before]
    runs,       \* [Terminals -> the folder its process started in, "none" before]
    owned,      \* the terminals of the client device, shared by its gateways
    attached,   \* [Sessions -> SUBSET Terminals]
    open,       \* the sessions whose channels are open
    gate,       \* [Sessions -> "none", "greeting", "authorized" or "closed"]: the gateway
    client,     \* [Sessions -> "none", "starting", "ready" or "closed"]: the channel client
    toHost,     \* [Sessions -> Seq("hello", "close" or a request id)]: the control channel
    call,       \* [Calls -> what was asked and what came of it]
    job,        \* [Calls -> where the handler of the request stands]
    issued,     \* Seq(Calls): the requests in the order they were sent
    written     \* [Terminals -> Seq(Calls)]: the writes the manager was given

host == <<cwd, runs, owned, attached>>
vars == <<link, host, open, gate, client, toHost, call, job, issued, written>>

-----------------------------------------------------------------------------
NoCall == [state |-> "none", op |-> "none", arg |-> "none", session |-> 0, got |-> "none"]
NoJob == [step |-> "none", holds |-> "none"]

AsFound == [p \in Links \cup Folders |-> IF p \in Links THEN "project" ELSE p]

Init ==
    /\ link = AsFound
    /\ cwd = [t \in Terminals |-> "none"] /\ runs = [t \in Terminals |-> "none"]
    /\ owned = {} /\ attached = [s \in Sessions |-> {}]
    /\ open = {} /\ gate = [s \in Sessions |-> "none"] /\ client = [s \in Sessions |-> "none"]
    /\ toHost = [s \in Sessions |-> <<>>]
    /\ call = [c \in Calls |-> NoCall] /\ job = [c \in Calls |-> NoJob]
    /\ issued = <<>> /\ written = [t \in Terminals |-> <<>>]

Sent(c) == CHOOSE i \in DOMAIN issued : issued[i] = c
Waiting(s) == {c \in Calls : call[c].session = s /\ call[c].state = "waiting"}

-----------------------------------------------------------------------------
(* The client.                                                             *)

\* The channels are handed over: the client starts with its hello.
Start(s) ==
    /\ client[s] = "none" /\ \A r \in Sessions : r < s => client[r] = "closed"
    /\ client' = [client EXCEPT ![s] = "starting"]
    /\ gate' = [gate EXCEPT ![s] = "greeting"]
    /\ open' = open \cup {s}
    /\ toHost' = [toHost EXCEPT ![s] = <<"hello">>]
    /\ UNCHANGED <<link, host, call, job, issued, written>>

Arguments(op) ==
    CASE op \in {"list", "launch"} -> Links
      [] op \in {"attach", "write", "detach"} -> Terminals
      [] OTHER -> {"none"}

\* request(): sent once the handshake is done; the answer is awaited under its id.
Request(c, s, op, arg) ==
    /\ client[s] = "ready" /\ call[c].state = "none"
    /\ call' = [call EXCEPT ![c] =
                  [state |-> "waiting", op |-> op, arg |-> arg, session |-> s, got |-> "none"]]
    /\ toHost' = [toHost EXCEPT ![s] = Append(@, c)]
    /\ issued' = Append(issued, c)
    /\ UNCHANGED <<link, host, open, gate, client, job, written>>

\* A mutant: the answer goes to the request that has waited longest.
OldestCall(s, answer) ==
    {c \in Waiting(s) : \A d \in Waiting(s) : Sent(c) <= Sent(d)}

Asker(s, answer) == {c \in Waiting(s) : c = answer.to}

\* processControl(): an answer nobody waits for any more is dropped, and one that does not
\* fit the operation rejects the call.  An answer that is still on its way when the client
\* gives up is one of those: the handler might as well have finished later.
AnswerArrives(s, answer) ==
    call' = [c \in Calls |->
               IF s \notin open \/ c \notin Asker(s, answer) THEN call[c]
               ELSE IF answer.ok /\ answer.op = call[c].op
               THEN [call[c] EXCEPT !.state = "answered", !.got = answer.got]
               ELSE [call[c] EXCEPT !.state = "failed"]]

RequestTimesOut(c) ==
    /\ call[c].state = "waiting"
    /\ call' = [call EXCEPT ![c].state = "failed"]
    /\ UNCHANGED <<link, host, open, gate, client, toHost, job, issued, written>>

\* closeWithError(): every pending request is rejected.  close() first tells the host; a
\* handshake that takes too long, and a channel that closes, do not.
ClientEnds(s) ==
    /\ client[s] \in {"starting", "ready"}
    /\ client' = [client EXCEPT ![s] = "closed"]
    /\ call' = [c \in Calls |-> IF c \in Waiting(s) THEN [call[c] EXCEPT !.state = "failed"] ELSE call[c]]
    /\ toHost' \in {toHost, [toHost EXCEPT ![s] = Append(@, "close")]}
    /\ UNCHANGED <<link, host, open, gate, job, issued, written>>

-----------------------------------------------------------------------------
(* The gateway.                                                            *)

Finish(c, ok, got) ==
    /\ AnswerArrives(call[c].session, [to |-> c, op |-> call[c].op, ok |-> ok, got |-> got])
    /\ job' = [job EXCEPT ![c] = NoJob]

\* The handler holds the path it has validated, or the terminal it attaches.
Goes(c, step, holds) == job' = [job EXCEPT ![c] = [step |-> step, holds |-> holds]]

Close(s) ==
    /\ gate' = [gate EXCEPT ![s] = "closed"]
    /\ attached' = [attached EXCEPT ![s] = {}]

Received(s, message) ==
    /\ s \in open /\ gate[s] \notin {"none", "closed"}
    /\ toHost[s] # <<>> /\ Head(toHost[s]) = message
    /\ toHost' = [toHost EXCEPT ![s] = Tail(@)]

HelloReceived(s) ==
    /\ Received(s, "hello") /\ gate[s] = "greeting"
    /\ gate' = [gate EXCEPT ![s] = "authorized"]
    /\ client' = [client EXCEPT ![s] = IF @ = "starting" THEN "ready" ELSE @]
    /\ UNCHANGED <<link, host, open, call, job, issued, written>>

CloseReceived(s) ==
    /\ Received(s, "close") /\ Close(s)
    /\ UNCHANGED <<link, cwd, runs, owned, open, client, call, job, issued, written>>

Attached(s, t) == t \in attached[s]

\* A mutant: a write, too, looks at the list of terminals before it goes to the manager.
WritesLater(c) == "listing"

WriteStep(c) == "written"

\* Where the handler comes to its first await; "refused" when it answers an error before.
FirstStep(s, c) ==
    LET op == call[c].op
        t == call[c].arg
    IN  IF gate[s] # "authorized" \/ op \notin Scopes THEN "refused"
        ELSE CASE op \in {"roots", "runtimes"} -> "probing"
               [] op \in {"list", "launch"} -> "resolving"
               [] op = "attach" -> IF t \in owned THEN "listing" ELSE "refused"
               [] op = "write" -> IF Attached(s, t) THEN WriteStep(c) ELSE "refused"
               [] OTHER -> IF Attached(s, t) THEN "detached" ELSE "refused"

\* The manager's write, synchronous up to the process.
Writes(c, t) == written' = [written EXCEPT ![t] = Append(@, c)]

RequestReceived(s, c) ==
    /\ Received(s, c)
    /\ LET step == FirstStep(s, c)
           t == call[c].arg
       IN  /\ IF step = "refused"
              THEN Finish(c, FALSE, "none")
              ELSE Goes(c, step, "none") /\ UNCHANGED call
           /\ IF step = "written" THEN Writes(c, t) ELSE UNCHANGED written
           /\ attached' = IF step = "detached" THEN [attached EXCEPT ![s] = @ \ {t}] ELSE attached
    /\ UNCHANGED <<link, cwd, runs, owned, open, gate, client, issued>>

\* Where a path leads: the path it is canonically, and the folder of a process that
\* starts there.
Leads(path) == IF link[path] \in Folders THEN link[link[path]] ELSE "nothing"

\* What the handlers do when an await returns; none of them looks whether the gateway was
\* closed meanwhile.
Resolved(c) ==
    /\ job[c].step = "resolving"
    /\ LET folder == Leads(call[c].arg)
       IN  IF folder = "nothing" THEN Finish(c, FALSE, "none")
           ELSE Goes(c, "checking", folder) /\ UNCHANGED call
    /\ UNCHANGED <<link, host, open, gate, client, toHost, issued, written>>

\* Paths are compared, not what they lead to.
InsideRoots(folder) == folder \in Inside

\* What the path leads to now is looked at, and the path is compared with the roots; there
\* may be no folder any more, or one that cannot be read.
Checked(c) ==
    /\ job[c].step = "checking"
    /\ LET folder == job[c].holds
       IN  \/ Finish(c, FALSE, "none")
           \/ /\ Leads(folder) # "nothing" /\ InsideRoots(folder)
              /\ IF call[c].op = "list" THEN Finish(c, TRUE, folder)
                 ELSE Goes(c, "probing", folder) /\ UNCHANGED call
    /\ UNCHANGED <<link, host, open, gate, client, toHost, issued, written>>

\* The roots or the runtimes are read, or the runtime that was asked for is not available.
Probed(c) ==
    /\ job[c].step = "probing"
    /\ \/ Finish(c, FALSE, "none")
       \/ IF call[c].op = "launch"
          THEN Goes(c, "creating", job[c].holds) /\ UNCHANGED call
          ELSE Finish(c, TRUE, "none")
    /\ UNCHANGED <<link, host, open, gate, client, toHost, issued, written>>

\* A mutant: the terminal is given the path that was asked for.
RequestedPath(c) == call[c].arg

LaunchFolder(c) == job[c].holds

OwnedNow(t) == owned \cup {t}

Attaches(c, t) ==
    /\ attached' = [attached EXCEPT ![call[c].session] = @ \cup {t}]
    /\ Goes(c, "attaching", t)
    /\ UNCHANGED call

\* The manager has created the terminal, or could not: its process was started with the
\* path, wherever that leads by now, and the device owns it, whatever became of the
\* session. Its first output is read before the request is answered.
Created(c) ==
    /\ job[c].step = "creating"
    /\ \/ /\ Finish(c, FALSE, "none")
          /\ UNCHANGED host
       \/ \E t \in Terminals :
             /\ cwd[t] = "none"
             /\ cwd' = [cwd EXCEPT ![t] = LaunchFolder(c)]
             /\ runs' = [runs EXCEPT ![t] = Leads(LaunchFolder(c))]
             /\ owned' = OwnedNow(t)
             /\ Attaches(c, t)
    /\ UNCHANGED <<link, open, gate, client, toHost, issued, written>>

\* The list of terminals is there; it may not have the terminal, or not be readable.
Listed(c) ==
    /\ job[c].step = "listing"
    /\ \/ /\ Finish(c, FALSE, "none")
          /\ UNCHANGED <<attached, written>>
       \/ /\ call[c].op = "attach" /\ Attaches(c, call[c].arg)
          /\ UNCHANGED written
       \/ /\ call[c].op = "write" /\ Writes(c, call[c].arg)
          /\ Finish(c, TRUE, call[c].arg)
          /\ UNCHANGED attached
    /\ UNCHANGED <<link, cwd, runs, owned, open, gate, client, toHost, issued>>

\* The first read of the output returns, or fails and leaves the terminal attached.
Pumped(c) ==
    /\ job[c].step = "attaching"
    /\ \E ok \in BOOLEAN : Finish(c, ok, job[c].holds)
    /\ UNCHANGED <<link, host, open, gate, client, toHost, issued, written>>

\* A write or a detach is done; a write to a process that is gone is refused.
Done(c) ==
    /\ job[c].step \in {"written", "detached"}
    /\ \E ok \in {TRUE, job[c].step = "detached"} : Finish(c, ok, call[c].arg)
    /\ UNCHANGED <<link, host, open, gate, client, toHost, issued, written>>

-----------------------------------------------------------------------------
(* Around them.                                                            *)

\* The channels close; what was on its way is lost.  The host notices now, the client when
\* it ends.
ConnectionLost(s) ==
    /\ s \in open /\ open' = open \ {s}
    /\ toHost' = [toHost EXCEPT ![s] = <<>>]
    /\ Close(s)
    /\ UNCHANGED <<link, cwd, runs, owned, client, call, job, issued, written>>

\* Somebody points a link at another folder, puts one in the place of a folder, or removes
\* either; the model lets one of them happen once.
Relink(path) ==
    /\ link[path] = "project" /\ link = AsFound
    /\ \E folder \in {"elsewhere", "nothing"} : link' = [link EXCEPT ![path] = folder]
    /\ UNCHANGED <<host, open, gate, client, toHost, call, job, issued, written>>

Next ==
    \/ \E s \in Sessions :
          \/ Start(s) \/ ClientEnds(s) \/ HelloReceived(s)
          \/ CloseReceived(s) \/ ConnectionLost(s)
          \/ \E c \in Calls :
                \/ RequestReceived(s, c)
                \/ \E op \in OpsOf(c, s) : \E arg \in Arguments(op) : Request(c, s, op, arg)
    \/ \E c \in Calls :
          \/ RequestTimesOut(c) \/ Resolved(c) \/ Checked(c) \/ Probed(c) \/ Created(c)
          \/ Listed(c) \/ Pumped(c) \/ Done(c)
    \/ \E path \in Links \cup Folders : Relink(path)

Spec == Init /\ [][Next]_vars

-----------------------------------------------------------------------------
(* Properties.                                                             *)

\* A call is answered with the result of its own request, although the handlers overtake
\* each other: the terminal launched for it, the terminal it named.
AnswersFit ==
    \A c \in Calls : call[c].state = "answered" =>
       /\ call[c].op \in {"attach", "write", "detach"} => call[c].got = call[c].arg
       /\ call[c].op = "launch" =>
             /\ call[c].got \in Terminals
             /\ \A d \in Calls \ {c} :
                   call[d].state = "answered" /\ call[d].op = "launch" => call[d].got # call[c].got

\* A terminal launched remotely was given a path that was compared with the roots, and its
\* process started in that very folder unless somebody replaced the folder itself: what
\* became of the path that was asked for makes no difference, although runtimes are read
\* in between. It belongs to the device although its session was lost before the launch
\* was answered.
LaunchesFit ==
    \A t \in Terminals : cwd[t] # "none" =>
       /\ cwd[t] \in Inside /\ t \in owned
       /\ link[cwd[t]] = cwd[t] => runs[t] = cwd[t]

\* Its process started in a folder of the roots, whatever was replaced meanwhile.
LaunchesInside == \A t \in Terminals : runs[t] \in Inside \cup {"none", "nothing"}

\* What a client writes to a terminal reaches the process in the order it was sent.
WritesInOrder ==
    \A t \in Terminals : \A i, j \in DOMAIN written[t] :
       i < j /\ call[written[t][i]].session = call[written[t][j]].session =>
          Sent(written[t][i]) < Sent(written[t][j])

=============================================================================
