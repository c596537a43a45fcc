# Codra: a formal model of the desktop terminal host and its remote access

Codra is an Electron desktop that runs terminals, and lets a signed-in user
reach them from another desktop or from the web console over WebRTC, with a
Firebase backend for sign-in, presence and signaling. This directory holds
TLA+ models of it, the TLC configurations that check them on small instances,
and theorems checked by the TLA+ proof system.

Contents

1. [The system](#1-the-system): components, state, operations, hard behaviours
2. [The modules](#2-the-modules) and how they correspond to the code
3. [The runs](#3-the-runs): what each one shows, bounds, fairness
4. [What the runs found](#4-what-the-runs-found)
5. [The proofs](#5-the-proofs)
6. [What is not modelled](#6-what-is-not-modelled)
7. [Plan](#7-plan)

To check a run: `tlc -config <cfg> <module>`, with the module that `PROJECT.json`
or section 4 names; to check the proofs of a
module: `tlapm <module>.tla`. `PROJECT.json` lists the runs, and for every
definition the lines of the source that it translates.

## 1. The system

Everything is TypeScript and single-threaded: each process is an event loop,
so what interleaves is what runs between two `await`s. The difficulty is that
almost every operation is a chain of awaits over something that can fail or be
slow: a PTY, a database, files, a data channel, a peer, a cloud function.

| Component | State it keeps | Operations | Interacts with |
|---|---|---|---|
| **Terminal manager** `main/terminal/manager.ts` | a session per PTY: handle, listeners, early output, `outputTail`, `descriptorTail`, `finalizationPromise`, exit code | create, write, resize, close, closeAll, replay; `onData`, `onExit` of the PTY | repository (rows), output store, PTY; subscribers `onChanged`, `onOutput` |
| **Desktop lifecycle** `main/lifecycle.ts`, `ipc/admission.ts`, `bootstrap.ts` | `quitting`, the gate and the requests in flight | before-quit with confirmation, drain, closeAll, shutdown; recovery of rows at start | manager through the router, database, gateway |
| **Scrollback store** `main/terminal/scrollback.ts` | per terminal: a file of records, a file of cursors, cached next sequence, queue of tasks | append (with compaction), replay, readFromCursor | file system |
| **Terminal router** `remote-client/terminal-router.ts` | proxied sessions, early frames, next and acknowledged cursors | create, resume, write, resize, close, closeAll, acceptFrame | channel client, manager (local ones), renderer |
| **Attachment pump** `webrtc/attachment-pump.ts` | acknowledged and sent cursors, pumping flag | pump, acknowledge, onBufferedAmountLow, close | store, terminal data channel |
| **Host control gateway** `remote/host-control-gateway.ts` | handshake state, attachments | hello, agent.launch, terminal.* requests, cursor_ack | manager, pump, control data channel |
| **Remote host controller** `remote/host-controller.ts`, `session-approval.ts`, `desktop-peer-connector.ts` | account and host status, generation, stopRequested, connector, heartbeat, listener; pending sessions; peers | login, logout, activate, deactivate, approve, reject; session listener | Firebase, peers, approval window |
| **Peer negotiation** `remote-client/peer-session.ts`, `signal-transport.ts`, `firebase/signal-subscription.ts`, the two peer adapters | sequences, the chain of publications, the collected signals, operations of the adapter, early candidates, deadline | connectClient, acceptHostSession, offer, answer, candidates, close | backend signals, RTC connection |
| **Remote targets** `remote-client/agent-channel-client.ts`, `webrtc/handshake.ts` | connections under way, connected peers, pending requests | connectTarget, disconnect, disconnectAll, request with timeout | connector, gateway of the other side |
| **Backend** `functions/src/index.ts`, `auth.ts`, `turn.ts` | devices with generation and lease, sessions, signals | registerDevice, heartbeat, createSession, approve, reject, publishSignal, peer device, TURN credentials | Firestore transactions |
| **Desktop login** `remote/desktop-login.ts`, `functions/src/desktop-login.ts` | an attempt with its loopback listener; the login documents and the device | start, authorize, redeem, cancel, the redirect of the browser | Google, browser, Firestore |
| **Terminal window** `useTerminals.ts`, `TerminalPane.tsx`, `App.tsx`, `ipc/terminal-ipc.ts`, preload | the list, what was dismissed, the screen with its pages and pending chunks, the setups that run | list, replay, create, setup, close, another window | manager and router, one ordered pipe to the window |
| **Agent dialog** `NewAgentDialog.tsx`, `RemoteWorkspaceDialog.tsx`, `App.tsx` | the chosen device, directories, catalog, folder shown | choose, connect, browse, launch | targets, workspaces, runtimes over IPC |
| **Web console** `apps/web/src` | sign-in, connection state, terminals | connect, launch, attach | ports of the desktop client |
| Workspace service, runtimes, schemas, wiring | see section 6 | | |

The main flows:

* *Local terminal.* Renderer → IPC (admission gate) → manager → PTY. The PTY
  speaks: manager → store append → subscribers.
* *Remote terminal.* Client router → control channel → gateway → manager.
  Output: store → pump → terminal channel → router → renderer, and every frame
  is acknowledged over the control channel, which starts the next read.
* *Quit.* Confirmation → gate closed → requests drained → windows detached →
  closeAll → gateway closed → database closed → `app.quit()`.
* *Remote session.* Client requests → backend → listener of the host →
  approval window → approve → negotiation → handshake → gateway.
* *Sign-in.* Loopback listener bound → login document → browser → redirect with
  a code → token → authorize → redeem, which stores the device.

What is hard in each, and what makes it correct:

* **Manager.** A native exit, a close and a quit race to finalize one session;
  a PTY may ignore SIGHUP; it may speak and exit before the row is saved; the
  row and store may be slow or fail. Correct: an exit is never claimed before
  it happens, it is announced once and after the last chunk; the row, the
  descriptor and the announcements agree; whatever was started ends.
* **Lifecycle.** A quit begins with requests in flight; remote requests do not
  pass the gate; each step of the shutdown may throw; the process may die
  anywhere. Correct: a quit leaves no process and closes the database after
  the last write; a failed quit leaves a usable desktop; a start finds no row
  that says running.
* **Scrollback.** Four file operations per append with a crash or an error
  between any two; compaction while cursors are held elsewhere. Correct: a
  cursor names the same byte for ever; a queue never runs two tasks, and never
  stops.
* **Remote output.** Overlapping reads, frames sent twice and cut at different
  places, two channels with no order between them, reconnection. Correct: what
  the renderer gets is a prefix of the stream, each byte once; every
  acknowledgement is acceptable to the host; output arrives; the send buffer
  is bounded.
* **Host controller.** Logins, logouts, activations and deactivations overtake
  each other's promises. Correct: a logout stands until the next login;
  what is online is being served; what is stopped is closed.
* **Targets.** Three objects own one connection and close separately, while
  the host is deactivated and attempts overtake each other. Correct: what is
  shown as connected can be asked; a failure leaves nothing open; no call waits
  for ever.
* **Negotiation.** Signals are numbered when they are published, verified while
  others arrive, and given to an adapter whose every operation is a chain of
  promises; any step may fail or be overtaken by a close. Correct: signals are
  stored without a gap and taken in order, candidates wait for the description,
  a closed session is quiet, an attempt settles.
* **Backend.** Functions read outside of the transaction that follows, while
  devices are disabled and leases run out. Correct: a revoked generation stays
  refused, a decision is that of the host that was asked and is final, signals
  are stored and credentials given only while the session lives.
* **Desktop login.** Each step races one deadline, and goes on when it lost.
  Correct: what was decided stays so, an attempt that reports a device consumed
  its login, the port follows the attempt, attempts end.
* **Gateway.** Requests are handled concurrently, links move between the check
  and the use, sessions are lost with a launch under way. Correct: an answer
  finds its call, a launch is given the path that was validated and belongs to
  the device, writes keep their order.
* **Window and dialog.** An answer is read before it is sent, so news overtake
  it; answers come when the window shows something else. Correct: the screen is
  the stream, the list agrees when nothing is on its way, a setup is released;
  a launch goes where it was chosen.

`PROJECT.json` lists these hazards one by one, each at the line where it bites
and with the properties that watch it.

## 2. The modules

| Module | Models | Kind |
|---|---|---|
| `TerminalManager` | manager.ts over failing repository, store and PTY | state machine |
| `TerminalContract` | what a terminal promises its subscribers | abstract specification |
| `TerminalManagerProofs` | four theorems about `TerminalManager` for any repository; the refinement of `TerminalContract`, and what the rows say, over the shipped one | proofs |
| `DesktopLifecycle` | gate, quit, restart; `INSTANCE TerminalManager` | composition |
| `DesktopLifecycleProofs` | three theorems about `DesktopLifecycle`, by what is proved of the manager it runs | proofs |
| `Scrollback` | scrollback.ts for one terminal | state machine |
| `RemoteOutput` | pump + gateway (host) and router (client), two channels | composition |
| `HostController` | controller, approval registry, connector | state machine |
| `HostControllerProofs` | three theorems about `HostController` | proofs |
| `RemoteTargets` | targets, an attempt to connect with its session and channel client, the router's sessions | composition |
| `RemoteTargetsProofs` | two theorems about `RemoteTargets` | proofs |
| `PeerNegotiation` | both ends of one session, from the request to the handed channels | composition |
| `Backend` | the callable functions over the documents of one account | state machine |
| `DesktopLogin` | the login client with its listener, and the login functions | composition |
| `HostGateway` | channel client, gateway with concurrent handlers, workspace | composition |
| `TerminalView` | terminal-ipc and preload, useTerminals, TerminalPane, App | composition |
| `PeerNegotiationProofs`, `BackendProofs`, `DesktopLoginProofs`, `HostGatewayProofs` | three theorems each about the module in the name | proofs |
| `AgentDialog` | App, NewAgentDialog, RemoteWorkspaceDialog | state machine |
| `MC*` | names of model values and constants for TLC, where a module needs them; `MCTerminalManager`, `MCScrollback` and `MCRemoteOutput` put two instances into one run | |

Several definitions come in pairs: the second is what a plausible mistake in
the same lines would do (its comment begins "A mutant"). No specification uses
it; substituted for its twin it must break the property that watches those
lines, which shows that the property depends on them.

### TerminalManager

An action is what runs between two awaits. State and code:

| Variable | Code |
|---|---|
| `creation[t]` | where `create()` is: awaiting `save`, rolled back, done |
| `session[t]` | `acceptingInput`, the handle, the two listeners, `nativeExitCode` |
| `output[t]` | early output, the chunks queued in `outputTail`, those published, `outputError` |
| `record[t]` | `descriptorTail` as a queue of transitions (an exit, or a resize to n), the descriptor, the row in the repository, the announcements |
| `finalization[t]` | `finalizationPromise`: cause, stage (sighup, sigkill, draining, updating, settled), appends awaited, the error kept |
| `closeAll[t]` | what the last `closeAll()` waits for |
| `process[t]` | the child: alive, hung up (SIGHUP received), killed, exited (environment) |
| `history[t]` | history variable: what came first, a close or an exit |

Actions: `Create` / `CreateResumes` / `RollbackCreation` (the two halves of
`create()`), `PtyData`, `PtyExit`, `Resize`, `Close`, `CloseAll`; the stages of
a finalization `EscalateToSigkill`, `GiveUpTermination`, `NoticeExit`,
`OutputDrained`, `FinalizationSettles`; and the settling of appends and
updates. `startFinalization` is the operator `Started`, shared by the three
callers.

A chunk is known by its number and a size by the number of its resize.
`SqliteRepository` chooses between the repository that is shipped, whose calls
finish inside the call so that only microtasks separate them from their
continuation, and any repository that contracts.ts allows. The second is
needed because the code holds output back while `save()` is pending, which the
shipped repository never makes happen.

### DesktopLifecycle

`INSTANCE TerminalManager` over the shipped repository, with every action of it
guarded by who calls it: the local renderer through the gate, the gateway
without it. `quit` is where
`onBeforeQuit` is (confirming, draining, closing, shutting down) or that the
process is down; `admission` is the gate and the requests in flight — computed
after each step from the promises of the manager; `gateway` has the launches
that await the workspace and the runtimes; `ProcessEnds` is a crash at any
point, and `Starts` the recovery of rows by bootstrap.ts. What survives is in
`left`: the row of each terminal (`Row`), its child if that still runs and, to
compare with, its output. The next process has a manager that knows no terminal;
a child it did not start may exit at any time (`OrphanExits`).

### Scrollback

`file` is the sequence of complete records, `torn` says that an incomplete one
follows, `cursors` is the cursor file, `nextSequence` the cache. `tasks` are
the calls that have not settled, each at one of its awaited file operations;
`queueTail` is the entry of the `queues` map. Each file operation has an action
for its success and one for its failure; `Crash` forgets the memory and keeps
the files, with or without a torn record. Data is a chunk with a length, so a
stream is a sequence of (call, byte) pairs, and compaction, cursor search and
the cut of the last piece are computed as in the code. With
`InlineCursors` (a byte limit of 1024 or more, as shipped) the records carry
their cursors themselves; without it the cursor file alone names the bytes.
`MCScrollback` runs both.

### RemoteOutput

The output path of one remote terminal, from the moment the gateway has created
it. Bytes are counted, a frame is an interval. `pump` is the pump with the
cursor of the read it awaits; `buffer`, `frames`, `toClient`, `toHost` are the
two data channels (each FIFO, neither ordered against the other); `session` is
the router's proxied session with its next and acknowledged cursors, `early`
its frames that came before the answer to the launch. `received` is what was
published to the renderer, as the sequence of the positions of its bytes.
`AcceptFrame` is the whole of `acceptFrame()`: duplicate, continuation,
overlap, mismatch; `Acknowledged` is the pump's `acknowledge()` with the
`pump()` it starts. `waiting` has the requests of the client, each known by its
number: launch, attach and detach may be answered, fail, time out
(`RequestTimesOut`, after which the answer is ignored), or end with the
connection. The host answers an attach when the first read of the new pump
settles, also when that pump was closed meanwhile (`listing`, `owed`).
`Resume` runs whenever the target is published as connected, on a new connection
or on the one that stayed; `attachment` remembers which of the two it was, for
the properties, and `mismatched` what did not follow.

### HostController

`account`, `login` and `attempts` hold the account: its status, whether
`this.runtime` is set, the user of the Firebase app (which outlives the fields,
since the same app is returned each time), the generation, and where each login
promise is. `host` holds the status and the fields of the controller; `live`
what was created and not closed yet, by the activation that created it, so that
a field that is overwritten leaves a trace. `approvals` is the registry,
`server` the session documents, `peers` what the connector accepts and serves.
`LoginCancelled`, `RegisteredTooLate` and the failing branches of `Listens` and
`StartFails` are the paths of promises that were overtaken.

### RemoteTargets

The client end, for one target device. An *attempt* is one call of
`connectTarget()` that finds neither a peer nor a connection under way, with
all that it creates: `attempts[a]` is where the promise is (`stage`), the
connector it was made with, and the three objects that own the connection and
close separately — the negotiation session with its deadline, the data
channels, the channel client. What one of them tells the others when it closes
is the difficulty: a session that closes its channels removes the listeners of
the client, and a client that is closed by `disconnectAll()` notifies nobody.

| Variable | Code |
|---|---|
| `connector`, `activations` | the connector of the active remote host |
| `target`, `connecting`, `peer` | the entries of the target in `devices` and `states`, `connecting`, `peers` |
| `refreshing` | a `refreshTargets()` that awaits the list |
| `proxies` | `remoteSessions`, in the order of the map |
| `requests` | the `pending` maps of the channel clients |
| `subscribed` | `peerSubscriptions` |
| `hosted` | the terminals the other desktop still has (environment) |

`Publishes` is the chain from `publish()` through index.ts to `resume()`, whose
loop goes as far as its first await (`ResumesFrom`) and on from there when the
host answers (`AttachAnswered`). `ClientsGone` is `closeWithError()` with and without
notification. `Deactivate` is `stopHostResources()` on the client's side.
Output is left to `RemoteOutput`, signals to `PeerNegotiation`: what they come
to is an input here (`RtcConnected`, `ChannelsOpen`, `NegotiationFails`,
`SessionLost`). `RefreshTargets` asks only while the host is online, as
`enabled()` does.

### PeerNegotiation

Two ends, `client` and `host`, with the same code and an adapter each (a browser
end queues every operation behind the last one, the native one does not).
`attempt[e]` is where the promise of `connectClient` or `acceptHostSession` is,
`session`, `armed`, `channels`, `opened`, `handed` are the
`PeerNegotiationSession`; `queue` and `posting` the chain `publishTail` with the
publication the backend has not answered, `sequence` the number last taken,
`store` what the collection holds; `cursor`, `batch`, `taken` the subscription
with the snapshot it is verifying; `peer[e]` the connection and its adapter with
the operations under way and the candidates that wait for the description. The
connectors may be closed at any step (`CloseConnector`), and a connection may
come up, fail or never do either. What ice.ts makes of the credentials is an
outcome: an end gets its servers, or the attempt fails.

### Backend

One action per function step: what a function reads before its transaction is
read in a step of its own (`calls[w].stage`), and the transaction is one step.
`devices`, `sessions`, `signals` are the documents, `clock` the server's,
`revoked` a history of the generations that were disabled. `SessionParses` is
the schema every stored or read session passes. `Disable` is the administrator,
who is outside of the repository. Arguments are what any registered device may
send, not what the clients of the repository do send: `publishSignal` is called
for any session, any recipient and any expiry of `ClaimedExpiries`, in the past,
within the session or beyond it, so that each refusal of index.ts:471-495 is
taken. A function reads its clock before its transaction, and that reading
travels with the call (`calls[w].now`).

### DesktopLogin

`client[a]` is an attempt as a list of awaited steps (`Steps` by the entry point
that was called), each raced against one deadline; `wire` has the requests that
are on their way or answered, including those whose step gave up; `logins` are
the login documents, `device` the device of this key, `listeners` and `callback`
the loopback server. The next attempt begins when the last one ended, with the
key and the port it left behind. The listener looks at the request alone, so a
tab of an earlier attempt may answer it whatever the client is at
(`Redirected`). A function reads its clock before its transaction, which may be
tried again: it judges a request by a moment between its sending and its commit
(`Readings`).

### HostGateway

`call[c]` is a request as its client sees it, `job[c]` where its handler stands:
`Resolved`, `Checked`, `Probed`, `Created`, `Listed`, `Done` are the steps
between its awaits, and `Attaches` to `Done` the answer that waits for the first
read of the pump, which may fail with the terminal created, owned and attached.
`validate()` returns a path, not a folder: `link` says what stands at each path,
the canonical ones included, and `Relink` puts another folder, or nothing, there
once, at any time. `cwd[t]` is the path the manager was given, `runs[t]` the
folder to which the spawn resolved it. Two sessions of the device follow each
other; `owned` is shared by their gateways, `attached` is not. `written[t]` is
what the manager was given.

### TerminalView

`status`, `stored`, `sent`, `base`, `closing`, `setup` are the main process,
`pipe` its messages in order, `load`, `early`, `terms`, `dismissed`, `asked`,
`active` the hook, `pane` the pane of the active terminal (the page it asked,
the chunks that wait, the last sequence, the screen), `busy` and `setupTerm` the
setup the window shows. `ListRead` and `ListSent`, `PageRead` and `PageSent` are
the two halves of a call, with publications in between. `OpenWindow` closes the
window and opens another. A setup is `Pending` from its admission to the answer
of `create()` (`SetUp`, `SetUpCreated`, `SetUpFails`). A terminal ends announced
and answered (`Exit`), announced with the close that asked for it refused
(`ExitFaulty`), or, when its row cannot be updated, not announced at all and
with every later close refused (`ExitUnstored`, `rejected`). The first list may
reject (`ListFails`), and then stays unloaded until the window is opened again.
Each message is followed by its own render; a setup that is refused leaves a
notice only.

### AgentDialog

`asks` are the questions over IPC that have no answer, each with whether its
asker still heeds it; they are answered in any order (`Answered`). `selected`
and `Target` differ: the second is the entry of the list that is shown, which
falls back to the first one.

## 3. The runs

| Run | Configuration | Instance | States |
|---|---|---|---|
| `manager` | TerminalManager.cfg | 1 terminal, 2 outputs, 2 resizes, 2 exit codes, all faults, over the shipped repository and over any | 113 thousand |
| `lifecycle` | DesktopLifecycle.cfg | a local and a gateway terminal, one output or resize, faults save, append, listener and shutdown, 2 starts | 348 thousand |
| `scrollback` | Scrollback.cfg | lengths 1, 4, 6 under a limit of 6, 4 calls, 2 at a time, 1 crash, faults append, compaction, retain, records with and without cursors | 50 thousand |
| `remote_output` | RemoteOutput.cfg | 4 bytes in chunks of two that reads of three cut; 2 connections with 3 requests (a launch and 2 resumes), or one connection with exit, close and 2 requests | 202 thousand |
| `host_controller` | HostController.cfg | 1 session, 2 logins, 2 activations, faults window and listener | 20 thousand |
| `remote_targets` | RemoteTargets.cfg | 2 attempts, 2 activations, 1 terminal | 276 thousand |
| `negotiation` | PeerNegotiation.cfg | a browser client and a desktop host, one candidate each | 1.2 million |
| `backend` | Backend.cfg | a host, 2 browsers, 1 session, 2 calls at a time, a clock of 2, signals of one tick claimed for 1 or 3, 1 disabling | 978 thousand |
| `desktop_login` | DesktopLogin.cfg | 2 attempts of 3 kinds, a clock of 2 | 1.3 million |
| `host_gateway` | HostGateway.cfg | 2 sessions, 3 requests, 2 terminals | 5.7 million |
| `terminal_view` | TerminalView.cfg | 2 terminals, 2 chunks, pages of 1, 2 acts, 1 fault | 8.9 million |
| `dialog_falls_back` | DialogFallsBack.cfg | expects a violation, see section 4 | |

### What they show

**`manager`** — `NoFalseExit`: neither the row nor a subscriber hears of an
exit that has not happened, even when both termination timeouts pass and the
finalization is forgotten and started again. `OutputKept`: what is published,
queued and held back is what the PTY emitted, in order, unless an append failed.
`EndedOnce`: one exit is announced, and a failed creation leaves no running row
even when `save` committed before it rejected. `ShippedAgrees`: the code that is
recorded is that of what came first; row, descriptor and last announcement agree
when nothing is pending, unless an update failed; and a closeAll that resolved
left no process, no running row and no unpublished output. `KeepsContract`: the
manager refines `TerminalContract` under the mapping "what was last announced" and "what
was published", so no chunk is published after the exit. `EveryCloseEnds`
(liveness): a finalization whose process exited settles for good, and whoever
waits on closeAll gets an answer.
One run covers both repositories: the variable `shipped` of `MCTerminalManager`
chooses at the start. First causes, closeAll, the agreement of the rows and the
contract are claimed over the shipped one only: with a repository whose `update`
is slow, a resize overtakes the creation and the descriptors disagree.

**`lifecycle`** — `QuitIsClean`: when the desktop has quit, every local
terminal has exited, is recorded as exited, has no save or update pending and
all its output stored. `RowsOutliveCrashes`: while the desktop runs, a row that
says running belongs to a session it has, and an exit, once recorded, is never
rewritten, by recovery in particular. `QuitEnds`: a quit that began draining
ends, in a quit, in a failure, or in a crash.

**`scrollback`** — `ReadsTheStream`: reading from any cursor gives exactly the
bytes that were appended there, whatever was compacted, failed or crashed in
between. `TasksAreSerial`: one task at a time, and the file is as if the calls
had run in their order. `CallsSettle`: a call behind one that failed still
settles, and an append that resolves leaves the file within its limit.

**`remote_output`** — `StreamFollows`: what the renderer received is a stretch
of the stream, no byte twice or out of place, wherever reads cut the chunks and
however often the terminal was attached; on a connection that attached it once
nothing is missing, so that the only frame the router gives a terminal up for is
one that repeats some bytes and adds others (which it does: section 4); the pump
stops at the watermark. `CursorsAreTaken`: on such a connection the gateway
refuses no acknowledgement while the terminal runs, over failed and timed out
requests. `ResumedOutputArrives`: there the renderer catches up again and again,
unless its session was disconnected. A terminal that is attached again to a
connection that stayed, or was detached from it, is excepted from the last two
and from the claim that nothing is missing: section 4 shows what happens. The
variable `ending` of `MCRemoteOutput` chooses between two instances, one that is
resumed and one whose process may exit and whose tab may be closed: a session
that exits and is resumed loses what it was (section 4). The other configurations
of `RemoteOutput` are checked with that module itself.

**`host_controller`** — `LogoutStands`: from a logout to the next login the
account is signed out and has no runtime. `ShownIsHeld`: a status of signed in
has a user behind it; a host that says online has a connector, a timer and a
listener that are open; a host that was stopped has no listener, no request
shown, and has closed the connector and heartbeat of its last activation.
`ActivationEnds`: an activation leaves "activating".

**`remote_targets`** — `ShownIsConnected`: a target that is shown as connected
has a peer to ask, and a client that noticed the loss of its connection leaves
no terminal connected, whichever peers came and went while it was launched or
resumed. `NothingLingers`: an attempt that failed, whoever ended it, left no
deadline, session or channel, and a terminal is attached once at a time, to the
peer that its session names. `CallsEnd`: a call of `connectTarget()` settles
unless its connector is closed meanwhile or its connection came up and its
channels do not open (`AwaitsChannels`: "connected" cancels the deadline,
peer-session.ts:102, and nothing else bounds that wait), and every request ends,
also on a connection whose loss the client was not told of.

**`negotiation`** — `SignalsInOrder`: the stored signals of an end are numbered
without a gap in the order of its negotiation, and the other end is given a
prefix of them, although a publication may fail after its number was taken.
`CandidatesFollow`: a candidate reaches the connection only behind the
description, and candidates reach it in the order they were announced (see the
bounds for what one candidate shows of this, and section 5 for any number). `ClosedIsQuiet`: a closed session publishes, applies and hands over
nothing. `NegotiationEnds`: an attempt settles, unless its connector is closed
under it or the connection came up, which cancels the deadline before the
channels are open.

**`backend`** — `RevocationIsFinal`: what a device held when it was disabled
stays refused, and a heartbeat that was let in before does not bring it back.
`DecisionIsTheHosts`: a decision is that of the host that was asked, under the
generation it was asked under, within the lease by the time its function read
before the transaction. `DecisionStands`: it is final. `SessionServices`:
whatever any device asks, a signal that is stored goes from one device of an
approved session to the other, was created while the session lived and expires
within a signal's lease of that; credentials go to the same two devices and end
with the session; a sequence number is stored once. Without the check of the
status, of the sender, of the recipient or of the expiry the run finds
`SessionServices` violated. A signal may outlive its session by what is left of
its own lease: the function compares its expiry with its own clock
(index.ts:492), not with the session's.

**`desktop_login`** — `DecidedStands`: a cancelled or consumed login stays so
whatever request comes late, and the device is stored only by consuming an
authorized one, for a request that was sent while its code was alive.
`CompletedIsConsumed`: an attempt that reports a device consumed
its login, and an attempt that was refused for want of a device is followed by
one that registers it. `PortFollowsAttempt`: the port is held by an attempt that
runs, or by one that gave up while it was binding. `LoginEnds`.

**`host_gateway`** — `AnswersFit`: an answer is the one of its own request,
although handlers overtake each other and answers come after the timeout.
`LaunchesFit`: a terminal is given a path that was compared with the roots, and
its process starts in that folder unless the folder itself was replaced,
wherever the requested path leads by then; it belongs to its device although the
session was lost meanwhile. (A folder that is replaced between the check and the
spawn is not excluded by the code: section 4.)
`WritesInOrder`: writes reach the process in the order they were sent.

**`terminal_view`** — `ScreenFollows`: chunks are written in order, once, and
only what the store gave up or a failed replay did not bring is missing.
`ScreenCatchesUp`: at rest nothing is missing that could have come.
`ListAgrees`: a closed terminal never returns, and at rest the list is what the
main process has, although the first list is older than changes that overtook it;
after a list that failed, the part of it that was announced. `SetupIsReleased`:
a setup blocks the next one only while it is being created or its terminal is
listed as running, whichever way it failed or ended, and at rest the window shows
as under way the setup that the main process holds. At-rest properties take the place of liveness here: the
graph is too large for it.

### Bounds, and why they are enough

Sessions share nothing in the manager but the answer of `closeAll`, which is
kept per terminal in the model; one terminal therefore shows every interleaving
of its callers, and `lifecycle` runs two. Two outputs are the least with an
order, and one of them can be early; two resizes can stand before and behind an
exit in `descriptorTail`. Two exit codes are an explicit close's 0 and another.
In the scrollback four calls suffice to fill, compact, crash and read, and the
lengths are chosen to be under the low watermark, above it, and equal to the
limit. For the remote output the state is relative to the acknowledged cursor:
two chunks of two bytes and reads of three give whole chunks, one cut by the end
of a read, duplicates and overlaps; a launch and two resumes give a resume on a
new connection and one behind it on either. The early frames stay under the limit
of the router; beyond it see section 4. Logins
and activations overtake each other in pairs. For the targets, two attempts
overtake each other, one of them under the connector of an activation that
ended; with one terminal the loop of `resume()` has one turn in the passing run,
and TargetsStarved.cfg has two terminals.

An end of the negotiation announces three payloads with one candidate: one to
stand behind the description and before the end of the candidates. The run
therefore shows the place of a candidate between those two, and not the order of
two candidates; the space with two (`TwoCandidates`) is too large for a run of a
few minutes: 13 million states of it were explored without a violation, and the
exploration was not completed. What one candidate does not show is proved: both
`SignalsInOrder` and `CandidatesFollow` hold for any number of candidates
(section 5). In the backend two calls overlap, the second
one a heartbeat or an approval, which are those that read before they write; the
clock of two steps lets a lease of one end before, at and after a call, and the
claimed expiries 1 and 3 are past, within a signal's lease, and beyond it. Two
login attempts are one that is given up and the one it disturbs. Three requests
of the gateway are a launch, what overtakes it and what follows; the requests a
run may make are those of `ThreeCalls`, chosen so that every pair that shares a
terminal meets, and one replacement of a folder or a link comes before, between
or after the check and the spawn. In the window two terminals give one that is active and one that
is not, two chunks and pages of one give a full page, an overlap of replay and
live output, and a gap.

Every bound is a constant in a guard of the action it bounds (`Max...`). A
manager never stops (`closeAll()` can always be called), nor does a host
controller, so their runs check deadlock; the other ones say
`CHECK_DEADLOCK FALSE`, since a component at rest and a run at its bounds both
stop. `SYMMETRY` is used for terminals in `host_gateway` and `terminal_view`, for
the browsers in `backend` and for devices in the dialog, where no liveness is checked and no definition
chooses among them.

### Fairness

Weak fairness, only of what the platform or the code schedules: a promise that
was given to the file system or the database settles; a timer fires; a process
that got SIGKILL dies; a task at the head of a queue runs; data channels of a
live connection deliver; a request to the backend is answered or times out; a
connection whose gateway closed it is lost. That the channels of a connection
that is up ever open is not assumed. `negotiation` assumes of it only the calls of the
connectors and the timers, `desktop_login` only the deadline and the timers of
the listener and the cancellation. Nothing is assumed of the user (closing,
resuming, quitting, signing in), of the network (a lost connection need not
return), of a browser that may never take its page, or of a process that only
got SIGHUP.

## 4. What the runs found

`dialog_falls_back` expects a violation; `PROJECT.json` quotes what it disagrees
with under "findings": the dialog launches on
`launchTargets.find(...) ?? launchTargets[0]`, so that a remote device that was
chosen while the list of targets was still asked for is replaced by this machine
when that question fails, and the agent starts locally, with the directory of
the remote device (NewAgentDialog.tsx:107), although
"No remote failure silently launches on the local machine"
(docs/superpowers/specs/2026-08-02-agent-target-workspace-design.md:148).
In the same module `DirectoriesBelong` holds (AgentDialog.cfg).

Further configurations, each of which shows one more behaviour that the code has
and a document denies, or a reader may not expect. Each is checked with the
module it names, and TLC finds the property violated:

| Configuration | Property | What happens |
|---|---|---|
| DesktopQuitRemote.cfg (DesktopLifecycle) | `QuitLeavesNoProcess` | A remote launch that is being validated while the user quits creates its terminal after `closeAll()` took its snapshot: the desktop quits and leaves the process and a row that says running (host-control-gateway.ts:433; "Explicit Quit warns and then leaves no PTY child process", docs/superpowers/plans/2026-08-01-codra-standalone-electron.md:925). |
| DesktopQuitRetry.cfg (DesktopLifecycle) | `RetryQuits` | One append failed: its rejected finalization stays cached in the session, and every later closeAll, hence every later quit, rejects. |
| ScrollbackCursorFault.cfg (Scrollback) | `SequencesIncrease` | The cursor file cannot be written after the record was: the cached sequence does not advance and the next append takes the same one (scrollback.ts:153). |
| RemoteOutputCut.cfg (RemoteOutput) | `FramesFollow` | Chunks of two with reads of three: overlapping reads cut a chunk at different places, and the router takes the frame that repeats a byte and adds one for corruption and disconnects the terminal on a connection that is alive (terminal-router.ts:310; "not a replay artifact", terminal-router.test.ts:360-362). |
| RemoteOutputReattached.cfg (RemoteOutput) | `ReattachedCursorsAreTaken` | `resume()` attaches a terminal again on a connection that stayed: it forgets the acknowledged cursor, a frame of the old pump that is still on its way is acknowledged behind the attach, and the new pump, which has sent nothing, refuses it; the host closes the whole peer session (terminal-router.ts:172-179, where a comment says that acknowledging afresh makes the resumption safe; attachment-pump.ts:87). |
| RemoteOutputRevived.cfg (RemoteOutput) | `ExitStands` | `resume()` shows a session that exited as running again. |
| HostLeaks.cfg (HostController) | `IdleServesNobody` | A host whose listener failed is activated again: the first connector is overwritten and serves its clients after the host is deactivated (host-controller.ts:459; "Deactivating tears down all peer connections", docs/runbooks/remote-access.md:100). |
| HostUnwanted.cfg (HostController) | `OnlineIsWanted` | A login resets `stopRequested`, so a start that a logout had stopped goes on and the host is online although nobody asked. |
| TargetsClosed.cfg (RemoteTargets) | `CloseIsShown` | The remote host is deactivated with a terminal open on a target: `disconnectAll()` closes its peer without notifying the router, and the terminal stays connected and running; its tab cannot be closed, and a new connection does not resume it (agent-channel-client.ts:189; "disconnect marks proxy descriptors exited", docs/superpowers/plans/2026-08-02-agent-target-workspace.md:240). |
| TargetsTwice.cfg (RemoteTargets) | `OneConnection` | Two calls, one of an earlier activation, are under way at once and each opens a connection to the same target. |
| TargetsStarved.cfg (RemoteTargets) | `ResumeReaches` | The first terminal is unknown to a host that was restarted, and its refused attachment ends each `resume()` before the other ones. |
| BackendReject.cfg (MCBackend) | `RejectionIsStored` | `rejectRemoteSession` parses its candidate, which has no `closedAt`, with a schema that requires one: no rejection is ever stored (index.ts:401; "the session is rejected rather than left pending", docs/runbooks/remote-access.md:126). |
| HostGatewayInside.cfg (MCHostGateway) | `LaunchesInside` | The folder is replaced by a link after `validate()` compared its canonical path and before the PTY is spawned with that path: the process starts outside of the roots (host-control-gateway.ts:433-438, manager.ts:111). |
| SetupStuck.cfg (MCTerminalView) | `EndReleasesSetup` | The row of a setup that ended cannot be updated: no exit is announced, the finalization stays rejected in its session, and every further setup of that kind is refused although the process is dead (manager.ts:355-366, terminal-ipc.ts:165-170). |
| ListUnread.cfg (MCTerminalView) | `AllAreListed` | The first `list()` rejects, which nothing catches: the terminals that were running stay unlisted until the window is opened again (useTerminals.ts:69). |
| DialogFolders.cfg (MCAgentDialog) | `FolderFitsDevice` | The answer to a folder that was opened by hand is heeded after the device was changed: the dialog shows a folder of another device. |

Eleven more properties are stated in the modules and do not hold; the constants
are those of the run of the module unless said otherwise:

| Property | What happens |
|---|---|
| `DesktopLifecycle.AdmissionReturns` | A shutdown that throws after closeAll leaves the gate closed on a desktop that stays up. |
| `RemoteOutput.NoGap`, with `EarlyLimit = 1`, `Lengths = {1}`, `HighWatermark = 4`, `MaxBytes = 5`, `MaxInFlight = 3`, one connection | More frames than the router keeps arrive before the answer to the launch; the first one after them does not follow. |
| `RemoteOutput.ReceivesFromTheStart` | The attach of a new connection times out and its first frame meets a session that is disconnected; the session is resumed again and takes the next frame as the first of the stream. |
| `RemoteOutput.RunningIsConnected`, with the constants of RemoteOutputReattached.cfg | A session is given up while its attach request is pending, and the answer shows it as running again. |
| `RemoteOutput.ExitIsShown`, with `MayExit = TRUE` and one connection | The exit overtakes the answer to the launch, is ignored, and the terminal is shown as running. |
| `RemoteOutput.AcksAreTaken`, with `MayClose = TRUE` and one connection | Closing the tab of a terminal that is writing sends an acknowledgement behind the detach; the host answers it by closing the whole peer session (host-control-gateway.ts:534). |
| `HostController.AnsweredOnce` | A session whose answer is under way is presented to the user again. |
| `RemoteTargets.SessionLossIsShown` | The RTC connection ends before its channels report it: the session closes them, the client is never told, and the target is shown as connected. |
| `RemoteTargets.AlwaysAnswered` | A connector that is closed while a connection negotiates rejects nothing: the call hangs; so does one whose connection is up and whose channels do not open. |
| `RemoteTargets.WaitingIsReal` | `connect()` throws outside of the try block: the target waits for an approval nobody was asked for. |

## 5. The proofs

All hold for every value of the constants that satisfies the named assumption of
the module, with no fairness. The assumptions say that bounds and leases are
natural numbers (a lease is not zero, and a session's is within its maximum),
that the faults are among those known, that exit codes are numbers, that at
least one candidate is announced and candidates are no other payloads, that only
the client may be a browser, and that the sets a type mixes do not overlap. Two
theorems of the manager assume `SqliteRepository = TRUE` besides, the repository
that is shipped; without it they are false (section 3). `DesktopLifecycle` has
that repository by its instance.

| Theorem | States | Invariant |
|---|---|---|
| `TerminalManagerProofs!TypeCorrect` | `Spec => []TypeOK` | `TypeInv` |
| `TerminalManagerProofs!NeverFalseExit` | `Spec => []NoFalseExit` | `ExitInv` |
| `TerminalManagerProofs!OutputStaysInOrder` | `Spec => []OutputKept` | `OutputInv` |
| `TerminalManagerProofs!EndsOnce` | `Spec => []EndedOnce` | `RowInv` |
| `TerminalManagerProofs!KeepsItsContract` | `Spec => Contract!Spec` (shipped repository) | `ContractInv` |
| `TerminalManagerProofs!RecordsAgree` | the three parts of `ShippedAgrees` (shipped repository) | `AgreeInv` |
| `DesktopLifecycleProofs!DesktopTyped`, `QuitsClean` | `Spec => []TypeOK`, `Spec => []QuitIsClean` | `DesktopInv` |
| `DesktopLifecycleProofs!RowsLast` | `Spec => RowsOutliveCrashes`, an invariant and an action property | `DesktopInv` |
| `HostControllerProofs!LogoutHolds` | `Spec => []LogoutStands` | `IInv` |
| `HostControllerProofs!TypeHolds`, `ShownHolds` | `Spec => []TypeOK`, `Spec => []ShownIsHeld` | `HeldInv` |
| `HostGatewayProofs!LaunchIsInside`, `AnswerIsOwn` | `[]LaunchesFit`, `[]AnswersFit` | `JobInv` |
| `HostGatewayProofs!WritesKeepOrder` | `[]WritesInOrder` | `OrderInv` |
| `BackendProofs!HostDecides`, `ServicesFit` | `[]DecisionIsTheHosts`, `[]SessionServices` | `IInv` |
| `BackendProofs!DecisionsStand`, `RevocationHolds` | the action properties `DecisionStands`, `RevocationIsFinal` | `IInv` |
| `DesktopLoginProofs!PortIsTheAttempts`, `CompletedConsumes` | `[]PortFollowsAttempt`, `[]CompletedIsConsumed` | `IInv` |
| `DesktopLoginProofs!DecisionsStand` | the action property `DecidedStands` | `IInv` |
| `PeerNegotiationProofs!SignalsKeepOrder`, `CandidatesKeepOrder` | `[]SignalsInOrder`, `[]CandidatesFollow` | `IInv` |
| `PeerNegotiationProofs!ClosedStaysQuiet` | the action property `ClosedIsQuiet` | `IInv` |
| `RemoteTargetsProofs!TargetsShown`, `TargetsLeaveNothing` | `[]ShownIsConnected`, `[]NothingLingers` | `TargetsInv` |

Each proof has the same three parts: the invariant holds at first, every action
keeps it (one lemma or step per action, one step per part that the action can
disturb), and it implies the property. What remains is why the property alone
is not inductive.

**TerminalManager, any repository.**

* `TypeCorrect`: the continuation of an update takes the head of the descriptor
  queue, so `UpdateHasTransition` (an update in progress has its transition in
  the queue) is added to `TypeOK`.
* `NeverFalseExit`: the row and the announcements are written from a descriptor
  that came through a queue, which was filled by a finalization that believed
  the exit to be known. `ExitInv` follows that chain: `ExitKnown` ties what the
  session believes to the process, `FinalizedAfterExit` the stages past the
  wait to that belief, and `RecordedAfterExit` everything that is on its way to
  the row or to a subscriber.
* `OutputStaysInOrder`: `PtyData` of a created terminal appends to the queue,
  which is the next chunk only because nothing is held back any more; `OutputOf`
  adds that the early output of a created terminal is empty, and says chunk by
  chunk (`Consecutive`) what the property says of a concatenation.
* `EndsOnce`: a settled update announces the head of the queue, so the count of
  announced exits depends on the exits still queued. `QueuedOnce`: the exit is
  the last transition, its finalization awaits its update, and from the first
  finalization on no resize is accepted, so nothing comes behind it.
  `ExitedOnce`: after an announced exit the queue is empty and the finalization
  settled, and one that settled for another reason than a termination error is
  not started again. `ClosedRow` follows the row that a rejected `save` left.

**TerminalManager over the shipped repository.** Its calls finish inside the
call, so nothing happens to a terminal between `create()` and its continuation
(`NotYet`), which is what both theorems rest on.

* `KeepsItsContract` maps what was last announced and what was published to the
  variables of `TerminalContract`. `CreateResumes` maps to *Appears* (or to a
  stutter when creation failed), `AppendSettles` to *Speaks* (a failed append to
  a stutter), an update that settles to *IsResized* or *Exits* (or a stutter),
  and every other step to a stutter. A step maps only in states that
  `Contracted` describes: the last announcement is the descriptor (`Announces`),
  the update in progress is the head of the queue (`InFlight`), queued sizes
  ascend and an exit ends them (`Queued`), a finalization past draining has
  published all output, and no more can come (`Drains`), and chunks are in order
  (`Speaks`). The abstract specification has no fairness, so this is the whole
  of the refinement.
* `RecordsAgree`: the row is written by the call whose continuation announces it.
  `RowFollows`: between the two it is the descriptor that will be announced, and
  at other times the current one; the last accepted resize is in the descriptor
  or queued. `CauseFollows`: the cause of the finalization is what came first,
  and an exited row has the code of that cause. `ClosesClean`: a finalization
  that resolved met no error, has nothing queued, and its row does not say
  running. Processes and published output come from `ExitInv` and `OutputInv`.

**DesktopLifecycle.** Every action is one of the manager, guarded, with what the
process makes of it, so the proof is the manager's, carried over. The module
takes `TerminalManagerProofs` as an instance over the same variables (`Shipped`);
the two instances of the manager have the same operators and steps (`SameData`,
`SameSteps`, `SameCloses`), and what is proved of one therefore holds of the
other. `DesktopInv` has four parts besides the types.

* `DurableInv` of the manager: `AgreeInv`, and that the row of a terminal that
  was created is there to stay (`RowKept`). A new process starts from the
  manager's initial states, so it holds again after every crash.
* `GateInv`: a local creation under way is in flight in the gate; from draining on
  the gate is closed, and from detaching on no local creation is under way.
* `ClosedInv`: while the quit closes, every local terminal that was created was
  asked to close; when the desktop signs out or quits each close was resolved.
  `RecordsAgree` says what that means: dead, recorded and its output stored.
  Here the manager must not take back what it resolved (`ResolvedIsClean`,
  `Moves`).
* `LeftInv`: a terminal of an earlier process is not used again by this one, and
  while a process runs no row that was left behind says running.

`RowsLast` needs of each step of the manager that an exit which is recorded
stays recorded as it is (`Lasts`, one lemma for each kind of step), and of the
recovery that it writes to rows that say running and to no other.

**HostController.** `LogoutHolds`: what keeps a promise that a logout overtook
from undoing it is the generation it compares or `stopRequested`; `LogoutInv`
adds that no login is the current one and that a pending start will find that it
was stopped. `ShownHolds`: a status and what stands behind it are set at
different steps. `AccountInv`: one login at a time has signed in without having
settled, and none when the account is shown. `FieldsInv`: the fields name the
latest activation, or something of it that is open, and a start that awaits its
heartbeat for the user still has its connector and timer. `ServesInv`: who is
online has a runtime and a user, and no start pending; who was stopped has
closed what the last activation opened.

**HostGateway.** `LaunchesFit` and `AnswersFit` look at the end of a chain of
awaits. `JobInv` says for every step of a handler which requests come there
(`Fits`) and that the path it carries to a launch is one that was compared
with the roots, however the links move (`JobFits`). That the process starts in
the folder of that path holds as long as the folder stands there: the theorem
says so, and section 4 shows the run in which it does not. `OrderInv` follows the
requests of a session: they stand in the channel in the order they were issued
(`ChannelInOrder`), and what was written was issued before all that is still on
its way (`WrittenBefore`).

**Backend.** A call writes by what it read in an earlier step, with arguments of
its caller's choice. `ReadInv` says what it may still rely on once it was let in:
the session it read is approved and stays so, the caller is one of its devices
and the recipient the other, and the time a call holds is not after the clock and
before the end of the session. None of it is given by the arguments. `RevokedInv`
says why a disabled generation does not come back: its device has a later one, or
is disabled. The action properties are then a case of each action.

**DesktopLogin.** An attempt that gave up leaves a request, a listener and a login
behind. `WireInv` says what an answer is worth when it is read, `ListenerInv`
whose listener may still be bound, `LoginInv` what a login and an error say of
their attempt, `OrderInv` that attempts follow one another, so that the next one
knows why the last was refused. The times a function may read are between the
sending of a request and the step that commits, so a device is stored by a
request that was sent while its code was alive; that the code is alive at the
commit is not true, and not claimed.

**PeerNegotiation**, for any number of candidates. `StoreInv` follows what an
end says through its chain of publications, of which at most one is unanswered,
to the store; `TakenInv` from there to the other end; `PeerAt(e, p, k)` is what a
connection and its adapter hold after k payloads of the other end: the
candidates among them, applied or waiting, in order. A batch is a loop of the
code, a recursive function of the model; that it takes `PeerAt` from k to the end
of the batch is proved by a least counterexample (the natural numbers are well
founded), a first-order argument that needs no induction theorem with an operator
parameter.

**RemoteTargets**, for any number of attempts and terminals. A terminal is
disconnected when the client of its connection reports the loss to the router,
which needs that the router had subscribed to that client, and that no attempt
but a connected one is bound to a terminal. `RouterHolds` says so of the
terminals (`ProxiesHold`) and of the requests that will connect one
(`RequestsHold`); it is a predicate of terminals, requests, subscriptions and
attempts, so that `resume()` between two awaits (`Resumption`), a closing client
(`GoneHolds`) and the publication of a target in the middle of a step that also
moves an attempt (`PublishHolds`) are lemmas of their own. An attach is the only
one of its terminal since `Waiting` skips what is being attached, and
`HasRoom` counts a launch as the terminal it becomes. `Sound` says of each stage
of an attempt what it has created, among it that the deadline of a connection
that came up is not armed; a client that fails or is closed then leaves what
`NothingLingers` allows.

### Only model-checked

* *Liveness* (`EveryCloseEnds`, `QuitEnds`, `CallsSettle`,
  `ResumedOutputArrives`, `ActivationEnds`, `CallsEnd`, `NegotiationEnds`,
  `LoginEnds`): fairness and ENABLED are beyond the prover.
* *`ShippedAgrees` and `KeepsContract`* as `MCTerminalManager` states them, over
  two instances chosen by a variable; for the shipped repository `RecordsAgree`
  and `KeepsItsContract` prove what they say.
* *The modules without proofs*: `TasksAreSerial` and `ReadsTheStream` of
  `Scrollback`, `StreamFollows` and `CursorsAreTaken` of `RemoteOutput`, and the
  four properties of `TerminalView`. `ReadsTheStream` and `StreamFollows` compare
  what folds over files and frames compute, and the properties of `TerminalView`
  speak of the moment when a pipe has been emptied, so that an invariant must
  fold over the messages in it: each needs an induction over data. The other two
  were left for their size.


## 6. What is not modelled

* *Left out of modelled components*: windows, the single-instance lock and the
  cleanup of a failed start (lifecycle); `remove()` of the store, which nothing
  calls, and malformed files, which it never writes; the reported `paused` flag
  of a pump, and a read of it that fails behind an acknowledgement, which closes
  the session as a lost connection does; write, resize, the replay cache and
  `closeAll()` of the router; the cryptography of signals, handshakes and logins;
  the choice of STUN and TURN servers (ice.ts); writes that a client may send to
  Firestore by itself, which the security rules judge and no client of the
  repository sends; more than one account; the fields of the agent form.
* *Code without a caller*: `drainSignals`, `resetNegotiation`, the host peer of
  `webrtc/channel.ts`, `auth-window.ts`, the page `DesktopAuthBridgeGoogle.tsx`,
  the gateway's `terminal.list`, `terminal.create` and `ping`.
* *No state that outlives a call*: workspace service, agent runtimes and the
  setup runner; protocol schemas, encodings and signing payloads.
* *The web console*: its connector, its terminal pane and its channel client are
  ports of the desktop ones and would be modelled by the same definitions. What
  differs was read and not modelled: leaving a page while a session waits for its
  approval leaves a peer session in a closed connector (compare
  RemoteConsoleApp.tsx:97-100 with `CloseConnector` of `PeerNegotiation`); a
  second logout after a failed `signOut` does not sign out (controller.ts:212-217).
* *Adapters and user interface*: the Firebase client, settings, sidebar and
  sign-in dialogs, window wiring, the site. Their events are the inputs of the
  models.
* *Abstractions*: contents of output, names, paths and colours; wall-clock
  time (a timer may fire at any point while it is armed; the backend and the
  login, where leases are compared, have a clock); cryptography.

## 7. Plan

Done: a module for every component that has a protocol of its own, with a run
each; the theorems of section 5, which state every safety property of the runs of
`TerminalManager` (over the repository it holds for), `DesktopLifecycle`,
`HostController`, `PeerNegotiation`, `RemoteTargets`, `Backend`, `DesktopLogin`
and `HostGateway`.

Next:

1. `Scrollback`: `TasksAreSerial`, from the chain of promises (the task that runs
   is the oldest that has not settled) and from a cached sequence that is above
   all of the file, provided that the cursor file can be written (section 4).
2. `RemoteOutput`: `CursorsAreTaken`, by what an acknowledgement on its way owes
   to the pump it was made for.

Modules that would follow: a composition of `Backend` and `PeerNegotiation`
through the session documents, with `Backend` as the store the signals go
through; and `closeAll()` of the router in a composition of `RemoteTargets` with
the quit.
