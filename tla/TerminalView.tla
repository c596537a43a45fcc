---------------------------- MODULE TerminalView ----------------------------
(***************************************************************************)
(* The desktop window: what it shows of the terminals that the main        *)
(* process keeps.  useTerminals holds the list, TerminalPane the screen of *)
(* the active terminal, App the setup of an agent that is under way;       *)
(* terminal-ipc forwards the calls of the window, publishes output and     *)
(* changes, and admits one setup of a kind at a time.                      *)
(*                                                                         *)
(* Answers and publications reach the window over one ordered pipe, but an *)
(* answer is read in the main process before it is sent: what is published *)
(* in between arrives first.  A window that is closed and opened again, or *)
(* reloaded, starts anew and loses what was on its way.  Terminals stand   *)
(* for TerminalManager behind its router, their chunks for the Scrollback. *)
(***************************************************************************)
EXTENDS Naturals, FiniteSets, Sequences, SequencesExt, FiniteSetsExt

CONSTANTS Terminals,   \* ids of terminals
          PageSize,    \* chunks in a full page of a replay
          MaxOutput,   \* bound: chunks of all terminals
          MaxActs,     \* bound: what the user does, opening the window again included
          MaxFaults    \* bound: calls that fail, and chunks the store gives up

ASSUME ViewAssumption ==
    /\ PageSize \in Nat \ {0}
    /\ MaxOutput \in Nat /\ MaxActs \in Nat /\ MaxFaults \in Nat

None == "none"
Pending == "pending"
ASSUME NoneAssumption == {None, Pending} \cap Terminals = {}

VARIABLES
    status,    \* [Terminals -> "none", "running" or "exited"]: the descriptor
    stored,    \* [Terminals -> Nat]: the sequence of the last chunk in the store
    sent,      \* [Terminals -> Nat]: the sequence of the last chunk published
    base,      \* [Terminals -> Nat]: the chunks up to it are gone from the store
    closing,   \* the terminals that the main process has begun to close
    rejected,  \* the terminals whose end went wrong: each close of them is refused
    setup,     \* the setup that is admitted: its terminal, Pending before there is one, or None
    creating,  \* TRUE while the terminal of a setup is being created
    pipe,      \* Seq(message): main process to window
    load,      \* the first list of the window: how far it came, and the states read for it
    early,     \* [Terminals -> state or "none"]: what changed before it came
    terms,     \* Seq([id, state]): the list the window shows
    dismissed, \* the terminals it closed
    asked,     \* [Terminals -> "no", "close" or "setup"]: whether it awaits a close,
               \* "setup" when it was the terminal of the setup shown at that time
    active,    \* the terminal it shows, or None
    pane,      \* the pane of that terminal
    busy,      \* TRUE while the window shows a setup as under way
    setupTerm, \* the terminal of that setup, or None
    spent      \* how much of each bound is used

setups == <<setup, creating>>
main == <<status, stored, sent, base, closing, rejected, setups>>
list == <<load, early, terms, dismissed, asked, active>>
ui == <<busy, setupTerm>>
vars == <<main, pipe, list, pane, ui, spent>>

-----------------------------------------------------------------------------
\* The messages to the window.
Changed(t, s) == [type |-> "changed", id |-> t, state |-> s]
Chunk(t, n) == [type |-> "chunk", id |-> t, sequence |-> n]
Listed(s) == [type |-> "list", states |-> s]
Created(t, forSetup) == [type |-> "created", id |-> t, setup |-> forSetup]
Closed(t, ok) == [type |-> "closed", id |-> t, ok |-> ok]
SetupFailed == [type |-> "setup failed"]
Page(chunks, ok) == [type |-> "page", chunks |-> chunks, ok |-> ok]

Publish(messages) == pipe' = pipe \o messages
Spend(kind, bound) == spent[kind] < bound /\ spent' = [spent EXCEPT ![kind] = @ + 1]
Act == Spend("acts", MaxActs)

Fresh == [t \in Terminals |-> "none"]

\* A pane subscribes to the output and asks for the first page.  `from' is only for the
\* properties: the chunks after it are published to this pane.
NewPane(t, from) ==
    [id |-> t, replay |-> "asked", after |-> 0, page |-> {}, got |-> {}, pending |-> {}, last |-> 0,
     degraded |-> FALSE, based |-> FALSE, screen |-> <<>>, from |-> from]
NoPane == [NewPane(None, 0) EXCEPT !.replay = "done"]

Asking == [stage |-> "asked", states |-> Fresh]
NotAsked == [t \in Terminals |-> "no"]

\* A window opens: on the first, terminals of an earlier run are exited, on a later one
\* some may be running.
Init ==
    /\ status \in [Terminals -> {"none", "running", "exited"}]
    /\ stored = [t \in Terminals |-> 0] /\ sent = stored /\ base = stored
    /\ closing = {} /\ rejected = {} /\ setup = None /\ creating = FALSE /\ pipe = <<>>
    /\ load = Asking /\ early = Fresh /\ terms = <<>> /\ dismissed = {} /\ asked = NotAsked
    /\ active = None /\ pane = NoPane /\ busy = FALSE /\ setupTerm = None
    /\ spent = [k \in {"output", "acts", "faults"} |-> 0]

-----------------------------------------------------------------------------
\* The list of the window.
Ids(l) == {l[i].id : i \in DOMAIN l}
Row(l, t) == CHOOSE i \in DOMAIN l : l[i].id = t
ReplaceDescriptor(l, t, s) ==
    IF t \in Ids(l) THEN [l EXCEPT ![Row(l, t)].state = s] ELSE Append(l, [id |-> t, state |-> s])

FirstRunning(l) ==
    LET running == SelectSeq(l, LAMBDA row : row.state = "running")
    IN IF running = <<>> THEN None ELSE Head(running).id

\* The selection that the list is left with: a selected terminal that is listed stays.
Selection(l, current) ==
    IF current \in Ids(l) THEN current
    ELSE IF FirstRunning(l) # None \/ l = <<>> THEN FirstRunning(l)
    ELSE Head(l).id

\* What is on its way to a window that shows terminal t from now on: the pane that is
\* left ignores the answer to its replay.
Delivered(p, t) == sent[t] - Len(SelectSeq(p, LAMBDA x : x.type = "chunk" /\ x.id = t))
WithoutPages(p) == SelectSeq(p, LAMBDA x : x.type # "page")

\* The window renders list l with t selected, and messages p still to come: another
\* terminal gets a new pane, and a setup whose terminal exited is over.
Show(l, t, p) ==
    /\ terms' = l
    /\ active' = t
    /\ IF t = pane.id THEN pane' = pane /\ pipe' = p
       ELSE /\ pane' = IF t = None THEN NoPane ELSE NewPane(t, Delivered(p, t))
            /\ pipe' = WithoutPages(p)
SetupOver(l, t) == t # None /\ [id |-> t, state |-> "exited"] \in Range(l)
SetupShown(l, isBusy, t) ==
    /\ busy' = (isBusy /\ ~SetupOver(l, t))
    /\ setupTerm' = IF SetupOver(l, t) THEN None ELSE t

-----------------------------------------------------------------------------
\* The pane writes the chunks that continue what it has written.  After a replay that
\* failed it starts, once, at the first chunk it was sent.
Flushed(p) ==
    LET jump == p.degraded /\ ~p.based /\ p.pending # {} /\ p.last + 1 \notin p.pending
        start == IF jump THEN Min(p.pending) ELSE p.last + 1
        run == {n \in p.pending : \A k \in start..n : k \in p.pending}
        end == IF run = {} THEN p.last ELSE Max(run)
    IN IF p.replay # "done" THEN p
       ELSE [p EXCEPT !.based = @ \/ jump, !.pending = @ \ run, !.last = end,
                      !.screen = @ \o SetToSortSeq(run, <)]

\* A mutant: what the replay wrote is not counted as written.
FinishedUncounted(p, failed) ==
    Flushed([p EXCEPT !.replay = "done", !.degraded = failed, !.screen = SetToSortSeq(p.got, <), !.got = {}])
\* The replay is written in order, and what was published meanwhile and is part of it dropped.
Finished(p, failed) ==
    LET last == IF p.got = {} THEN 0 ELSE Max(p.got)
    IN Flushed([p EXCEPT !.replay = "done", !.degraded = failed, !.based = FALSE,
                         !.screen = SetToSortSeq(p.got, <), !.got = {}, !.last = last,
                         !.pending = {n \in @ : n > last}])

\* A mutant: the pane subscribes to the output when its replay is over.
TakeChunkLate(p, t, n) ==
    IF t # p.id \/ n <= p.last \/ p.replay # "done" THEN p ELSE Flushed([p EXCEPT !.pending = @ \cup {n}])
TakeChunk(p, t, n) ==
    IF t # p.id \/ n <= p.last \/ n \in p.pending THEN p
    ELSE Flushed([p EXCEPT !.pending = @ \cup {n}])

TakePage(p, chunks) ==
    LET all == [p EXCEPT !.got = @ \cup chunks]
    IN IF Cardinality(chunks) < PageSize THEN Finished(all, FALSE)
       ELSE IF Max(chunks) <= p.after THEN Finished(all, FALSE)
       ELSE [all EXCEPT !.replay = "asked", !.after = Max(chunks)]

-----------------------------------------------------------------------------
\* The main process.
Store(t) ==
    /\ status[t] = "running" /\ t \notin rejected /\ stored[t] = sent[t]
    /\ Spend("output", MaxOutput)
    /\ stored' = [stored EXCEPT ![t] = @ + 1]
    /\ UNCHANGED <<status, sent, base, closing, rejected, setups, pipe, list, pane, ui>>

PublishOutput(t) ==
    /\ sent[t] < stored[t]
    /\ sent' = [sent EXCEPT ![t] = @ + 1]
    /\ Publish(<<Chunk(t, sent'[t])>>)
    /\ UNCHANGED <<status, stored, base, closing, rejected, setups, list, pane, ui, spent>>

\* The store keeps what fits, and at least the last chunk.
Trim(t) ==
    /\ base[t] + 1 < stored[t]
    /\ Spend("faults", MaxFaults)
    /\ base' = [base EXCEPT ![t] = @ + 1]
    /\ UNCHANGED <<status, stored, sent, closing, rejected, setups, pipe, list, pane, ui>>

\* A mutant: only a terminal that ends by itself releases its setup.
ReleasedByExit(t) == IF setup = t /\ t \notin closing THEN None ELSE setup
Released(t) == IF setup = t THEN None ELSE setup

\* Who closed terminal t is answered.
CloseAnswer(t, ok) == IF asked[t] = "no" THEN <<>> ELSE <<Closed(t, ok)>>

\* The process of a terminal has ended, by itself or because it was closed, and what it
\* wrote is published.
Ended(t) ==
    /\ status[t] = "running" /\ t \notin rejected /\ stored[t] = sent[t]
    /\ closing' = closing \ {t}
    /\ UNCHANGED <<stored, sent, base, creating, list, pane, ui>>

\* The end is stored and announced: the setup of the terminal may be started again.
Announced(t) ==
    /\ status' = [status EXCEPT ![t] = "exited"]
    /\ setup' = Released(t)

Exit(t) ==
    /\ Ended(t) /\ Announced(t)
    /\ Publish(<<Changed(t, "exited")>> \o CloseAnswer(t, TRUE))
    /\ UNCHANGED <<rejected, spent>>

\* A kill or a chunk had failed: the end is announced, and who closed is refused, from
\* then on too.
ExitFaulty(t) ==
    /\ Ended(t) /\ Announced(t)
    /\ Spend("faults", MaxFaults)
    /\ rejected' = rejected \cup {t}
    /\ Publish(<<Changed(t, "exited")>> \o CloseAnswer(t, FALSE))

\* The row cannot be stored: nothing is announced, and the setup stays admitted.
ExitUnstored(t) ==
    /\ Ended(t)
    /\ Spend("faults", MaxFaults)
    /\ rejected' = rejected \cup {t}
    /\ Publish(CloseAnswer(t, FALSE))
    /\ UNCHANGED <<status, setup>>

\* The process survives the signals.  A close that no window awaits fails unseen.
CloseFails(t) ==
    /\ t \in closing /\ asked[t] # "no"
    /\ Spend("faults", MaxFaults)
    /\ Publish(CloseAnswer(t, FALSE))
    /\ UNCHANGED <<main, list, pane, ui>>

ListRead ==
    /\ load.stage = "asked"
    /\ load' = [stage |-> "read", states |-> status]
    /\ UNCHANGED <<main, pipe, early, terms, dismissed, asked, active, pane, ui, spent>>

ListSent ==
    /\ load.stage = "read"
    /\ load' = [stage |-> "sent", states |-> Fresh]
    /\ Publish(<<Listed(load.states)>>)
    /\ UNCHANGED <<main, early, terms, dismissed, asked, active, pane, ui, spent>>

\* The window does not expect that: it goes on as if the list were still to come.
ListFails ==
    /\ load.stage = "asked"
    /\ Spend("faults", MaxFaults)
    /\ load' = [stage |-> "failed", states |-> Fresh]
    /\ UNCHANGED <<main, pipe, early, terms, dismissed, asked, active, pane, ui>>

\* The chunks that a page holds when it is read.
PageOf(t, after) ==
    LET kept == {n \in (base[t] + 1)..stored[t] : n > after}
    IN {n \in kept : Cardinality({k \in kept : k <= n}) <= PageSize}

PageRead ==
    /\ pane.replay = "asked"
    /\ pane' = [pane EXCEPT !.replay = "read", !.page = PageOf(pane.id, pane.after)]
    /\ UNCHANGED <<main, pipe, list, ui, spent>>

PageSent ==
    /\ pane.replay = "read"
    /\ pane' = [pane EXCEPT !.replay = "sent", !.page = {}]
    /\ Publish(<<Page(pane.page, TRUE)>>)
    /\ UNCHANGED <<main, list, ui, spent>>

PageFails ==
    /\ pane.replay = "asked"
    /\ Spend("faults", MaxFaults)
    /\ pane' = [pane EXCEPT !.replay = "sent"]
    /\ Publish(<<Page({}, FALSE)>>)
    /\ UNCHANGED <<main, list, ui>>

-----------------------------------------------------------------------------
\* What the user does.  The main process publishes the new terminal, then it answers.
Create(t) ==
    /\ Act
    /\ status[t] = "none"
    /\ status' = [status EXCEPT ![t] = "running"]
    /\ Publish(<<Changed(t, "running"), Created(t, FALSE)>>)
    /\ UNCHANGED <<stored, sent, base, closing, rejected, setups, list, pane, ui>>

\* A setup is admitted when no other one of its kind is; a refused one leaves nothing but
\* its message.
Admitted == setup = None
SetUp ==
    /\ Act
    /\ ~busy /\ Admitted /\ \E t \in Terminals : status[t] = "none"
    /\ setup' = Pending /\ creating' = TRUE /\ busy' = TRUE
    /\ UNCHANGED <<status, stored, sent, base, closing, rejected, pipe, list, pane, setupTerm>>

\* Only the window that asked shows the setup as under way, and gets the answer.
SetupAnswer(m) == IF busy THEN <<m>> ELSE <<>>

SetUpCreated(t) ==
    /\ creating /\ status[t] = "none"
    /\ status' = [status EXCEPT ![t] = "running"]
    /\ setup' = t /\ creating' = FALSE
    /\ Publish(<<Changed(t, "running")>> \o SetupAnswer(Created(t, TRUE)))
    /\ UNCHANGED <<stored, sent, base, closing, rejected, list, pane, ui, spent>>

\* The spawn or the save fails, and the manager has rolled the terminal back.
SetUpFails ==
    /\ creating
    /\ Spend("faults", MaxFaults)
    /\ setup' = None /\ creating' = FALSE
    /\ Publish(SetupAnswer(SetupFailed))
    /\ UNCHANGED <<status, stored, sent, base, closing, rejected, list, pane, ui>>

SelectTerminal(t) ==
    /\ Act
    /\ t \in Ids(terms) /\ t # active
    /\ Show(terms, t, pipe)
    /\ UNCHANGED <<main, load, early, dismissed, asked, ui>>

\* The main process kills the process, or answers at once when the terminal has ended.
CloseTerminal(t) ==
    /\ Act
    /\ t \in Ids(terms) /\ asked[t] = "no"
    /\ asked' = [asked EXCEPT ![t] = IF setupTerm = t THEN "setup" ELSE "close"]
    /\ IF t \in rejected \/ status[t] = "exited"
       THEN closing' = closing /\ Publish(<<Closed(t, t \notin rejected)>>)
       ELSE closing' = closing \cup {t} /\ pipe' = pipe
    /\ UNCHANGED <<status, stored, sent, base, rejected, setups,
                   load, early, terms, dismissed, active, pane, ui>>

\* The pane that changes its size has the descriptor published, until a close is tried.
Resize ==
    /\ Act
    /\ pane.id # None /\ status[pane.id] = "running" /\ pane.id \notin closing \cup rejected
    /\ Publish(<<Changed(pane.id, "running")>>)
    /\ UNCHANGED <<main, list, pane, ui>>

OpenWindow ==
    /\ Act
    /\ pipe' = <<>>
    /\ load' = Asking /\ early' = Fresh /\ terms' = <<>> /\ dismissed' = {} /\ asked' = NotAsked
    /\ active' = None /\ pane' = NoPane /\ busy' = FALSE /\ setupTerm' = None
    /\ UNCHANGED main

-----------------------------------------------------------------------------
\* The window takes the next message.
Arrives(kind) == pipe # <<>> /\ Head(pipe).type = kind

Loading == load.stage # "done"
ChangedReceived ==
    /\ Arrives("changed")
    /\ LET m == Head(pipe)
           l == IF m.id \in dismissed THEN terms ELSE ReplaceDescriptor(terms, m.id, m.state)
       IN /\ early' = IF Loading /\ m.id \notin dismissed THEN [early EXCEPT ![m.id] = m.state] ELSE early
          /\ Show(l, Selection(l, active), Tail(pipe))
          /\ SetupShown(l, busy, setupTerm)
    /\ UNCHANGED <<main, load, dismissed, asked, spent>>

\* A mutant: the answer replaces the list, whatever came before it.
LoadedAsRead(states) ==
    LET shown == {t \in Terminals \ dismissed : states[t] = "running"}
    IN {[i \in DOMAIN order |-> [id |-> order[i], state |-> states[order[i]]]] : order \in SetToSeqs(shown)}
\* The first list, in the order of the rows: what changed while it was read is newer, what
\* exited before is left out.
Loaded(states) ==
    LET state(t) == IF early[t] # "none" THEN early[t] ELSE states[t]
        shown == {t \in Terminals \ dismissed :
                    state(t) = "running" \/ (state(t) = "exited" /\ early[t] # "none")}
    IN {[i \in DOMAIN order |-> [id |-> order[i], state |-> state(order[i])]] : order \in SetToSeqs(shown)}

ListReceived ==
    /\ Arrives("list")
    /\ \E l \in Loaded(Head(pipe).states) :
          /\ Show(l, Selection(l, active), Tail(pipe))
          /\ SetupShown(l, busy, setupTerm)
    /\ load' = [stage |-> "done", states |-> Fresh] /\ early' = Fresh
    /\ UNCHANGED <<main, dismissed, asked, spent>>

CreatedReceived ==
    /\ Arrives("created")
    /\ LET m == Head(pipe)
           l == ReplaceDescriptor(terms, m.id, "running")
       IN /\ Show(l, m.id, Tail(pipe))
          /\ SetupShown(l, busy, IF m.setup THEN m.id ELSE setupTerm)
    /\ UNCHANGED <<main, load, early, dismissed, asked, spent>>

SetupFailedReceived ==
    /\ Arrives("setup failed")
    /\ busy' = FALSE
    /\ pipe' = Tail(pipe)
    /\ UNCHANGED <<main, list, pane, setupTerm, spent>>

\* A terminal that was closed leaves the list, and later news of it are ignored.
ClosedReceived ==
    /\ Arrives("closed")
    /\ LET m == Head(pipe)
           l == IF m.ok THEN SelectSeq(terms, LAMBDA row : row.id # m.id) ELSE terms
       IN /\ dismissed' = IF m.ok THEN dismissed \cup {m.id} ELSE dismissed
          /\ asked' = [asked EXCEPT ![m.id] = "no"]
          /\ Show(l, Selection(l, active), Tail(pipe))
          /\ IF m.ok /\ asked[m.id] = "setup" THEN busy' = FALSE /\ setupTerm' = None
             ELSE SetupShown(l, busy, setupTerm)
    /\ UNCHANGED <<main, load, early, spent>>

ChunkReceived ==
    /\ Arrives("chunk")
    /\ pane' = TakeChunk(pane, Head(pipe).id, Head(pipe).sequence)
    /\ pipe' = Tail(pipe)
    /\ UNCHANGED <<main, list, ui, spent>>

PageReceived ==
    /\ Arrives("page")
    /\ pane' = IF Head(pipe).ok THEN TakePage(pane, Head(pipe).chunks) ELSE Finished(pane, TRUE)
    /\ pipe' = Tail(pipe)
    /\ UNCHANGED <<main, list, ui, spent>>

-----------------------------------------------------------------------------
Next ==
    \/ \E t \in Terminals :
        \/ Store(t) \/ PublishOutput(t) \/ Trim(t)
        \/ Exit(t) \/ ExitFaulty(t) \/ ExitUnstored(t) \/ CloseFails(t)
        \/ Create(t) \/ SetUpCreated(t) \/ SelectTerminal(t) \/ CloseTerminal(t)
    \/ SetUp \/ SetUpFails \/ SetupFailedReceived
    \/ ListRead \/ ListSent \/ ListFails \/ PageRead \/ PageSent \/ PageFails
    \/ Resize \/ OpenWindow
    \/ ChangedReceived \/ ListReceived \/ CreatedReceived \/ ClosedReceived
    \/ ChunkReceived \/ PageReceived

Spec == Init /\ [][Next]_vars

-----------------------------------------------------------------------------
\* Every variable has the values its comment gives it.
TypeOK ==
    /\ status \in [Terminals -> {"none", "running", "exited"}]
    /\ stored \in [Terminals -> 0..MaxOutput] /\ sent \in [Terminals -> 0..MaxOutput]
    /\ closing \subseteq Terminals /\ rejected \subseteq Terminals
    /\ setup \in Terminals \cup {None, Pending} /\ creating \in BOOLEAN
    /\ dismissed \subseteq Terminals /\ active \in Terminals \cup {None} /\ pane.id = active
    /\ Ids(terms) \subseteq Terminals /\ Cardinality(Ids(terms)) = Len(terms)

\* The screen shows the chunks in order, none twice, and leaves out only what the store had
\* given up or what a failed replay did not bring (TerminalPane.tsx flushOutput, finishReplay).
ScreenFollows ==
    LET s == pane.screen
    IN /\ \A i, j \in DOMAIN s : i < j => s[i] < s[j]
       /\ \A n \in 1..pane.last : n \in Range(s) \/ n <= base[pane.id] \/ pane.degraded

\* When nothing is on its way, the screen has every chunk the store keeps, and after a failed
\* replay every chunk published to the pane: it never waits for one that cannot come.
Quiet == pipe = <<>> /\ load.stage \in {"done", "failed"}
ScreenCatchesUp ==
    (Quiet /\ active # None /\ pane.replay = "done") =>
        \A n \in (base[active] + 1)..sent[active] :
            n \in Range(pane.screen) \/ (pane.degraded /\ n <= pane.from)

\* A terminal that was closed never comes back to the list; and when nothing is on its way,
\* the list has every running terminal, none that it should not have, and their states, although
\* the first list is older than changes that came before it (useTerminals.ts).  When the first
\* list fails, what was announced is listed all the same.
ListAgrees ==
    /\ Ids(terms) \cap dismissed = {}
    /\ Quiet =>
        /\ load.stage = "done" => \A t \in Terminals : status[t] = "running" => t \in Ids(terms)
        /\ \A i \in DOMAIN terms : terms[i].state = status[terms[i].id]

\* The main process refuses a setup only while one is created or its terminal is listed as
\* running, whatever way an earlier one failed or ended; and when nothing is on its way, the
\* window shows as under way the setup that the main process holds, and no other one
\* (terminal-ipc.ts activeSetups, App.tsx agentSetupKind).
SetupIsReleased ==
    /\ setup = Pending => creating
    /\ setup \in Terminals => status[setup] = "running"
    /\ (Quiet /\ busy /\ ~creating) => setup # None /\ setup = setupTerm

\* A setup is refused only while the process of another one lives: an end whose row cannot be
\* stored breaks it (manager.ts runFinalization).
EndReleasesSetup == setup \notin rejected

\* Every running terminal is listed when nothing is on its way: a first list that fails
\* breaks it (useTerminals.ts).
AllAreListed == Quiet => \A t \in Terminals : status[t] = "running" => t \in Ids(terms)
=============================================================================
