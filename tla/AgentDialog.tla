---------------------------- MODULE AgentDialog ----------------------------
(***************************************************************************)
(* The dialog that starts an agent: App keeps the targets and the runtime  *)
(* catalog, NewAgentDialog the device, the directories and the form,       *)
(* RemoteWorkspaceDialog browses the folders of a remote device.           *)
(*                                                                         *)
(* Everything is asked over ipc and answered later, in any order, when the *)
(* dialog may show another device, another folder or nothing.  An answer   *)
(* whose asker still heeds it is `live': the generation of a change of     *)
(* device, the effect of the folder dialog, its being mounted.  The main   *)
(* process behind the answers is in RemoteTargets and HostGateway.         *)
(***************************************************************************)
EXTENDS Naturals, Sequences, SequencesExt

CONSTANTS Remotes,  \* the remote devices, none of them "local" or "none"
          MaxActs,  \* bound: what the user does
          MaxLosses \* bound: devices that are lost, or hidden dialogs

Local == "local"
None == "none"
Devices == Remotes \cup {Local}

VARIABLES
    linked,    \* the remote devices that are connected
    targets,   \* the remote devices that the window lists
    open,      \* TRUE while App has the dialog open
    hidden,    \* TRUE while a session that waits for approval hides it
    selected,  \* the device that was chosen
    changing,  \* TRUE while a change of device is under way
    directory, \* [Devices -> the device that gave its working directory, or None]
    catalog,   \* the device whose runtimes are offered
    starting,  \* TRUE while a launch is under way
    picker,    \* TRUE while the folder dialog is open
    page,      \* the device whose folder it shows, or None
    loading,   \* TRUE while it loads a folder
    asks,      \* Seq([kind, device, live]): what is asked and not answered
    launched,  \* the launches: [chosen, device]
    spent      \* [acts, losses]

form == <<selected, changing, directory, starting>>
folder == <<picker, page, loading>>
vars == <<linked, targets, open, hidden, form, catalog, folder, asks, launched, spent>>

-----------------------------------------------------------------------------
Ask(kind, d) == [kind |-> kind, device |-> d, live |-> TRUE]
Unheeded(l, kinds) == [i \in DOMAIN l |-> IF l[i].kind \in kinds THEN [l[i] EXCEPT !.live = FALSE] ELSE l[i]]

\* The answers that closing the folder dialog leaves unheeded, and those that taking it
\* away does: a folder that was opened by hand belongs to no effect.
Effects == {"roots", "page"}
Mounted == Effects \cup {"path"}

Act == spent.acts < MaxActs /\ spent' = [spent EXCEPT !.acts = @ + 1]
Loss == spent.losses < MaxLosses /\ spent' = [spent EXCEPT !.losses = @ + 1]

Directories == [d \in Devices |-> IF d = Local THEN Local ELSE None]
Visible == open /\ ~hidden
\* The target that is shown as selected: one that is no longer listed is not.
Target == IF selected \in targets THEN selected ELSE Local
Connected(d) == d = Local \/ d \in linked

Init ==
    /\ linked = {} /\ targets \in SUBSET Remotes /\ open = FALSE /\ hidden = FALSE
    /\ selected = Local /\ changing = FALSE /\ directory = Directories /\ starting = FALSE
    /\ catalog = Local /\ picker = FALSE /\ page = None /\ loading = FALSE
    /\ asks = <<>> /\ launched = {} /\ spent = [acts |-> 0, losses |-> 0]

\* The dialog that appears, or whose first directory changes, starts anew.
Reset ==
    /\ selected' = Local /\ changing' = FALSE /\ directory' = Directories
    /\ picker' = FALSE /\ page' = None /\ loading' = FALSE

-----------------------------------------------------------------------------
\* The window.
OpenDialog ==
    /\ Act
    /\ ~open /\ ~hidden
    /\ open' = TRUE
    /\ Reset
    /\ asks' = Unheeded(asks, Mounted) \o <<Ask("catalog", Local), Ask("targets", Local)>>
    /\ UNCHANGED <<linked, targets, hidden, catalog, starting, launched>>

CloseDialog ==
    /\ Act
    /\ Visible /\ ~starting /\ ~picker
    /\ open' = FALSE
    /\ UNCHANGED <<linked, targets, hidden, form, catalog, folder, asks, launched>>

\* A session asks for approval, and is approved or denied: the dialog comes back reset.
Hide ==
    /\ Loss
    /\ ~hidden /\ hidden' = TRUE
    /\ asks' = Unheeded(asks, Effects)
    /\ UNCHANGED <<linked, targets, open, form, catalog, folder, launched>>

Unhide ==
    /\ hidden /\ hidden' = FALSE
    /\ IF open THEN Reset /\ asks' = Unheeded(asks, Mounted)
       ELSE UNCHANGED <<selected, changing, directory, folder, asks>>
    /\ UNCHANGED <<linked, targets, open, catalog, starting, launched, spent>>

\* The terminal whose directory the dialog starts from is another one.
CwdChanges ==
    /\ Loss
    /\ Visible
    /\ Reset
    /\ asks' = Unheeded(asks, Mounted)
    /\ UNCHANGED <<linked, targets, open, hidden, catalog, starting, launched>>

\* The folder dialog of device d: its locations, and the folder that was chosen before.
Browsing(l, d) ==
    Unheeded(l, Effects) \o <<Ask("roots", d)>>
        \o (IF directory[d] = None THEN <<>> ELSE <<Ask("page", d)>>)

\* The window takes over the published targets ts, with l asked: a folder dialog whose
\* target is gone goes with it, an open one, whose target is another object, starts again.
Published(ts, l) ==
    LET gone == selected \notin ts
    IN /\ targets' = ts /\ picker' = picker
       /\ page' = IF gone \/ picker THEN None ELSE page
       /\ loading' = IF gone \/ picker THEN ~gone ELSE loading
       /\ asks' = IF gone THEN Unheeded(l, Mounted)
                  ELSE IF picker THEN Browsing(l, selected) ELSE l

DeviceLost(d) ==
    /\ Loss
    /\ d \in linked /\ linked' = linked \ {d}
    /\ Published(targets \cup linked, asks)
    /\ UNCHANGED <<open, hidden, form, catalog, launched>>

\* A choice of device leaves the answers to the earlier ones unheeded.
SelectTarget(d) ==
    /\ Act
    /\ Visible /\ ~starting /\ ~picker
    /\ d \in targets \cup {Local} /\ d # Target
    /\ selected' = d /\ changing' = TRUE
    /\ asks' = Unheeded(asks, {"connect", "runtimes"} \cup (IF d = Local THEN Mounted ELSE {}))
                 \o <<Ask(IF Connected(d) THEN "runtimes" ELSE "connect", d)>>
    /\ UNCHANGED <<linked, targets, open, hidden, directory, catalog, starting, folder, launched>>

OpenPicker ==
    /\ Act
    /\ Visible /\ ~starting /\ ~changing /\ ~picker
    /\ Target # Local /\ Connected(Target)
    /\ picker' = TRUE /\ page' = None /\ loading' = TRUE
    /\ asks' = Browsing(asks, Target)
    /\ UNCHANGED <<linked, targets, open, hidden, form, catalog, launched>>

Choosing == \E i \in DOMAIN asks : asks[i].kind = "validate"
OpenPath ==
    /\ Act
    /\ Visible /\ picker /\ ~loading /\ ~Choosing /\ Target # Local
    /\ loading' = TRUE
    /\ asks' = Append(asks, Ask("path", Target))
    /\ UNCHANGED <<linked, targets, open, hidden, form, catalog, picker, page, launched>>

ClosePicker ==
    /\ Act
    /\ Visible /\ picker
    /\ picker' = FALSE
    /\ asks' = Unheeded(asks, Effects)
    /\ UNCHANGED <<linked, targets, open, hidden, form, catalog, page, loading, launched>>

SelectCurrent ==
    /\ Act
    /\ Visible /\ picker /\ page # None /\ ~loading /\ ~Choosing /\ Target # Local
    /\ asks' = Append(asks, Ask("validate", Target))
    /\ UNCHANGED <<linked, targets, open, hidden, form, catalog, folder, launched>>

\* The agent is started on the target that is shown, in the directory of the chosen one.
CanStart ==
    /\ Connected(Target) /\ directory[selected] # None
    /\ ~starting /\ ~changing
Start ==
    /\ Act
    /\ Visible /\ ~picker /\ CanStart
    /\ starting' = TRUE
    /\ launched' = launched \cup {[chosen |-> selected, device |-> Target]}
    /\ asks' = Append(asks, Ask("launch", Target))
    /\ UNCHANGED <<linked, targets, open, hidden, selected, changing, directory, catalog, folder>>

-----------------------------------------------------------------------------
\* The answers, in any order.  Each names what it changes; `rest' are the asks behind it.
Answer(i) == asks[i]
Rest(i) == RemoveAt(asks, i)

CatalogAnswered(i) ==
    /\ Answer(i).kind = "catalog"
    /\ catalog' \in {Local, catalog}
    /\ asks' = Rest(i)
    /\ UNCHANGED <<linked, targets, form, folder, launched, open>>

\* The devices that are listed; when the question fails, this machine alone is.
TargetsAnswered(i) ==
    /\ Answer(i).kind = "targets"
    /\ \E found \in {ts \in SUBSET Remotes : linked \subseteq ts} \cup {{}} : Published(found, Rest(i))
    /\ UNCHANGED <<linked, catalog, form, launched, open>>

ConnectAnswered(i) ==
    /\ Answer(i).kind = "connect"
    /\ \/ /\ linked' = linked \cup {Answer(i).device}
          /\ Published(targets \cup linked',
                       IF Answer(i).live THEN Append(Rest(i), Ask("runtimes", Answer(i).device)) ELSE Rest(i))
          /\ changing' = changing
       \/ /\ changing' = (changing /\ ~Answer(i).live)
          /\ asks' = Rest(i)
          /\ UNCHANGED <<linked, targets, folder>>
    /\ UNCHANGED <<selected, directory, starting, catalog, launched, open>>

RuntimesAnswered(i) ==
    /\ Answer(i).kind = "runtimes"
    /\ catalog' \in (IF Answer(i).live THEN {Answer(i).device, catalog} ELSE {catalog})
    /\ changing' = (changing /\ ~Answer(i).live)
    /\ asks' = Rest(i)
    /\ UNCHANGED <<linked, targets, selected, directory, starting, folder, launched, open>>

\* The locations end the loading when no folder is opened with them.
RootsAnswered(i) ==
    /\ Answer(i).kind = "roots"
    /\ loading' = (loading /\ ~(Answer(i).live /\ directory[Answer(i).device] = None))
    /\ asks' = Rest(i)
    /\ UNCHANGED <<linked, targets, form, catalog, picker, page, launched, open>>

FolderAnswered(i) ==
    /\ Answer(i).kind \in {"page", "path"}
    /\ page' \in (IF Answer(i).live THEN {Answer(i).device, page} ELSE {page})
    /\ loading' = (loading /\ ~Answer(i).live)
    /\ asks' = Rest(i)
    /\ UNCHANGED <<linked, targets, form, catalog, picker, launched, open>>

\* The folder becomes the directory of the device it was chosen for.
ValidateAnswered(i) ==
    /\ Answer(i).kind = "validate"
    /\ \/ /\ directory' = [directory EXCEPT ![Answer(i).device] = Answer(i).device]
          /\ picker' = FALSE
          /\ asks' = Unheeded(Rest(i), Effects)
       \/ directory' = directory /\ picker' = picker /\ asks' = Rest(i)
    /\ UNCHANGED <<linked, targets, selected, changing, starting, catalog, page, loading, launched, open>>

LaunchAnswered(i) ==
    /\ Answer(i).kind = "launch"
    /\ starting' = FALSE
    /\ open' \in {FALSE, open}
    /\ asks' = Rest(i)
    /\ UNCHANGED <<linked, targets, selected, changing, directory, catalog, folder, launched>>

Answered ==
    /\ \E i \in DOMAIN asks :
        \/ CatalogAnswered(i) \/ TargetsAnswered(i) \/ ConnectAnswered(i) \/ RuntimesAnswered(i)
        \/ RootsAnswered(i) \/ FolderAnswered(i) \/ ValidateAnswered(i) \/ LaunchAnswered(i)
    /\ UNCHANGED <<hidden, spent>>

Next ==
    \/ OpenDialog \/ CloseDialog \/ Hide \/ Unhide \/ CwdChanges
    \/ \E d \in Remotes : DeviceLost(d)
    \/ \E d \in Devices : SelectTarget(d)
    \/ OpenPicker \/ OpenPath \/ ClosePicker \/ SelectCurrent \/ Start
    \/ Answered

Spec == Init /\ [][Next]_vars

-----------------------------------------------------------------------------
\* Every variable has the values its comment gives it.
TypeOK ==
    /\ linked \subseteq Remotes /\ targets \subseteq Remotes
    /\ selected \in Devices /\ catalog \in Devices /\ page \in Devices \cup {None}
    /\ directory \in [Devices -> Devices \cup {None}]

\* The directory of a device was validated by that device, whatever was chosen since
\* (NewAgentDialog.tsx onSelect, RemoteWorkspaceDialog.tsx selectCurrent).
DirectoriesBelong == \A d \in Devices : directory[d] \in {None, d}

\* An agent is launched on the device that the user chose
\* (2026-08-02-agent-target-workspace-design.md: no remote failure launches locally).
LaunchesWhereChosen == \A l \in launched : l.device = l.chosen

\* The folder dialog shows a folder of the device it is open for
\* (2026-08-02-agent-target-workspace-design.md: changing device cancels stale requests).
FolderFitsDevice == (Visible /\ picker /\ page # None /\ Target # Local) => page = Target
=============================================================================
