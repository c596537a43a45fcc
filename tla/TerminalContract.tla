-------------------------- MODULE TerminalContract --------------------------
(***************************************************************************)
(* What a terminal promises to whoever subscribes to the TerminalManager   *)
(* (apps/desktop/src/main/terminal/manager.ts, onChanged and onOutput; the *)
(* renderer, the IPC layer and the remote gateway all rely on it): it      *)
(* appears running, is resized, produces chunks in order, and exits once,  *)
(* after its last chunk.                                                   *)
(***************************************************************************)
EXTENDS Integers, Sequences

CONSTANTS Terminals,
          NativeCodes,      \* exit codes a PTY may report
          MaxOutput,        \* bound: data events of one PTY
          MaxResize         \* bound: resizes of one terminal

VARIABLES shown,            \* the descriptor last announced
          log               \* the chunks published, numbered by the PTY

Unknown == [state |-> "none", size |-> 0, exitCode |-> -2]

Init ==
    /\ shown = [t \in Terminals |-> Unknown]
    /\ log = [t \in Terminals |-> <<>>]

Appears(t) ==
    /\ shown[t] = Unknown
    /\ shown' = [shown EXCEPT ![t].state = "running"]
    /\ UNCHANGED log

Speaks(t) ==
    /\ shown[t].state = "running"
    /\ \E chunk \in 1..MaxOutput :
          /\ \A i \in DOMAIN log[t] : log[t][i] < chunk
          /\ log' = [log EXCEPT ![t] = Append(@, chunk)]
    /\ UNCHANGED shown

IsResized(t) ==
    /\ shown[t].state = "running"
    /\ \E size \in (shown[t].size + 1)..MaxResize :
          shown' = [shown EXCEPT ![t].size = size]
    /\ UNCHANGED log

Exits(t) ==
    /\ shown[t].state = "running"
    /\ \E code \in NativeCodes \cup {0} :
          shown' = [shown EXCEPT ![t].state = "exited", ![t].exitCode = code]
    /\ UNCHANGED log

Next ==
    \E t \in Terminals :
        Appears(t) \/ Speaks(t) \/ IsResized(t) \/ Exits(t)

Spec == Init /\ [][Next]_<<shown, log>>
=============================================================================
