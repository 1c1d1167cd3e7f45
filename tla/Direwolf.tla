------------------------------ MODULE Direwolf ------------------------------
(***************************************************************************)
(* The Direwolf process that the program starts and stops (direwolf.rs),   *)
(* from the header's button, the console and, once, by itself when the     *)
(* window opens (window.rs, direwolf_dialog.rs).  A process goes through   *)
(* the system's hands before the window knows of its end: it exits, a      *)
(* thread of its own waits for it, and a task on the GTK thread is told.   *)
(* That a window that is closed leaves its Direwolf running, and that the  *)
(* system may give the number of a process that was waited for to another, *)
(* is not modelled.                                                        *)
(*                                                                         *)
(* A definition marked "Fault" is no part of the model: it is a slip the   *)
(* next definition could contain, which the properties must detect.        *)
(***************************************************************************)
EXTENDS Integers

CONSTANTS
  MaxStarts,  \* bound: processes started
  MaxSaves    \* bound: settings saved

ASSUME DirewolfAssumption == MaxStarts \in Nat

VARIABLES
  pid,          \* of the process that runs, 0 for None
  state,        \* "Stopped", "Running" or "FailedToStart"
  children,     \* process -> where it is, and the text its file had
  config_text,  \* the text saved last, by its number
  file          \* what is in direwolf.conf; 0 before it is first written

vars == <<pid, state, children, config_text, file>>

Cut == -1  \* a file that was not written to its end
Pids == 1..MaxStarts
Started == {p \in Pids : children[p].at # "unborn"}
Alive(p) == children[p].at \in {"running", "told to stop"}
is_running == pid # 0

At(p, where) == children' = [children EXCEPT ![p].at = where]

-----------------------------------------------------------------------------
\* The directory or all of the file cannot be written, or there is no such
\* program.
StartFails ==
  /\ ~is_running
  /\ state' = "FailedToStart"
  /\ file' \in {file, config_text, Cut}
  /\ UNCHANGED <<pid, children, config_text>>

StartSucceeds(p) ==
  /\ ~is_running
  /\ p \notin Started
  /\ pid' = p /\ state' = "Running"
  /\ file' = config_text
  /\ children' = [children EXCEPT ![p] = [at |-> "running", text |-> config_text]]
  /\ UNCHANGED config_text

\* Fault: whoever asked to stop takes it for done.
PidAfterStop == 0

\* The exit is not waited for: pid stays until the window is told.
StillHeld == pid

\* SIGTERM.
Stop ==
  /\ is_running
  /\ IF children[pid].at = "running" THEN At(pid, "told to stop") ELSE UNCHANGED children
  /\ pid' = StillHeld
  /\ UNCHANGED <<state, config_text, file>>

\* By itself, or because it was told to.
Exits(p) ==
  /\ Alive(p)
  /\ At(p, "exited")
  /\ UNCHANGED <<pid, state, config_text, file>>

\* The thread that blocks in Child::wait.
WaitReturns(p) ==
  /\ children[p].at = "exited"
  /\ At(p, "waited for")
  /\ UNCHANGED <<pid, state, config_text, file>>

HandleExit(p) ==
  /\ children[p].at = "waited for"
  /\ At(p, "gone")
  /\ pid' = 0 /\ state' = "Stopped"
  /\ UNCHANGED <<config_text, file>>

\* Save in the settings.
SaveSettings ==
  /\ config_text <= MaxSaves
  /\ config_text' = config_text + 1
  /\ UNCHANGED <<pid, state, children, file>>

-----------------------------------------------------------------------------
Init ==
  /\ pid = 0 /\ state = "Stopped"
  /\ children = [p \in Pids |-> [at |-> "unborn", text |-> 0]]
  /\ config_text = 1 /\ file = 0

Next ==
  \/ StartFails \/ Stop \/ SaveSettings
  \/ \E p \in Pids : StartSucceeds(p) \/ Exits(p) \/ WaitReturns(p) \/ HandleExit(p)

Spec == Init /\ [][Next]_vars

-----------------------------------------------------------------------------
(* Properties.                                                             *)

\* The button can stop the Direwolf there is: a process that lives is the one
\* whose pid is held, so there are never two that fight over the sound card,
\* and the end of an earlier one, of which the window learns late, does not
\* make it lose sight of a later one (direwolf.rs:149).  The button is green
\* exactly while a pid is held, and the file is what that process was started
\* with, although it can be edited while the process runs.
RunningIsHeld ==
  /\ \A p \in Started : Alive(p) => pid = p
  /\ (state = "Running") = is_running
  /\ is_running => children[pid].text = file
=============================================================================
