----------------------------- MODULE PortService -----------------------------
(***************************************************************************)
(* What a connect-capable port promises the UI through its PortEvents      *)
(* (pr-core/src/port.rs), whatever its transport.  Each connection has an  *)
(* id of its own, reports the states it goes through, and is closed once,  *)
(* after which nothing is said of it again.  Once the port has reported    *)
(* PortDisconnected it says nothing more of any connection, except, if it  *)
(* ClosesLate, that one has closed; those still open may never close.      *)
(***************************************************************************)
EXTENDS Integers

CONSTANTS MaxIds, ClosesLate

VARIABLES
  told,  \* told[id]: what the UI knows of connection id
  over   \* the port has reported PortDisconnected

vars == <<told, over>>

Id == 1..MaxIds

Open == {"Connecting", "Connected", "Disconnecting"}

\* A peer that connects again cancels a disconnect under way.
MayFollow ==
  [ none          |-> {"Connecting", "Connected"},
    Connecting    |-> {"Connected", "Disconnecting", "closed"},
    Connected     |-> {"Disconnecting", "closed"},
    Disconnecting |-> {"Connected", "closed"},
    closed        |-> {} ]

Init ==
  /\ told = [id \in Id |-> "none"]
  /\ over = FALSE

Report(id) ==
  /\ \E next \in MayFollow[told[id]] :
       /\ ~over \/ (ClosesLate /\ next = "closed")
       /\ told' = [told EXCEPT ![id] = next]
  /\ UNCHANGED over

\* A port that goes down may say so to the peers of its open connections.
GoDown ==
  /\ ~over
  /\ over' = TRUE
  /\ \E leaving \in SUBSET {id \in Id : told[id] \in Open} :
       told' = [id \in Id |-> IF id \in leaving THEN "Disconnecting" ELSE told[id]]

Next == GoDown \/ \E id \in Id : Report(id)

Spec == Init /\ [][Next]_vars
=============================================================================
