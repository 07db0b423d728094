---------------------------- MODULE VethHandoff ----------------------------
(***************************************************************************)
(* What network_setup_veth has to achieve for all runtime processes of a   *)
(* host together.  A new container interface passes through the host's     *)
(* namespace under the one name "eth0", so at most one is there at a time; *)
(* it then enters the namespace of the container it was made for, or       *)
(* disappears.  The host's own eth0, if it has one, never goes anywhere.   *)
(***************************************************************************)
CONSTANTS Containers, None, Nic

VARIABLES
    holder,   \* whose interface the host calls "eth0"
    inside    \* the containers that have their interface

vars == <<holder, inside>>

Init == holder \in {None, Nic} /\ inside = {}

\* An interface for c appears in the host's namespace.
Create(c) == holder = None /\ c \notin inside /\ holder' = c /\ UNCHANGED inside

\* It moves into the namespace of c, and of no other container.
Move(c) == holder = c /\ holder' = None /\ inside' = inside \cup {c}

\* It is deleted before it has moved.
Drop(c) == holder = c /\ holder' = None /\ UNCHANGED inside

\* It disappears with its namespace or with the other end of its pair.
Leave(c) == c \in inside /\ inside' = inside \ {c} /\ UNCHANGED holder

Next == \E c \in Containers : Create(c) \/ Move(c) \/ Drop(c) \/ Leave(c)

Spec == Init /\ [][Next]_vars
=============================================================================
