------------------------------ MODULE MCNetwork ------------------------------
(***************************************************************************)
(* Instances of Network for TLC.                                           *)
(***************************************************************************)
EXTENDS Network

CONSTANTS c1, c2, b1, b2, a1, a2, h1, h2, p1

AllOn1 == [c \in Containers |-> b1]
\* The second run uses a bridge of its own.
SecondOn2 == [c \in Containers |-> IF c = c2 THEN b2 ELSE b1]

\* One address for each run, given with --ip.
OwnIps == [c \in Containers |-> IF c = c1 THEN a1 ELSE a2]
\* --ip for the second run only; it is not on the subnet.
SecondOffLink == [c \in Containers |-> IF c = c2 THEN a2 ELSE NoIp]

Map(h, p) == [host |-> h, cont |-> p]
NoPorts == [c \in Containers |-> <<>>]
\* Different host ports; the two runs publish the same container port.
OwnPorts == [c \in Containers |-> IF c = c1 THEN <<Map(h1, p1)>> ELSE <<Map(h2, p1)>>]
\* The first run publishes two ports, the others none.
TwoPorts == [c \in Containers |-> IF c = c1 THEN <<Map(h1, p1), Map(h2, p1)>> ELSE <<>>]
\* Every run publishes the same port.
SamePorts == [c \in Containers |-> <<Map(h1, p1)>>]

\* No command fails by itself.
NoFaults == [c \in Containers |-> {}]
\* The gateway address cannot be set.
NoGateway == [c \in Containers |-> {"bridge_addr"}]
\* Every command of the first run may fail, and the route of the second.
FirstFaulty == [c \in Containers |->
    IF c = c1 THEN SetupCommands \cup CleanupCommands ELSE {"ns_route"}]
=============================================================================
