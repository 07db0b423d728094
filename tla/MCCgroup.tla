------------------------------- MODULE MCCgroup -------------------------------
(***************************************************************************)
(* Instances of Cgroup for TLC.                                            *)
(***************************************************************************)
EXTENDS Cgroup

CONSTANTS c1, c2

\* cmd_run without options asks for cpu.weight only, with -m and -c also for
\* memory.max and cpu.max; other callers may ask for any.  The first run has
\* limits at both ends of the list.
SomeLimits == [c \in Containers |->
    IF c = c1 THEN {"memory.max", "cpu.weight", "io.weight"} ELSE {"cpu.weight", "cpu.max"}]
\* The host delegates the io controller only later, or never.
WithoutIo == Controllers \ {"io"}
\* The setup of the first run may fail late, and any call of the second.
SecondFaulty == [c \in Containers |->
    IF c = c1 THEN {"start"} ELSE Labels \cup {"is_cgroup_v2", "start"}]
=============================================================================
