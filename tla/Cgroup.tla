------------------------------- MODULE Cgroup -------------------------------
(***************************************************************************)
(* The cgroup v2 side of a container's life (src/cgroup/cgroup.c), for     *)
(* several runtime processes at once.  The containers share the parent     *)
(* cgroup "cruntime" and its cgroup.subtree_control; each has a cgroup of  *)
(* its own below it.  Every write, mkdir and rmdir is one step.            *)
(*                                                                         *)
(* A container has an init process and one more process that init may fork *)
(* at any time, also before the runtime has moved init into the cgroup: a  *)
(* forked process starts in the cgroup of its parent.                      *)
(***************************************************************************)
EXTENDS Naturals, Sequences, FiniteSets

CONSTANTS
    Containers,     \* the runs
    Delegated,      \* controllers the host delegates to the parent cgroup at first
    Requested,      \* limits each configuration asks for
    PidNamespace,   \* are the processes of a container in a PID namespace?
    Faults          \* calls of each run that may fail although the kernel allows them

Controllers == {"cpu", "memory", "io", "pids"}

\* The files cgroup_apply_limits writes, in its order, and who provides them.
LimitFiles == <<"memory.max", "memory.swap.max", "cpu.weight", "cpu.max",
                "pids.max", "io.weight">>
Limits == {LimitFiles[n] : n \in DOMAIN LimitFiles}
ControllerOf(f) ==
    CASE f \in {"memory.max", "memory.swap.max"} -> "memory"
      [] f \in {"cpu.weight", "cpu.max"} -> "cpu"
      [] f = "pids.max" -> "pids"
      [] f = "io.weight" -> "io"

ASSUME ControllersAssumption == Delegated \subseteq Controllers
ASSUME RequestedAssumption == Requested \in [Containers -> SUBSET Limits]
ASSUME PidNamespaceAssumption == PidNamespace \in BOOLEAN

Procs == {"init", "child"}

VARIABLES
    pc,        \* next step of each runtime process
    k,         \* the limit cgroup_apply_limits is at
    parent,    \* does /sys/fs/cgroup/cruntime exist?
    available, \* controllers the host delegates to it
    enabled,   \* controllers in its cgroup.subtree_control
    dir,       \* containers whose cgroup directory exists
    limit,     \* limits in force in the cgroup of each container
    frozen,    \* containers whose cgroup is frozen
    state,     \* of each process: "none", "running", "dying" or "gone"
    inside,    \* processes of each container that are in its cgroup
    refused    \* history: runs whose write to cgroup.subtree_control failed

vars == <<pc, k, parent, available, enabled, dir, limit, frozen, state, inside, refused>>
procVars == <<state, inside>>
hostVars == <<available, enabled, refused>>
cgroupVars == <<parent, hostVars, dir, limit, frozen>>

Labels == {"idle", "mkdir_parent", "mkdir", "subtree_control", "limits", "clone",
           "add_process", "running", "kill", "rmdir", "destroyed", "leaked", "ended"}

TypeOK ==
    /\ pc \in [Containers -> Labels]
    /\ k \in [Containers -> DOMAIN LimitFiles]
    /\ parent \in BOOLEAN
    /\ available \subseteq Controllers
    /\ enabled \subseteq Controllers
    /\ dir \subseteq Containers
    /\ limit \in [Containers -> SUBSET Limits]
    /\ \A c \in Containers : limit[c] \subseteq Requested[c]
    /\ frozen \subseteq Containers
    /\ state \in [Containers -> [Procs -> {"none", "running", "dying", "gone"}]]
    /\ inside \in [Containers -> SUBSET Procs]
    /\ refused \subseteq Containers

Init ==
    /\ pc = [c \in Containers |-> "idle"]
    /\ k = [c \in Containers |-> 1]
    /\ parent = FALSE
    /\ available = Delegated
    /\ enabled = {}
    /\ dir = {}
    /\ limit = [c \in Containers |-> {}]
    /\ frozen = {}
    /\ state = [c \in Containers |-> [p \in Procs |-> "none"]]
    /\ inside = [c \in Containers |-> {}]
    /\ refused = {}

Step(c, cmd, next) == pc[c] = cmd /\ pc' = [pc EXCEPT ![c] = next]
Fails(c, cmd, possible) == ~possible \/ cmd \in Faults[c]

Live(c, p) == state[c][p] \in {"running", "dying"}

\* The processes of c after those in killed have received SIGKILL: they are
\* dying, and with the init of a PID namespace so is everybody in it.
Killed(c, killed) ==
    [p \in Procs |->
        IF state[c][p] = "running" /\ (p \in killed \/ (PidNamespace /\ "init" \in killed))
        THEN "dying" ELSE state[c][p]]

----------------------------------------------------------------------------
(* cgroup_create *)

\* Without cgroup v2 nothing is created: cmd_run ends, and deletes nothing.
CheckV2(c) ==
    /\ \/ Step(c, "idle", "mkdir_parent")
       \/ Step(c, "idle", "ended") /\ "is_cgroup_v2" \in Faults[c]
    /\ UNCHANGED <<k, cgroupVars, procVars>>

\* The result of this mkdir is ignored; EEXIST is the usual one.
MkdirParent(c) ==
    /\ Step(c, "mkdir_parent", "mkdir")
    /\ \/ parent' = TRUE
       \/ "mkdir_parent" \in Faults[c] /\ parent' = parent
    /\ UNCHANGED <<k, hostVars, dir, limit, frozen, procVars>>

Mkdir(c) ==
    /\ \/ /\ Step(c, "mkdir", "subtree_control")
          /\ parent
          /\ dir' = dir \cup {c}
       \/ /\ Step(c, "mkdir", "ended")
          /\ Fails(c, "mkdir", parent)
          /\ dir' = dir
    /\ UNCHANGED <<k, parent, hostVars, limit, frozen, procVars>>

\* Wrong: one write for each controller, any of which may fail.
SubtreeControlEach(c) ==
    /\ Step(c, "subtree_control", "limits")
    /\ \E some \in SUBSET available :
          /\ enabled' = enabled \cup some
          /\ refused' = IF some = Controllers THEN refused ELSE refused \cup {c}
    /\ UNCHANGED <<k, parent, available, dir, limit, frozen, procVars>>

\* One write asks for all four controllers: the kernel enables all or, when
\* one is not available, none.  The result is ignored, the failure only logged.
SubtreeControl(c) ==
    LET possible == Controllers \subseteq available IN
    /\ Step(c, "subtree_control", "limits")
    /\ \/ possible /\ enabled' = Controllers /\ refused' = refused
       \/ /\ Fails(c, "subtree_control", possible)
          /\ enabled' = enabled
          /\ refused' = refused \cup {c}
    /\ UNCHANGED <<k, parent, available, dir, limit, frozen, procVars>>

\* The index of the next limit, and the label of the step after this one.
NextLimit(c, last) ==
    IF k[c] < last
    THEN Step(c, "limits", "limits") /\ k' = [k EXCEPT ![c] = @ + 1]
    ELSE Step(c, "limits", "clone") /\ k' = [k EXCEPT ![c] = 1]

\* Wrong: a limit that was not given (not > 0) is written all the same.
ApplyLimitUnasked(c) ==
    LET f == LimitFiles[k[c]]  possible == ControllerOf(f) \in enabled IN
    /\ NextLimit(c, Len(LimitFiles))
    /\ limit' = IF possible THEN [limit EXCEPT ![c] = @ \cup {f}] ELSE limit
    /\ UNCHANGED <<parent, hostVars, dir, frozen, procVars>>

\* Wrong: the last limit, io.weight, has been forgotten.
ApplyLimitOneShort(c) ==
    LET f == LimitFiles[k[c]]  possible == ControllerOf(f) \in enabled IN
    /\ NextLimit(c, Len(LimitFiles) - 1)
    /\ limit' = IF f \in Requested[c] /\ possible
                THEN [limit EXCEPT ![c] = @ \cup {f}] ELSE limit
    /\ UNCHANGED <<parent, hostVars, dir, frozen, procVars>>

(* cgroup_apply_limits: one limit after the other; a file that cannot be   *)
(* written leaves its limit out, and the result is CR_OK all the same.     *)
ApplyLimit(c) ==
    LET f == LimitFiles[k[c]]
        possible == ControllerOf(f) \in enabled /\ c \in dir IN
    /\ NextLimit(c, Len(LimitFiles))
    /\ \/ /\ f \in Requested[c]
          /\ possible
          /\ limit' = [limit EXCEPT ![c] = @ \cup {f}]
       \/ /\ f \in Requested[c] => Fails(c, "limits", possible)
          /\ limit' = limit
    /\ UNCHANGED <<parent, hostVars, dir, frozen, procVars>>

\* The clone of container_start: init starts in the cgroup of the runtime.
Clone(c) ==
    /\ Step(c, "clone", "add_process")
    /\ state' = [state EXCEPT ![c]["init"] = "running"]
    /\ UNCHANGED <<k, cgroupVars, inside>>

\* cgroup_add_process moves init, and nothing that init has forked already.
\* When it fails container_start fails, and cmd_run calls container_delete.
AddProcess(c) ==
    LET possible == c \in dir /\ state[c]["init"] = "running" IN
    /\ \/ /\ Step(c, "add_process", "running")
          /\ possible
          /\ inside' = [inside EXCEPT ![c] = @ \cup {"init"}]
       \/ /\ Step(c, "add_process", "kill")
          /\ Fails(c, "add_process", possible)
          /\ inside' = inside
    /\ UNCHANGED <<k, cgroupVars, state>>

(* cgroup_freeze and cgroup_unfreeze, called for a running container. *)
Freeze(c) ==
    /\ pc[c] = "running" /\ c \in dir \ frozen
    /\ frozen' = frozen \cup {c}
    /\ UNCHANGED <<pc, k, parent, hostVars, dir, limit, procVars>>

Unfreeze(c) ==
    /\ pc[c] = "running" /\ c \in dir \cap frozen
    /\ frozen' = frozen \ {c}
    /\ UNCHANGED <<pc, k, parent, hostVars, dir, limit, procVars>>

\* container_delete: the run has ended, or its start fails later on.
BeginDelete(c) ==
    /\ Step(c, "running", "kill")
    /\ state[c]["init"] = "gone" \/ "start" \in Faults[c]
    /\ UNCHANGED <<k, cgroupVars, procVars>>

\* Wrong: cgroup_destroy that does not kill.
KillAllNone(c) ==
    /\ Step(c, "kill", "rmdir")
    /\ UNCHANGED <<k, cgroupVars, procVars>>

(* cgroup_destroy *)

\* cgroup_kill_all, whose result cgroup_destroy ignores; it reaches frozen
\* processes too.
KillAll(c) ==
    /\ Step(c, "kill", "rmdir")
    /\ \/ state' = [state EXCEPT ![c] = Killed(c, inside[c])]
       \/ Fails(c, "kill", c \in dir) /\ state' = state
    /\ UNCHANGED <<k, cgroupVars, inside>>

\* Wrong: any error of rmdir counts as "already gone".
RmdirAnyError(c) ==
    /\ Step(c, "rmdir", "destroyed")
    /\ IF \E p \in inside[c] : Live(c, p)
       THEN UNCHANGED <<dir, limit, frozen>>
       ELSE /\ dir' = dir \ {c}
            /\ limit' = [limit EXCEPT ![c] = {}]
            /\ frozen' = frozen \ {c}
    /\ UNCHANGED <<k, parent, hostVars, procVars>>

\* After the 100 ms pause, however far the killed processes have come by then:
\* the kernel removes a cgroup with no live process in it, or says EBUSY.
Rmdir(c) ==
    LET possible == \A p \in inside[c] : ~Live(c, p) IN
    \/ /\ Step(c, "rmdir", "destroyed")
       /\ possible
       /\ dir' = dir \ {c}
       /\ limit' = [limit EXCEPT ![c] = {}]
       /\ frozen' = frozen \ {c}
       /\ UNCHANGED <<k, parent, hostVars, procVars>>
    \/ /\ Step(c, "rmdir", "leaked")
       /\ Fails(c, "rmdir", possible)
       /\ UNCHANGED <<k, cgroupVars, procVars>>

----------------------------------------------------------------------------
(* The processes of a container.                                           *)

Runs(c, p) == state[c][p] = "running" /\ ~(c \in frozen /\ p \in inside[c])

Fork(c) ==
    /\ Runs(c, "init") /\ state[c]["child"] = "none"
    /\ state' = [state EXCEPT ![c]["child"] = "running"]
    /\ inside' = IF "init" \in inside[c] THEN [inside EXCEPT ![c] = @ \cup {"child"}] ELSE inside
    /\ UNCHANGED <<pc, k, cgroupVars>>

\* A process exits by itself.
Exit(c, p) ==
    /\ Runs(c, p)
    /\ state' = [state EXCEPT ![c] = Killed(c, {p})]
    /\ UNCHANGED <<pc, k, cgroupVars, inside>>

\* The kernel has finished with a dying process; the init of a PID namespace
\* is the last one to go.
Gone(c, p) ==
    /\ state[c][p] = "dying"
    /\ PidNamespace /\ p = "init" => ~Live(c, "child")
    /\ state' = [state EXCEPT ![c][p] = "gone"]
    /\ UNCHANGED <<pc, k, cgroupVars, inside>>

\* The host may delegate all controllers later on, as systemd does when a unit
\* needs them; it cannot take back what the parent has enabled.
Delegate ==
    /\ available # Controllers
    /\ available' = Controllers
    /\ UNCHANGED <<pc, k, parent, enabled, dir, limit, frozen, procVars, refused>>

Terminated ==
    /\ \A c \in Containers : pc[c] \in {"destroyed", "leaked", "ended"}
    /\ UNCHANGED vars

Runtime(c) ==
    \/ CheckV2(c) \/ MkdirParent(c) \/ Mkdir(c) \/ SubtreeControl(c)
    \/ ApplyLimit(c) \/ Clone(c) \/ AddProcess(c)
    \/ BeginDelete(c) \/ KillAll(c) \/ Rmdir(c)

Next ==
    \/ Delegate
    \/ \E c \in Containers :
          \/ Runtime(c) \/ Freeze(c) \/ Unfreeze(c)
          \/ Fork(c) \/ \E p \in Procs : Exit(c, p) \/ Gone(c, p)

Spec == Init /\ [][Next \/ Terminated]_vars

\* The host schedules the runtime and finishes dying processes; whether and
\* when a process of the container exits or forks is its own business, and
\* nobody has to resume a container.
FairSpec ==
    /\ Spec
    /\ \A c \in Containers :
          WF_vars(Runtime(c)) /\ \A p \in Procs : WF_vars(Gone(c, p))

----------------------------------------------------------------------------
(* What the commands promise.                                              *)

\* The limits cgroup_apply_limits has dealt with.
Done(c) == IF pc[c] = "limits" THEN 1 .. k[c] - 1 ELSE DOMAIN LimitFiles

\* A controller that the host lacks takes all limits away, since one write asks
\* for the four and its result is ignored (cgroup_create).  The limits of such a
\* run can still begin to work midway, when the host has the controller by then
\* and another run writes to the same cgroup.subtree_control; but a run never
\* has an earlier limit in force and a later one missing, like memory without
\* swap or without cpu, unless the write of that limit fails by itself.
NoLimitMissedLater ==
    \A c \in Containers : "limits" \notin Faults[c] =>
        \A m, n \in Done(c) :
            m < n /\ LimitFiles[m] \in limit[c] /\ LimitFiles[n] \in Requested[c]
            => LimitFiles[n] \in limit[c]

\* Where the write to cgroup.subtree_control was not refused and no write of a
\* limit fails by itself, no process is in the cgroup of a container before the
\* limits are complete (the order of cgroup_create, cgroup_apply_limits and
\* cgroup_add_process), whatever the calls of other runs do to the parent.
LimitedInside ==
    \A c \in dir : c \notin refused /\ "limits" \notin Faults[c] /\ inside[c] # {}
                    => limit[c] = Requested[c]

\* When cgroup_destroy has returned CR_OK the directory is gone and so is
\* every process of the container, also one that was forked before init had
\* been added to the cgroup: init was in it, and takes the others of its PID
\* namespace along.
NoSurvivors ==
    \A c \in Containers : pc[c] = "destroyed" =>
        /\ c \notin dir
        /\ "init" \in inside[c] => \A p \in Procs : ~Live(c, p)

\* Whatever cgroup_destroy returns, paused or not, the processes it has killed
\* end, and with init those that are not in the cgroup (cgroup_kill_all).
KilledEventually ==
    \A c \in Containers : "kill" \notin Faults[c] =>
        (pc[c] = "rmdir" ~> \A p \in Procs : ~Live(c, p))
=============================================================================
