---------------------------- MODULE CgroupProofs ----------------------------
(***************************************************************************)
(* Proofs about Cgroup, for any number of containers, any limits and any   *)
(* calls failing: the types, that no limit is missed after one that is in  *)
(* force, that no process is in a cgroup before its limits are complete,   *)
(* and that a destroyed cgroup leaves no survivors.                        *)
(***************************************************************************)
EXTENDS Cgroup, TLAPS

\* The labels before init exists, and those where the cgroup is set up.
BeforeClone == {"idle", "mkdir_parent", "mkdir", "subtree_control", "limits", "clone"}
AfterLimits == {"clone", "add_process", "running", "kill", "rmdir", "leaked"}

\* The one write of cgroup_create enables all controllers or none.
Enabled ==
    /\ enabled \in {{}, Controllers}
    /\ \A c \in Containers : limit[c] # {} => enabled = Controllers

\* Only init is ever moved into the cgroup, and only when it runs; its children
\* follow.
Inside ==
    \A c \in Containers :
        /\ pc[c] \in BeforeClone \cup {"add_process", "ended"} => inside[c] = {}
        /\ inside[c] # {} => "init" \in inside[c]
        /\ "init" \in inside[c] => state[c]["init"] # "none"

\* The limits written so far, for a run whose writes do not fail.
Sure(c) == c \notin refused /\ "limits" \notin Faults[c]
Before(i) == {LimitFiles[j] : j \in 1 .. i - 1}
Limited ==
    \A c \in Containers :
        /\ pc[c] \in {"idle", "mkdir_parent", "mkdir", "subtree_control"} =>
              k[c] = 1 /\ limit[c] = {}
        /\ pc[c] \in {"subtree_control", "limits"} => c \in dir
        /\ pc[c] = "destroyed" => c \notin dir
        /\ Sure(c) /\ pc[c] = "limits" =>
              enabled = Controllers /\ limit[c] = Before(k[c]) \cap Requested[c]
        /\ Sure(c) /\ pc[c] \in AfterLimits => limit[c] = Requested[c]

\* Once a limit of a run is in force all controllers are enabled, and those it
\* writes later are in force too.
GaplessRun(c) ==
    /\ pc[c] \in {"idle", "mkdir_parent", "mkdir", "subtree_control"} => limit[c] = {}
    /\ \A m, n \in Done(c) :
          m < n /\ LimitFiles[m] \in limit[c] /\ LimitFiles[n] \in Requested[c]
          => LimitFiles[n] \in limit[c]
Gapless == \A c \in Containers : "limits" \notin Faults[c] => GaplessRun(c)

\* The init of a PID namespace is the last of its processes to go.
InitLast ==
    PidNamespace => \A c \in Containers :
        /\ state[c]["init"] = "gone" => ~Live(c, "child")
        /\ pc[c] = "destroyed" /\ "init" \in inside[c] => state[c]["init"] = "gone"

Inv == TypeOK /\ Enabled /\ Inside /\ Limited /\ Gapless /\ InitLast

----------------------------------------------------------------------------
(* The limit files *)

LEMMA LimitFilesLen ==
  /\ Len(LimitFiles) = 6
  /\ DOMAIN LimitFiles = 1..6
  BY DEF LimitFiles

LEMMA FileControllers == \A f \in Limits : ControllerOf(f) \in Controllers
  BY DEF Limits, LimitFiles, ControllerOf, Controllers

LEMMA BeforeNext ==
  ASSUME NEW i \in 1..6
  PROVE  Before(i + 1) = Before(i) \cup {LimitFiles[i]}
  <1>1. 1 .. (i + 1) - 1 = (1 .. i - 1) \cup {i}
    OBVIOUS
  <1> QED
    BY <1>1 DEF Before

LEMMA BeforeEnds == Before(1) = {} /\ Before(7) = Limits
  <1>1. 1 .. 1 - 1 = {} /\ 1 .. 7 - 1 = 1 .. 6
    OBVIOUS
  <1> QED
    BY <1>1, LimitFilesLen DEF Before, Limits

LEMMA FilesDiffer ==
  \A i, j \in 1..6 : LimitFiles[i] = LimitFiles[j] => i = j
  BY DEF LimitFiles

----------------------------------------------------------------------------
(* The invariant *)

LEMMA InvInit == Init => Inv
  <1> SUFFICES ASSUME Init PROVE Inv
    OBVIOUS
  <1>1. TypeOK
    <2>1. k \in [Containers -> DOMAIN LimitFiles]
      BY LimitFilesLen DEF Init
    <2>2. pc \in [Containers -> Labels]
      BY DEF Init, Labels
    <2>3. state \in [Containers -> [Procs -> {"none", "running", "dying", "gone"}]]
      BY DEF Init
    <2>4. /\ limit \in [Containers -> SUBSET Limits] /\ inside \in [Containers -> SUBSET Procs]
          /\ parent \in BOOLEAN /\ enabled \subseteq Controllers
          /\ dir \subseteq Containers /\ frozen \subseteq Containers
          /\ available \subseteq Controllers /\ refused \subseteq Containers
          /\ \A c \in Containers : limit[c] \subseteq Requested[c]
      BY ControllersAssumption DEF Init
    <2> QED
      BY <2>1, <2>2, <2>3, <2>4 DEF TypeOK
  <1>2. Enabled /\ Inside
    BY DEF Init, Enabled, Inside
  <1>3. Limited /\ InitLast
    BY DEF Init, Limited, AfterLimits, InitLast, Live, Procs
  <1>4. Gapless
    BY DEF Init, Gapless, GaplessRun
  <1> QED
    BY <1>1, <1>2, <1>3, <1>4 DEF Inv

\* SIGKILL makes running processes dying ones and changes no others.
OnlyDying ==
    \A c \in Containers : \A p \in Procs :
        state'[c][p] = state[c][p] \/ (state[c][p] = "running" /\ state'[c][p] = "dying")

LEMMA KilledDying ==
  ASSUME NEW c \in Containers, NEW killed,
         state \in [Containers -> [Procs -> {"none", "running", "dying", "gone"}]],
         state' = [state EXCEPT ![c] = Killed(c, killed)]
  PROVE  /\ state' \in [Containers -> [Procs -> {"none", "running", "dying", "gone"}]]
         /\ OnlyDying
  <1> DEFINE new == Killed(c, killed)
  <1>1. /\ new \in [Procs -> {"none", "running", "dying", "gone"}]
        /\ \A p \in Procs : new[p] = state[c][p] \/ (state[c][p] = "running" /\ new[p] = "dying")
    BY DEF Killed
  <1> HIDE DEF new
  <1>2. state' = [state EXCEPT ![c] = new]
    BY DEF new
  <1> QED
    BY <1>1, <1>2 DEF OnlyDying

\* Every step of every run and process keeps the invariant.
LEMMA InvNext == Inv /\ [Next \/ Terminated]_vars => Inv'
  <1> SUFFICES ASSUME Inv, [Next \/ Terminated]_vars PROVE Inv'
    OBVIOUS
  <1>a. /\ pc \in [Containers -> Labels] /\ k \in [Containers -> 1..6]
        /\ limit \in [Containers -> SUBSET Limits]
        /\ state \in [Containers -> [Procs -> {"none", "running", "dying", "gone"}]]
        /\ inside \in [Containers -> SUBSET Procs]
        /\ enabled \subseteq Controllers /\ dir \subseteq Containers
        /\ frozen \subseteq Containers /\ parent \in BOOLEAN
        /\ available \subseteq Controllers /\ refused \subseteq Containers
        /\ \A c \in Containers : limit[c] \subseteq Requested[c]
        /\ DOMAIN LimitFiles = 1..6 /\ Len(LimitFiles) = 6
    BY LimitFilesLen DEF Inv, TypeOK
  <1> USE DEF Step, procVars, cgroupVars, hostVars
  <1>1. ASSUME NEW c \in Containers, CheckV2(c) PROVE Inv'
    <2>1. /\ pc[c] = "idle" /\ pc' \in [Containers -> Labels]
          /\ pc'[c] \in {"mkdir_parent", "ended"}
          /\ \A d \in Containers \ {c} : pc'[d] = pc[d]
          /\ UNCHANGED <<k, cgroupVars, procVars>>
      BY <1>1, <1>a DEF CheckV2, Labels
    <2>2. TypeOK'
      BY <2>1 DEF Inv, TypeOK
    <2>3. Enabled' /\ Inside'
      BY <2>1 DEF Inv, Enabled, Inside, BeforeClone
    <2>4. Limited'
      BY <2>1 DEF Inv, Limited, AfterLimits, Sure
    <2>5. InitLast'
      BY <2>1 DEF Inv, InitLast, Live
    <2>6. Gapless'
      BY <2>1 DEF Inv, Gapless, GaplessRun, Done
    <2> QED
      BY <2>2, <2>3, <2>4, <2>5, <2>6 DEF Inv
  <1>2. ASSUME NEW c \in Containers, MkdirParent(c) PROVE Inv'
    <2>1. /\ pc[c] = "mkdir_parent" /\ pc' \in [Containers -> Labels]
          /\ pc'[c] = "mkdir"
          /\ \A d \in Containers \ {c} : pc'[d] = pc[d]
          /\ parent' \in BOOLEAN
          /\ UNCHANGED <<k, hostVars, dir, limit, frozen, procVars>>
      BY <1>2, <1>a DEF MkdirParent, Labels
    <2>2. TypeOK'
      BY <2>1 DEF Inv, TypeOK
    <2>3. Enabled' /\ Inside'
      BY <2>1 DEF Inv, Enabled, Inside, BeforeClone
    <2>4. Limited'
      BY <2>1 DEF Inv, Limited, AfterLimits, Sure
    <2>5. InitLast'
      BY <2>1 DEF Inv, InitLast, Live
    <2>6. Gapless'
      BY <2>1 DEF Inv, Gapless, GaplessRun, Done
    <2> QED
      BY <2>2, <2>3, <2>4, <2>5, <2>6 DEF Inv
  <1>3. ASSUME NEW c \in Containers, Mkdir(c) PROVE Inv'
    <2>1. /\ pc[c] = "mkdir" /\ pc' \in [Containers -> Labels]
          /\ \A d \in Containers \ {c} : pc'[d] = pc[d]
          /\ \/ pc'[c] = "subtree_control" /\ dir' = dir \cup {c}
             \/ pc'[c] = "ended" /\ dir' = dir
          /\ UNCHANGED <<k, parent, hostVars, limit, frozen, procVars>>
      BY <1>3, <1>a DEF Mkdir, Labels
    <2>2. TypeOK'
      BY <2>1 DEF Inv, TypeOK
    <2>3. Enabled' /\ Inside'
      BY <2>1 DEF Inv, Enabled, Inside, BeforeClone
    <2>4. Limited'
      BY <2>1 DEF Inv, Limited, AfterLimits, Sure
    <2>5. InitLast'
      BY <2>1 DEF Inv, InitLast, Live
    <2>6. Gapless'
      BY <2>1 DEF Inv, Gapless, GaplessRun, Done
    <2> QED
      BY <2>2, <2>3, <2>4, <2>5, <2>6 DEF Inv
  <1>4. ASSUME NEW c \in Containers, SubtreeControl(c) PROVE Inv'
    <2>1. /\ pc[c] = "subtree_control" /\ pc' \in [Containers -> Labels]
          /\ pc'[c] = "limits"
          /\ \A d \in Containers \ {c} : pc'[d] = pc[d]
          /\ \/ enabled' = Controllers /\ refused' = refused
             \/ enabled' = enabled /\ refused' = refused \cup {c}
          /\ UNCHANGED <<k, parent, available, dir, limit, frozen, procVars>>
      BY <1>4, <1>a DEF SubtreeControl, Labels
    <2>2. TypeOK'
      BY <2>1 DEF Inv, TypeOK
    <2>3. Enabled' /\ Inside'
      BY <2>1 DEF Inv, Enabled, Inside, BeforeClone
    <2>4. Limited'
      BY <2>1, BeforeEnds DEF Inv, Limited, Enabled, AfterLimits, Sure
    <2>5. InitLast'
      BY <2>1 DEF Inv, InitLast, Live
    <2>6. Gapless'
      BY <2>1 DEF Inv, Gapless, GaplessRun, Done
    <2> QED
      BY <2>2, <2>3, <2>4, <2>5, <2>6 DEF Inv
  <1>5. ASSUME NEW c \in Containers, ApplyLimit(c) PROVE Inv'
    <2> DEFINE f == LimitFiles[k[c]]
    <2>1. f \in Limits /\ ControllerOf(f) \in Controllers
      BY <1>a, FileControllers DEF Limits
    <2>2. /\ pc[c] = "limits" /\ pc' \in [Containers -> Labels]
          /\ \A d \in Containers \ {c} : pc'[d] = pc[d] /\ k'[d] = k[d]
          /\ k' \in [Containers -> 1..6]
          /\ \/ pc'[c] = "limits" /\ k'[c] = k[c] + 1
             \/ pc'[c] = "clone" /\ k[c] = 6
      <3>1. CASE k[c] < 6
        <4>1. k[c] + 1 \in 1..6
          BY <1>a, <3>1
        <4>2. /\ pc[c] = "limits" /\ pc' = [pc EXCEPT ![c] = "limits"]
              /\ k' = [k EXCEPT ![c] = k[c] + 1]
          BY <1>5, <1>a, <3>1 DEF ApplyLimit, NextLimit
        <4> QED
          BY <4>1, <4>2, <1>a DEF Labels
      <3>2. CASE ~(k[c] < 6)
        <4>1. k[c] = 6
          BY <1>a, <3>2
        <4>2. /\ pc[c] = "limits" /\ pc' = [pc EXCEPT ![c] = "clone"]
              /\ k' = [k EXCEPT ![c] = 1]
          BY <1>5, <1>a, <3>2 DEF ApplyLimit, NextLimit
        <4> QED
          BY <4>1, <4>2, <1>a DEF Labels
      <3> QED
        BY <3>1, <3>2
    <2>3. /\ limit' \in [Containers -> SUBSET Limits]
          /\ \A d \in Containers \ {c} : limit'[d] = limit[d]
          /\ \/ limit'[c] = limit[c] \cup {f} /\ f \in Requested[c] /\ ControllerOf(f) \in enabled
             \/ limit' = limit /\ (f \in Requested[c] => Fails(c, "limits", ControllerOf(f) \in enabled /\ c \in dir))
          /\ UNCHANGED <<parent, hostVars, dir, frozen, procVars>>
      BY <1>5, <1>a, <2>1 DEF ApplyLimit
    <2>4. TypeOK'
      BY <2>2, <2>3, <1>a DEF Inv, TypeOK
    <2>5. Enabled'
      BY <2>3 DEF Inv, Enabled
    <2>6. Inside' /\ InitLast'
      BY <2>2, <2>3 DEF Inv, Inside, BeforeClone, InitLast, Live
    <2>7. Limited'
      <3>1. Sure(c) => limit'[c] = Before(k[c] + 1) \cap Requested[c] /\ enabled = Controllers
        <4> SUFFICES ASSUME Sure(c)
                     PROVE  limit'[c] = Before(k[c] + 1) \cap Requested[c] /\ enabled = Controllers
          OBVIOUS
        <4>1. limit[c] = Before(k[c]) \cap Requested[c] /\ enabled = Controllers /\ c \in dir
          BY <2>2 DEF Inv, Limited
        <4>2. limit'[c] = IF f \in Requested[c] THEN limit[c] \cup {f} ELSE limit[c]
          BY <2>1, <2>3, <4>1 DEF Sure, Fails
        <4>3. Before(k[c] + 1) = Before(k[c]) \cup {f}
          BY <1>a, BeforeNext
        <4> QED
          BY <4>1, <4>2, <4>3
      <3>2. Sure(c) /\ k[c] = 6 => limit'[c] = Requested[c]
        <4>1. Requested[c] \subseteq Limits
          BY RequestedAssumption
        <4>2. k[c] = 6 => Before(k[c] + 1) = Before(7)
          OBVIOUS
        <4> QED
          BY <3>1, <4>1, <4>2, BeforeEnds
      <3> QED
        BY <2>2, <2>3, <3>1, <3>2 DEF Inv, Limited, AfterLimits, Sure
    <2>8. ASSUME NEW d \in Containers \ {c} PROVE GaplessRun(d)' <=> GaplessRun(d)
      <3>1. Done(d)' = Done(d) /\ limit'[d] = limit[d] /\ pc'[d] = pc[d]
        BY <2>2, <2>3 DEF Done
      <3> QED
        BY <3>1 DEF GaplessRun
    <2>9. ASSUME "limits" \notin Faults[c], NEW m \in Done(c)', NEW n \in Done(c)',
                 m < n, LimitFiles[m] \in limit'[c], LimitFiles[n] \in Requested[c]
          PROVE  LimitFiles[n] \in limit'[c]
      <3>1. m \in 1..6 /\ n \in 1..6 /\ m <= k[c] /\ n <= k[c]
        BY <2>2, <1>a DEF Done
      <3>2. m < k[c] /\ LimitFiles[m] # f
        BY <2>9, <3>1, <1>a, FilesDiffer
      <3>3. LimitFiles[m] \in limit[c]
        BY <2>3, <2>9, <3>2
      <3>4. CASE n = k[c]
        <4>1. enabled = Controllers /\ c \in dir
          BY <2>2, <3>3 DEF Inv, Enabled, Limited
        <4> QED
          BY <4>1, <3>4, <2>1, <2>3, <2>9 DEF Fails
      <3>5. CASE n # k[c]
        <4>1. m \in Done(c) /\ n \in Done(c)
          BY <3>1, <3>2, <3>5, <2>2, <1>a DEF Done
        <4>2. LimitFiles[n] \in limit[c]
          BY <4>1, <3>3, <2>9 DEF Inv, Gapless, GaplessRun
        <4> QED
          BY <4>2, <2>3
      <3> QED
        BY <3>4, <3>5
    <2>10. "limits" \notin Faults[c] => GaplessRun(c)'
      <3>1. pc'[c] \in {"limits", "clone"}
        BY <2>2
      <3> QED
        BY <2>9, <3>1 DEF GaplessRun
    <2>11. Gapless'
      BY <2>8, <2>10 DEF Inv, Gapless
    <2> QED
      BY <2>4, <2>5, <2>6, <2>7, <2>11 DEF Inv
  <1>6. ASSUME NEW c \in Containers, Clone(c) PROVE Inv'
    <2>1. /\ pc[c] = "clone" /\ pc' \in [Containers -> Labels]
          /\ pc'[c] = "add_process"
          /\ \A d \in Containers \ {c} : pc'[d] = pc[d] /\ state'[d] = state[d]
          /\ state' \in [Containers -> [Procs -> {"none", "running", "dying", "gone"}]]
          /\ state'[c]["init"] = "running"
          /\ UNCHANGED <<k, cgroupVars, inside>>
      BY <1>6, <1>a DEF Clone, Labels, Procs
    <2>2. TypeOK'
      BY <2>1 DEF Inv, TypeOK
    <2>3. Enabled' /\ Inside'
      BY <2>1 DEF Inv, Enabled, Inside, BeforeClone
    <2>4. Limited'
      BY <2>1 DEF Inv, Limited, AfterLimits, Sure
    <2>5. InitLast'
      BY <2>1 DEF Inv, InitLast, Live
    <2>6. Gapless'
      BY <2>1 DEF Inv, Gapless, GaplessRun, Done
    <2> QED
      BY <2>2, <2>3, <2>4, <2>5, <2>6 DEF Inv
  <1>7. ASSUME NEW c \in Containers, AddProcess(c) PROVE Inv'
    <2>1. /\ pc[c] = "add_process" /\ pc' \in [Containers -> Labels]
          /\ \A d \in Containers \ {c} : pc'[d] = pc[d] /\ inside'[d] = inside[d]
          /\ inside' \in [Containers -> SUBSET Procs]
          /\ \/ /\ pc'[c] = "running" /\ state[c]["init"] = "running"
                /\ inside'[c] = inside[c] \cup {"init"}
             \/ pc'[c] = "kill" /\ inside' = inside
          /\ UNCHANGED <<k, cgroupVars, state>>
      <3>1. /\ pc[c] = "add_process" /\ UNCHANGED <<k, cgroupVars, state>>
            /\ \/ /\ pc' = [pc EXCEPT ![c] = "running"] /\ state[c]["init"] = "running"
                  /\ inside' = [inside EXCEPT ![c] = @ \cup {"init"}]
               \/ pc' = [pc EXCEPT ![c] = "kill"] /\ inside' = inside
        BY <1>7 DEF AddProcess, Step
      <3>2. "running" \in Labels /\ "kill" \in Labels /\ "init" \in Procs
        BY DEF Labels, Procs
      <3>3. pc \in [Containers -> Labels] /\ inside \in [Containers -> SUBSET Procs]
        BY DEF Inv, TypeOK
      <3>4. CASE /\ pc' = [pc EXCEPT ![c] = "running"] /\ state[c]["init"] = "running"
                 /\ inside' = [inside EXCEPT ![c] = @ \cup {"init"}]
        BY <3>1, <3>2, <3>3, <3>4
      <3>5. CASE pc' = [pc EXCEPT ![c] = "kill"] /\ inside' = inside
        BY <3>1, <3>2, <3>3, <3>5
      <3> QED
        BY <3>1, <3>4, <3>5
    <2>2. TypeOK'
      BY <2>1 DEF Inv, TypeOK
    <2>3. Enabled' /\ Inside'
      BY <2>1 DEF Inv, Enabled, Inside, BeforeClone
    <2>4. Limited'
      BY <2>1 DEF Inv, Limited, AfterLimits, Sure
    <2>5. InitLast'
      BY <2>1 DEF Inv, InitLast, Live
    <2>6. Gapless'
      BY <2>1 DEF Inv, Gapless, GaplessRun, Done
    <2> QED
      BY <2>2, <2>3, <2>4, <2>5, <2>6 DEF Inv
  <1>8. ASSUME NEW c \in Containers, Freeze(c) PROVE Inv'
    <2>1. frozen' \subseteq Containers /\ UNCHANGED <<pc, k, parent, hostVars, dir, limit, procVars>>
      BY <1>8, <1>a DEF Freeze
    <2>2. TypeOK'
      BY <2>1 DEF Inv, TypeOK
    <2>3. Enabled' /\ Inside'
      BY <2>1 DEF Inv, Enabled, Inside
    <2>4. Limited'
      BY <2>1 DEF Inv, Limited, Sure
    <2>5. InitLast'
      BY <2>1 DEF Inv, InitLast, Live
    <2>6. Gapless'
      BY <2>1 DEF Inv, Gapless, GaplessRun, Done
    <2> QED
      BY <2>2, <2>3, <2>4, <2>5, <2>6 DEF Inv
  <1>9. ASSUME NEW c \in Containers, Unfreeze(c) PROVE Inv'
    <2>1. frozen' \subseteq Containers /\ UNCHANGED <<pc, k, parent, hostVars, dir, limit, procVars>>
      BY <1>9, <1>a DEF Unfreeze
    <2>2. TypeOK'
      BY <2>1 DEF Inv, TypeOK
    <2>3. Enabled' /\ Inside'
      BY <2>1 DEF Inv, Enabled, Inside
    <2>4. Limited'
      BY <2>1 DEF Inv, Limited, Sure
    <2>5. InitLast'
      BY <2>1 DEF Inv, InitLast, Live
    <2>6. Gapless'
      BY <2>1 DEF Inv, Gapless, GaplessRun, Done
    <2> QED
      BY <2>2, <2>3, <2>4, <2>5, <2>6 DEF Inv
  <1>10. ASSUME NEW c \in Containers, BeginDelete(c) PROVE Inv'
    <2>1. /\ pc[c] = "running" /\ pc' \in [Containers -> Labels]
          /\ pc'[c] = "kill"
          /\ \A d \in Containers \ {c} : pc'[d] = pc[d]
          /\ UNCHANGED <<k, cgroupVars, procVars>>
      BY <1>10, <1>a DEF BeginDelete, Labels
    <2>2. TypeOK'
      BY <2>1 DEF Inv, TypeOK
    <2>3. Enabled' /\ Inside'
      BY <2>1 DEF Inv, Enabled, Inside, BeforeClone
    <2>4. Limited'
      BY <2>1 DEF Inv, Limited, AfterLimits, Sure
    <2>5. InitLast'
      BY <2>1 DEF Inv, InitLast, Live
    <2>6. Gapless'
      BY <2>1 DEF Inv, Gapless, GaplessRun, Done
    <2> QED
      BY <2>2, <2>3, <2>4, <2>5, <2>6 DEF Inv
  <1>11. ASSUME NEW c \in Containers, KillAll(c) PROVE Inv'
    <2>1. /\ pc[c] = "kill" /\ pc' \in [Containers -> Labels]
          /\ pc'[c] = "rmdir"
          /\ \A d \in Containers \ {c} : pc'[d] = pc[d]
          /\ state' = state \/ state' = [state EXCEPT ![c] = Killed(c, inside[c])]
          /\ UNCHANGED <<k, cgroupVars, inside>>
      BY <1>11, <1>a DEF KillAll, Labels
    <2>2. TypeOK' /\ OnlyDying
      BY <2>1, <1>a, KilledDying DEF Inv, TypeOK, OnlyDying
    <2>3. Enabled' /\ Inside'
      BY <2>1, <2>2, <1>a DEF Inv, Enabled, Inside, BeforeClone, OnlyDying, Procs
    <2>4. Limited'
      BY <2>1 DEF Inv, Limited, AfterLimits, Sure
    <2>5. InitLast'
      BY <2>1, <2>2 DEF Inv, InitLast, Live, OnlyDying, Procs
    <2>6. Gapless'
      BY <2>1 DEF Inv, Gapless, GaplessRun, Done
    <2> QED
      BY <2>2, <2>3, <2>4, <2>5, <2>6 DEF Inv
  <1>12. ASSUME NEW c \in Containers, Rmdir(c) PROVE Inv'
    <2>1. /\ pc[c] = "rmdir" /\ pc' \in [Containers -> Labels]
          /\ \A d \in Containers \ {c} : pc'[d] = pc[d] /\ limit'[d] = limit[d] /\ (d \in dir' <=> d \in dir)
          /\ limit' \in [Containers -> SUBSET Limits] /\ dir' \subseteq Containers
          /\ frozen' \subseteq Containers
          /\ \/ /\ pc'[c] = "destroyed" /\ c \notin dir' /\ limit'[c] = {}
                /\ \A p \in inside[c] : ~Live(c, p)
             \/ pc'[c] = "leaked" /\ UNCHANGED <<dir, limit>>
          /\ UNCHANGED <<k, parent, hostVars, procVars>>
      BY <1>12, <1>a DEF Rmdir, Labels
    <2>2. TypeOK'
      BY <2>1 DEF Inv, TypeOK
    <2>3. Enabled' /\ Inside'
      BY <2>1 DEF Inv, Enabled, Inside, BeforeClone
    <2>4. Limited'
      BY <2>1 DEF Inv, Limited, AfterLimits, Sure
    <2>5. InitLast'
      <3>1. "init" \in inside[c] /\ pc'[c] = "destroyed" => state[c]["init"] = "gone"
        BY <2>1, <1>a DEF Inv, Inside, Live, Procs
      <3> QED
        BY <2>1, <3>1 DEF Inv, InitLast, Live
    <2>6. Gapless'
      BY <2>1 DEF Inv, Gapless, GaplessRun, Done
    <2> QED
      BY <2>2, <2>3, <2>4, <2>5, <2>6 DEF Inv
  <1>13. ASSUME NEW c \in Containers, Fork(c) PROVE Inv'
    <2>1. /\ state[c]["init"] = "running"
          /\ state' \in [Containers -> [Procs -> {"none", "running", "dying", "gone"}]]
          /\ state'[c]["init"] = "running"
          /\ \A d \in Containers \ {c} : state'[d] = state[d] /\ inside'[d] = inside[d]
          /\ inside' \in [Containers -> SUBSET Procs]
          /\ IF "init" \in inside[c] THEN inside'[c] = inside[c] \cup {"child"} ELSE inside' = inside
          /\ UNCHANGED <<pc, k, cgroupVars>>
      BY <1>13, <1>a DEF Fork, Runs, Procs
    <2>2. TypeOK'
      BY <2>1 DEF Inv, TypeOK
    <2>3. Enabled' /\ Inside'
      BY <2>1 DEF Inv, Enabled, Inside
    <2>4. Limited'
      BY <2>1 DEF Inv, Limited, Sure
    <2>5. InitLast'
      BY <2>1 DEF Inv, InitLast, Live
    <2>6. Gapless'
      BY <2>1 DEF Inv, Gapless, GaplessRun, Done
    <2> QED
      BY <2>2, <2>3, <2>4, <2>5, <2>6 DEF Inv
  <1>14. ASSUME NEW c \in Containers, NEW p \in Procs, Exit(c, p) PROVE Inv'
    <2>1. /\ state' = [state EXCEPT ![c] = Killed(c, {p})]
          /\ UNCHANGED <<pc, k, cgroupVars, inside>>
      BY <1>14 DEF Exit
    <2>2. TypeOK' /\ OnlyDying
      BY <2>1, <1>a, KilledDying DEF Inv, TypeOK, OnlyDying
    <2>3. Enabled' /\ Inside'
      BY <2>1, <2>2, <1>a DEF Inv, Enabled, Inside, OnlyDying, Procs
    <2>4. Limited'
      BY <2>1 DEF Inv, Limited, Sure
    <2>5. InitLast'
      <3>1. \A d \in Containers :
                /\ state[d]["init"] = "gone" <=> state'[d]["init"] = "gone"
                /\ ~Live(d, "child") => ~Live(d, "child")'
        BY <2>2 DEF OnlyDying, Procs, Live
      <3> QED
        BY <2>1, <3>1 DEF Inv, InitLast
    <2>6. Gapless'
      BY <2>1 DEF Inv, Gapless, GaplessRun, Done
    <2> QED
      BY <2>2, <2>3, <2>4, <2>5, <2>6 DEF Inv
  <1>15. ASSUME NEW c \in Containers, NEW p \in Procs, Gone(c, p) PROVE Inv'
    <2>1. /\ state[c][p] = "dying"
          /\ PidNamespace /\ p = "init" => ~Live(c, "child")
          /\ state' \in [Containers -> [Procs -> {"none", "running", "dying", "gone"}]]
          /\ \A d \in Containers : \A q \in Procs :
                state'[d][q] = IF d = c /\ q = p THEN "gone" ELSE state[d][q]
          /\ UNCHANGED <<pc, k, cgroupVars, inside>>
      BY <1>15, <1>a DEF Gone
    <2>2. TypeOK'
      BY <2>1 DEF Inv, TypeOK
    <2>3. Enabled' /\ Inside'
      BY <2>1 DEF Inv, Enabled, Inside, Procs
    <2>4. Limited'
      BY <2>1 DEF Inv, Limited, Sure
    <2>5. InitLast'
      BY <2>1 DEF Inv, InitLast, Live, Procs
    <2>6. Gapless'
      BY <2>1 DEF Inv, Gapless, GaplessRun, Done
    <2> QED
      BY <2>2, <2>3, <2>4, <2>5, <2>6 DEF Inv
  <1>16. CASE Delegate
    <2>1. /\ available' \subseteq Controllers
          /\ UNCHANGED <<pc, k, parent, enabled, dir, limit, frozen, procVars, refused>>
      BY <1>16 DEF Delegate
    <2>2. TypeOK' /\ Enabled' /\ Inside'
      BY <2>1 DEF Inv, TypeOK, Enabled, Inside
    <2>3. Limited' /\ Gapless' /\ InitLast'
      BY <2>1 DEF Inv, Limited, Sure, Gapless, GaplessRun, Done, InitLast, Live
    <2> QED
      BY <2>2, <2>3 DEF Inv
  <1>17. CASE UNCHANGED vars
    <2>1. TypeOK' /\ Enabled' /\ Inside'
      BY <1>17 DEF vars, Inv, TypeOK, Enabled, Inside
    <2>2. Limited' /\ Gapless' /\ InitLast'
      BY <1>17 DEF vars, Inv, Limited, Sure, Gapless, GaplessRun, Done, InitLast, Live
    <2> QED
      BY <2>1, <2>2 DEF Inv
  <1> QED
    BY <1>1, <1>2, <1>3, <1>4, <1>5, <1>6, <1>7, <1>8, <1>9, <1>10, <1>11, <1>12, <1>13, <1>14,
       <1>15, <1>16, <1>17 DEF Next, Runtime, Terminated

LEMMA InvHolds == Spec => []Inv
  BY InvInit, InvNext, PTL DEF Spec

----------------------------------------------------------------------------
(* The theorems *)

\* Every variable keeps its type (cgroup_create to cgroup_destroy).
THEOREM TypeCorrect == Spec => []TypeOK
  <1>1. Inv => TypeOK
    BY DEF Inv
  <1> QED
    BY <1>1, InvHolds, PTL

\* No limit of a run is missed after one that is in force, whatever the host and
\* other runs do to the controllers meanwhile (the one write to
\* cgroup.subtree_control of cgroup_create, and cgroup_apply_limits).
THEOREM NoLimitMissedLaterHolds == Spec => []NoLimitMissedLater
  <1>1. Inv => NoLimitMissedLater
    BY DEF Inv, Gapless, GaplessRun, NoLimitMissedLater
  <1> QED
    BY <1>1, InvHolds, PTL

\* No process is in a cgroup before its limits are complete (the order of
\* cgroup_apply_limits and cgroup_add_process).
THEOREM LimitedInsideHolds == Spec => []LimitedInside
  <1>1. Inv => LimitedInside
    <2> SUFFICES ASSUME Inv, NEW c \in dir, c \notin refused,
                        "limits" \notin Faults[c], inside[c] # {}
                 PROVE  limit[c] = Requested[c]
      BY DEF LimitedInside
    <2>1. c \in Containers /\ pc[c] \in Labels
      BY DEF Inv, TypeOK
    <2>2. pc[c] \notin BeforeClone \cup {"add_process", "ended"}
      BY <2>1 DEF Inv, Inside
    <2>3. pc[c] # "destroyed"
      BY <2>1 DEF Inv, Limited
    <2>4. pc[c] \in AfterLimits
      BY <2>1, <2>2, <2>3 DEF Labels, BeforeClone, AfterLimits
    <2> QED
      BY <2>1, <2>4 DEF Inv, Limited, Sure
  <1> QED
    BY <1>1, InvHolds, PTL

\* In a PID namespace a destroyed cgroup leaves no live process of its container
\* behind (cgroup_kill_all and the rmdir of cgroup_destroy).
THEOREM NoSurvivorsHolds ==
  ASSUME PidNamespace
  PROVE  Spec => []NoSurvivors
  <1>1. Inv => NoSurvivors
    <2> SUFFICES ASSUME Inv, NEW c \in Containers, pc[c] = "destroyed"
                 PROVE  /\ c \notin dir
                        /\ "init" \in inside[c] => \A p \in Procs : ~Live(c, p)
      BY DEF NoSurvivors
    <2>1. c \notin dir
      BY DEF Inv, Limited
    <2>2. ASSUME "init" \in inside[c], NEW p \in Procs PROVE ~Live(c, p)
      <3>1. state[c]["init"] = "gone" /\ ~Live(c, "child")
        BY <2>2 DEF Inv, InitLast
      <3> QED
        BY <3>1 DEF Procs, Live
    <2> QED
      BY <2>1, <2>2
  <1> QED
    BY <1>1, InvHolds, PTL
=============================================================================
