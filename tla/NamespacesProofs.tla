--------------------------- MODULE NamespacesProofs ---------------------------
(***************************************************************************)
(* Proofs about Namespaces: what is at the path of a persisted namespace,  *)
(* who joins it there, and what an init has set up when it is ready.       *)
(***************************************************************************)
EXTENDS Namespaces, TLAPS

\* The runs that have created the file at their path and not given it up.
Holds(r) == pc[r] \in {"mount", "unlink", "ok"}

\* The types the argument needs.
Typed ==
    /\ pc \in [Runs -> RuntimeLabels]
    /\ flags \in [Runs -> SUBSET {"uts", "net", "user"}]
    /\ file \in [Paths -> Spaces \cup {None, Plain}]
    /\ join \in [Joiners -> {"open", "setns", "joined", "failed"}]
    /\ fd \in [Joiners -> Spaces \cup {None, Plain}]
    /\ netns \in [Joiners -> Spaces]

\* O_EXCL makes the holder of a path unique.
OneHolder == \A r, s \in Runs : Holds(r) /\ Holds(s) /\ PathOf[r] = PathOf[s] => r = s

\* What a holder finds at its path, and that nothing is there without one.
AtPath ==
    /\ \A r \in Runs : pc[r] \in {"mount", "unlink"} => file[PathOf[r]] = Plain
    /\ \A r \in Runs : pc[r] = "ok" => file[PathOf[r]] = Space(r, "net")
    /\ \A p \in Paths : file[p] = Plain =>
          \E r \in Runs : PathOf[r] = p /\ pc[r] \in {"mount", "unlink", "left", "killed"}
    /\ \A p \in Paths : file[p] \in Spaces =>
          \E r \in Runs : PathOf[r] = p /\ pc[r] = "ok" /\ file[p] = Space(r, "net")

\* A namespace that a joiner has opened or entered is still the one at the path.
Opened ==
    \A j \in Joiners :
        /\ fd[j] \in Spaces => file[JoinAt[j]] = fd[j]
        /\ join[j] = "joined" => file[JoinAt[j]] = netns[j]

IInv == Typed /\ OneHolder /\ AtPath /\ Opened

LEMMA Distinct == \A s \in Spaces : s # None /\ s # Plain
  BY NamespaceAssumption DEF Spaces

LEMMA IInvInit == Init => IInv
  BY NamespaceAssumption, Distinct
  DEF Init, IInv, Typed, OneHolder, AtPath, Opened, Holds, RuntimeLabels, Spaces, None, Plain

\* Steps of the inits and the joiners change nothing at the paths.
LEMMA OthersKeep ==
    ASSUME IInv, UNCHANGED <<pc, flags, file>>, Typed', Opened'
    PROVE  IInv'
  BY DEF IInv, OneHolder, AtPath, Holds, Space

\* A run changes its own path and label only.
LEMMA IInvNext == IInv /\ [Next \/ Terminated]_vars => IInv'
  <1> SUFFICES ASSUME IInv, [Next \/ Terminated]_vars PROVE IInv'
    OBVIOUS
  <1> USE NamespaceAssumption, Distinct
  <1>1. ASSUME NEW r \in Runs, Clone(r) PROVE IInv'
    <2>1. \A s \in Runs : pc'[s] # pc[s] => s = r /\ pc[s] = "clone" /\ pc'[s] = "mkdir"
      BY <1>1 DEF Clone, RunStep, IInv, Typed
    <2>2. \A s \in Runs : pc[s] = "ok" => Space(s, "net")' = Space(s, "net")
      BY <1>1 DEF Clone, RunStep, Space, IInv, Typed
    <2>3. Typed'
      BY <1>1 DEF Clone, RunStep, IInv, Typed, RuntimeLabels, joinVars, CloneFlags
    <2>4. OneHolder'
      BY <2>1 DEF IInv, OneHolder, Holds
    <2>5. AtPath'
      BY <1>1, <2>1, <2>2 DEF Clone, IInv, AtPath
    <2>6. Opened'
      BY <1>1 DEF Clone, joinVars, IInv, Opened
    <2> QED
      BY <2>3, <2>4, <2>5, <2>6 DEF IInv
  <1>2. ASSUME NEW r \in Runs, MkdirParent(r) PROVE IInv'
    BY <1>2 DEF MkdirParent, RunStep, IInv, Typed, OneHolder, AtPath, Opened, Holds, Space,
                RuntimeLabels, initVars, joinVars
  <1>3. ASSUME NEW r \in Runs, CreateFile(r) PROVE IInv'
    <2> DEFINE p == PathOf[r]
    <2>0. p \in Paths /\ pc[r] = "open" /\ UNCHANGED <<flags, join, fd, netns>>
      BY <1>3 DEF CreateFile, RunStep, initVars, joinVars
    <2>1. CASE file[p] = None /\ pc' = [pc EXCEPT ![r] = "mount"] /\ file' = [file EXCEPT ![p] = Plain]
      <3>1. Typed'
        BY <2>0, <2>1 DEF IInv, Typed, RuntimeLabels
      <3>2. \A s \in Runs : Holds(s) => PathOf[s] # p
        BY <2>1 DEF IInv, AtPath, Holds, Space, Spaces, None, Plain
      <3>3. OneHolder'
        BY <2>0, <2>1, <3>2 DEF IInv, Typed, OneHolder, Holds
      <3>4. \A s \in Runs : pc[s] = "ok" => file'[PathOf[s]] = file[PathOf[s]]
        BY <2>1, <3>2 DEF Holds, IInv, Typed
      <3>5. AtPath'
        BY <2>0, <2>1, <3>2 DEF IInv, Typed, AtPath, Holds, Space
      <3>6. Opened'
        BY <2>0, <2>1 DEF IInv, Typed, Opened
      <3> QED
        BY <3>1, <3>3, <3>5, <3>6 DEF IInv
    <2>2. CASE pc' = [pc EXCEPT ![r] = "error"] /\ UNCHANGED file
      BY <2>0, <2>2 DEF IInv, Typed, OneHolder, AtPath, Opened, Holds, Space, RuntimeLabels
    <2> QED
      BY <1>3, <2>1, <2>2 DEF CreateFile, RunStep
  <1>4. ASSUME NEW r \in Runs, BindNamespace(r) PROVE IInv'
    <2> DEFINE p == PathOf[r]
    <2>0. /\ p \in Paths /\ pc[r] = "mount" /\ file[p] = Plain
          /\ UNCHANGED <<flags, join, fd, netns>>
      BY <1>4 DEF BindNamespace, RunStep, initVars, joinVars, IInv, AtPath
    <2>1. CASE pc' = [pc EXCEPT ![r] = "ok"] /\ file' = [file EXCEPT ![p] = Space(r, "net")]
      <3>0. Space(r, "net") \in Spaces
        BY DEF Space, Spaces
      <3>1. Typed'
        BY <2>0, <2>1, <3>0 DEF IInv, Typed, RuntimeLabels
      <3>2. \A s \in Runs : Holds(s) /\ PathOf[s] = p => s = r
        BY <2>0 DEF IInv, OneHolder, Holds
      <3>3. OneHolder'
        BY <2>0, <2>1, <3>2 DEF IInv, Typed, OneHolder, Holds
      <3>4. AtPath'
        BY <2>0, <2>1, <3>0, <3>2 DEF IInv, Typed, AtPath, Holds, Space
      <3>5. Opened'
        BY <2>0, <2>1 DEF IInv, Typed, Opened
      <3> QED
        BY <3>1, <3>3, <3>4, <3>5 DEF IInv
    <2>2. CASE pc' = [pc EXCEPT ![r] = "unlink"] /\ UNCHANGED file
      BY <2>0, <2>2 DEF IInv, Typed, OneHolder, AtPath, Opened, Holds, Space, RuntimeLabels
    <2> QED
      BY <1>4, <2>1, <2>2 DEF BindNamespace, RunStep
  <1>5. ASSUME NEW r \in Runs, Unlink(r) PROVE IInv'
    <2> DEFINE p == PathOf[r]
    <2>0. /\ p \in Paths /\ pc[r] = "unlink" /\ file[p] = Plain
          /\ UNCHANGED <<flags, join, fd, netns>>
      BY <1>5 DEF Unlink, RunStep, initVars, joinVars, IInv, AtPath
    <2>1. CASE pc' = [pc EXCEPT ![r] = "error"] /\ file' = [file EXCEPT ![p] = None]
      <3>1. \A s \in Runs : Holds(s) /\ PathOf[s] = p => s = r
        BY <2>0 DEF IInv, OneHolder, Holds
      <3>2. Typed'
        BY <2>0, <2>1 DEF IInv, Typed, RuntimeLabels
      <3>3. OneHolder'
        BY <2>0, <2>1 DEF IInv, Typed, OneHolder, Holds
      <3>4. AtPath'
        BY <2>0, <2>1, <3>1 DEF IInv, Typed, AtPath, Holds, Space, None, Plain
      <3>5. Opened'
        BY <2>0, <2>1 DEF IInv, Typed, Opened
      <3> QED
        BY <3>2, <3>3, <3>4, <3>5 DEF IInv
    <2>2. CASE pc' = [pc EXCEPT ![r] = "left"] /\ UNCHANGED file
      BY <2>0, <2>2 DEF IInv, Typed, OneHolder, AtPath, Opened, Holds, Space, RuntimeLabels
    <2> QED
      BY <1>5, <2>0, <2>1, <2>2 DEF Unlink, RunStep
  <1>6. ASSUME NEW r \in Runs, Crash(r) PROVE IInv'
    BY <1>6 DEF Crash, IInv, Typed, OneHolder, AtPath, Opened, Holds, Space, RuntimeLabels,
                initVars, joinVars
  <1>7. ASSUME NEW r \in Runs, InitNext(r) PROVE IInv'
    <2>1. UNCHANGED <<pc, flags, file, join, fd, netns>>
      BY <1>7 DEF InitNext, DenySetgroups, MapUid, MapGid, MapId, SetHostname, InitExit, joinVars
    <2> QED
      BY <2>1, OthersKeep DEF IInv, Typed, Opened
  <1>8. ASSUME NEW j \in Joiners, JoinOpen(j) PROVE IInv'
    <2>1. UNCHANGED <<pc, flags, file, netns>>
      BY <1>8 DEF JoinOpen, initVars
    <2>2. Typed' /\ Opened'
      BY <1>8, <2>1 DEF JoinOpen, IInv, Typed, Opened
    <2> QED
      BY <2>1, <2>2, OthersKeep
  <1>9. ASSUME NEW j \in Joiners, Setns(j) PROVE IInv'
    <2>1. UNCHANGED <<pc, flags, file>>
      BY <1>9 DEF Setns, initVars
    <2>2. Typed'
      BY <1>9, <2>1 DEF Setns, IInv, Typed
    <2>3. Opened'
      BY <1>9, <2>1 DEF Setns, IInv, Typed, Opened, None, Spaces
    <2> QED
      BY <2>1, <2>2, <2>3, OthersKeep
  <1>10. CASE Terminated \/ UNCHANGED vars
    BY <1>10 DEF Terminated, vars, IInv, Typed, OneHolder, AtPath, Opened, Holds, Space
  <1> QED
    BY <1>1, <1>2, <1>3, <1>4, <1>5, <1>6, <1>7, <1>8, <1>9, <1>10 DEF Next, RuntimeNext

LEMMA Invariant == Spec => []IInv
  BY IInvInit, IInvNext, PTL DEF Spec

\* Any number of runs may race for a path, have their calls fail or be killed:
\* a persisted namespace stays where namespace_persist has bound it, and no two
\* runs have persisted theirs at one path.
THEOREM PersistedForGoodHolds == Spec => []PersistedForGood
  <1>1. IInv => PersistedForGood
    BY DEF IInv, OneHolder, AtPath, Holds, PersistedForGood
  <1> QED
    BY Invariant, <1>1, PTL

\* A file without a namespace belongs to a runtime that is at work, was killed or
\* could not unlink it
\* (the unlink of namespace_persist).
THEOREM NothingLeftBehindHolds == Spec => []NothingLeftBehind
  <1>1. IInv => NothingLeftBehind
    BY DEF IInv, AtPath, NothingLeftBehind
  <1> QED
    BY Invariant, <1>1, PTL

\* A joiner is never in any other namespace than the one persisted at the path
\* (namespace_join).
THEOREM JoinedPersistedHolds == Spec => []JoinedPersisted
  <1>1. IInv => JoinedPersisted
    BY NamespaceAssumption DEF IInv, Typed, AtPath, Opened, JoinedPersisted
  <1> QED
    BY Invariant, <1>1, PTL

----------------------------------------------------------------------------
(* The inits *)

\* What an init has done when it is at a call. An init that has come past the
\* mapping was either cloned without a user namespace or is fully mapped.
Mapped ==
    \A r \in Runs :
        /\ init[r] = "none" => pc[r] = "clone" /\ flags[r] = {}
        /\ init[r] # "none" => pc[r] # "clone" /\ flags[r] = Types[r]
        /\ init[r] = "gid_map" => "uid" \in maps[r]
        /\ init[r] \in {"sethostname", "ready"} /\ "user" \in Types[r]
              => maps[r] = {"deny", "uid", "gid"}

\* Who has set the hostname of a uts namespace is in it.
Named ==
    \A r \in Runs : "uts" \in Types[r] =>
        /\ \A s \in Spaces : hostname[s] = r => s = r
        /\ init[r] = "ready" => hostname[r] = r

InitTyped ==
    /\ pc \in [Runs -> RuntimeLabels]
    /\ init \in [Runs -> InitLabels]
    /\ flags \in [Runs -> SUBSET {"uts", "net", "user"}]
    /\ maps \in [Runs -> SUBSET {"deny", "uid", "gid"}]
    /\ hostname \in [Spaces -> Spaces]

InitInv == InitTyped /\ Mapped /\ Named

LEMMA InitInvInit == Init => InitInv
  BY NamespaceAssumption
  DEF Init, InitInv, InitTyped, Mapped, Named, InitLabels, RuntimeLabels, Spaces

\* The runtime after the clone does not touch what the inits have set up.
LEMMA RuntimeKeeps ==
    ASSUME InitInv, UNCHANGED initVars, pc' \in [Runs -> RuntimeLabels],
           \A r \in Runs : pc'[r] = "clone" <=> pc[r] = "clone"
    PROVE  InitInv'
  BY DEF InitInv, InitTyped, Mapped, Named, initVars

LEMMA InitInvNext == InitInv /\ [Next \/ Terminated]_vars => InitInv'
  <1> SUFFICES ASSUME InitInv, [Next \/ Terminated]_vars PROVE InitInv'
    OBVIOUS
  <1> USE NamespaceAssumption
  <1>1. ASSUME NEW r \in Runs, Clone(r) PROVE InitInv'
    <2>1. /\ pc[r] = "clone" /\ pc' = [pc EXCEPT ![r] = "mkdir"]
          /\ flags' = [flags EXCEPT ![r] = Types[r]]
          /\ init' = [init EXCEPT ![r] = IF "user" \in Types[r] THEN "setgroups" ELSE "sethostname"]
          /\ hostname' = [hostname EXCEPT ![r] = hostname[Host]] \/ UNCHANGED hostname
          /\ UNCHANGED maps
      BY <1>1 DEF Clone, RunStep, CloneFlags
    <2>2. InitTyped'
      BY <2>1 DEF InitInv, InitTyped, RuntimeLabels, InitLabels, Spaces
    <2>3. Mapped'
      BY <2>1 DEF InitInv, InitTyped, Mapped
    <2>4. Named'
      \* The copy is no container's name, since the host's is none.
      <3>1. \A q \in Runs : "uts" \in Types[q] => hostname[Host] # q
        BY DEF InitInv, Named, Spaces
      <3>2. \A q \in Runs : init'[q] = "ready" => q # r /\ init[q] = "ready"
        BY <2>1 DEF InitInv, InitTyped
      <3>3. \A s \in Spaces : hostname'[s] \in {hostname[s], hostname[Host]}
        BY <2>1 DEF InitInv, InitTyped
      <3>4. \A q \in Runs : q # r => hostname'[q] = hostname[q]
        BY <2>1 DEF InitInv, InitTyped, Spaces
      <3> QED
        BY <3>1, <3>2, <3>3, <3>4 DEF InitInv, Named
    <2> QED
      BY <2>2, <2>3, <2>4 DEF InitInv
  <1>2. ASSUME NEW r \in Runs,
               MkdirParent(r) \/ CreateFile(r) \/ BindNamespace(r) \/ Unlink(r) \/ Crash(r)
        PROVE  InitInv'
    <2>1. /\ UNCHANGED initVars /\ pc[r] # "clone"
          /\ \E l \in RuntimeLabels \ {"clone"} : pc' = [pc EXCEPT ![r] = l]
      BY <1>2 DEF MkdirParent, CreateFile, BindNamespace, Unlink, Crash, RunStep, RuntimeLabels
    <2> QED
      BY <2>1, RuntimeKeeps DEF InitInv, InitTyped
  <1>3. ASSUME NEW r \in Runs, DenySetgroups(r) PROVE InitInv'
    <2>1. /\ init[r] = "setgroups" /\ init' = [init EXCEPT ![r] = "uid_map"]
          /\ maps' = [maps EXCEPT ![r] = @ \cup {"deny"}] \/ UNCHANGED maps
          /\ UNCHANGED <<pc, flags, hostname>>
      BY <1>3 DEF DenySetgroups, InitStep
    <2>2. InitTyped'
      BY <2>1 DEF InitInv, InitTyped, InitLabels
    <2>3. Mapped'
      BY <2>1 DEF InitInv, InitTyped, Mapped
    <2>4. Named'
      BY <2>1 DEF InitInv, InitTyped, Named
    <2> QED
      BY <2>2, <2>3, <2>4 DEF InitInv
  <1>4. ASSUME NEW r \in Runs, MapUid(r) PROVE InitInv'
    <2>1. /\ init[r] = "uid_map" /\ UNCHANGED <<pc, flags, hostname>>
          /\ \/ /\ init' = [init EXCEPT ![r] = "gid_map"]
                /\ maps' = [maps EXCEPT ![r] = @ \cup {"uid"}]
             \/ init' = [init EXCEPT ![r] = "failed"] /\ UNCHANGED maps
      BY <1>4 DEF MapUid, MapId, InitStep
    <2>2. InitTyped'
      BY <2>1 DEF InitInv, InitTyped, InitLabels
    <2>3. Mapped'
      BY <2>1 DEF InitInv, InitTyped, Mapped
    <2>4. Named'
      BY <2>1 DEF InitInv, InitTyped, Named
    <2> QED
      BY <2>2, <2>3, <2>4 DEF InitInv
  <1>5. ASSUME NEW r \in Runs, MapGid(r) PROVE InitInv'
    <2>1. /\ init[r] = "gid_map" /\ UNCHANGED <<pc, flags, hostname>>
          /\ \/ /\ init' = [init EXCEPT ![r] = "sethostname"] /\ "deny" \in maps[r]
                /\ maps' = [maps EXCEPT ![r] = @ \cup {"gid"}]
             \/ init' = [init EXCEPT ![r] = "failed"] /\ UNCHANGED maps
      BY <1>5 DEF MapGid, MapId, InitStep
    <2>2. InitTyped'
      BY <2>1 DEF InitInv, InitTyped, InitLabels
    <2>3. Mapped'
      <3>1. init'[r] = "sethostname" => maps'[r] = {"deny", "uid", "gid"}
        BY <2>1 DEF InitInv, InitTyped, Mapped
      <3> QED
        BY <2>1, <3>1 DEF InitInv, InitTyped, Mapped
    <2>4. Named'
      BY <2>1 DEF InitInv, InitTyped, Named
    <2> QED
      BY <2>2, <2>3, <2>4 DEF InitInv
  <1>6. ASSUME NEW r \in Runs, SetHostname(r) PROVE InitInv'
    <2>1. /\ init[r] = "sethostname" /\ UNCHANGED <<pc, flags, maps>>
          /\ flags[r] = Types[r]
          /\ \/ /\ init' = [init EXCEPT ![r] = "ready"]
                /\ hostname' = [hostname EXCEPT ![Space(r, "uts")] = r]
             \/ init' = [init EXCEPT ![r] = "failed"] /\ UNCHANGED hostname
      BY <1>6 DEF SetHostname, InitStep, InitInv, Mapped
    <2>2. InitTyped'
      BY <2>1 DEF InitInv, InitTyped, InitLabels, Space, Spaces
    <2>3. Mapped'
      BY <2>1 DEF InitInv, InitTyped, Mapped
    <2>4. Named'
      <3>1. CASE "uts" \in Types[r]
        BY <2>1, <3>1 DEF InitInv, InitTyped, Named, Space, Spaces
      <3>2. CASE "uts" \notin Types[r]
        BY <2>1, <3>2 DEF InitInv, InitTyped, Named, Space, Spaces
      <3> QED
        BY <3>1, <3>2
    <2> QED
      BY <2>2, <2>3, <2>4 DEF InitInv
  <1>7. ASSUME NEW r \in Runs, InitExit(r) PROVE InitInv'
    <2>1. /\ init[r] \in {"failed", "ready"} /\ init' = [init EXCEPT ![r] = "gone"]
          /\ UNCHANGED <<pc, flags, maps, hostname>>
      BY <1>7 DEF InitExit, InitStep
    <2>2. InitTyped'
      BY <2>1 DEF InitInv, InitTyped, InitLabels
    <2>3. Mapped' /\ Named'
      BY <2>1 DEF InitInv, InitTyped, Mapped, Named
    <2> QED
      BY <2>2, <2>3 DEF InitInv
  <1>8. ASSUME NEW j \in Joiners, JoinOpen(j) \/ Setns(j) PROVE InitInv'
    BY <1>8, RuntimeKeeps DEF JoinOpen, Setns, InitInv, InitTyped
  <1>9. CASE Terminated \/ UNCHANGED vars
    BY <1>9, RuntimeKeeps DEF Terminated, vars, initVars, InitInv, InitTyped
  <1> QED
    BY <1>1, <1>2, <1>3, <1>4, <1>5, <1>6, <1>7, <1>8, <1>9 DEF Next, RuntimeNext, InitNext

LEMMA InitInvariant == Spec => []InitInv
  BY InitInvInit, InitInvNext, PTL DEF Spec

\* Any number of runs may share the host's uts namespace and rename it between the
\* clones of others: the hostname of a container with a namespace of its own never
\* leaves it, and is set when namespace_setup_uts has succeeded.
THEOREM HostnamesApartHolds == Spec => []HostnamesApart
  <1>1. InitInv => HostnamesApart
    BY DEF InitInv, Named, HostnamesApart
  <1> QED
    BY InitInvariant, <1>1, PTL

\* The error checks of namespace_setup_user, and the kernel's refusal of a gid
\* before setgroups is denied, make up for the result it ignores.
THEOREM FullyMappedHolds == Spec => []FullyMapped
  <1>1. InitInv => FullyMapped
    BY DEF InitInv, Mapped, FullyMapped
  <1> QED
    BY InitInvariant, <1>1, PTL

\* The two invariants together are the types of the variables.
THEOREM TypeCorrect == Spec => []TypeOK
  <1>1. IInv /\ InitInv => TypeOK
    <2> SUFFICES ASSUME IInv, InitInv PROVE \A r \in Runs : flags[r] \subseteq Types[r]
      BY DEF IInv, Typed, InitInv, InitTyped, TypeOK
    <2>1. \A r \in Runs : init[r] = "none" => flags[r] = {}
      BY DEF InitInv, Mapped
    <2> QED
      BY <2>1 DEF InitInv, Mapped
  <1> QED
    BY Invariant, InitInvariant, <1>1, PTL
=============================================================================
