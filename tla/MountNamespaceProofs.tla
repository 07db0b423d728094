------------------------ MODULE MountNamespaceProofs ------------------------
(***************************************************************************)
(* Proofs about MountNamespace, for any number of inits, images and        *)
(* volumes, with any system calls failing and inits killed.                *)
(*                                                                         *)
(* The invariant says how far an init has come when it is at a call: its   *)
(* tree is private after the first, read-only (if it is to be) from the    *)
(* first mount on, the volumes before the n-th mount are mounted, and the  *)
(* host's tree is at .oldroot only between pivot_root and umount2.         *)
(*                                                                         *)
(* About an image: .oldroot is there only while an init that will remove   *)
(* it is past its mkdir; and an init that is alone in its image finds      *)
(* everything it needs, because nobody removes it.                         *)
(***************************************************************************)
EXTENDS MountNamespace, SequenceTheorems, TLAPS

PrivateFirst ==
    /\ hostMounts = {}
    /\ \A c \in Containers : pc[c] \notin {"private", "failed", "killed"} => c \in private

\* The calls after the last mount.
Mounted == {"mkdir_oldroot", "pivot", "umount", "rmdir", "ready"}

VolumesSoFar(c) ==
    \A v \in DOMAIN Volumes[c] :
        \/ pc[c] \in Mounted
        \/ pc[c] = "mount" /\ Len(Standard) + v < n[c]
        => Volumes[c][v] \in mounted[c]

Progress ==
    \A c \in Containers :
        /\ c \in ReadOnly /\ pc[c] \in Mounted \cup {"mount"} => c \in readonly
        /\ VolumesSoFar(c)
        /\ pc[c] \in {"private", "bind", "readonly"} => n[c] = 1
        /\ pc[c] = "readonly" => c \in ReadOnly
        /\ pc[c] \in {"umount", "rmdir", "ready"} => c \in pivoted
        /\ pc[c] \in {"rmdir", "ready"} => c \notin old

\* n is a function (TypeOK only bounds its values).
Counter == n \in [Containers -> Nat]

Inv == TypeOK /\ Counter /\ PrivateFirst /\ Progress

----------------------------------------------------------------------------
(* The list of mounts *)

\* Every standard mount is at the top level, but dev/pts, which follows dev.
LEMMA StandardPlaces ==
  /\ DOMAIN Standard = 1..6
  /\ ToSet(Standard) \subseteq Paths
  /\ \A i \in 1..6 : /\ Standard[i] \in ToSet(Standard)
                     /\ Standard[i] # OldRoot
                     /\ Standard[i] \in Paths
                     /\ \/ Parent[Standard[i]] = Root
                        \/ i = 4 /\ Parent[Standard[i]] = Standard[3]
  <1>1. DOMAIN Standard = 1..6
    BY DEF Standard
  <1>2. \A i \in 1..6 : Standard[i] \in ToSet(Standard)
    BY <1>1 DEF ToSet
  <1>3. /\ Standard[3] = "dev"
        /\ \A i \in 1..6 : Standard[i] # OldRoot /\ (Standard[i] = "dev/pts" => i = 4)
    BY DEF Standard, OldRoot
  <1> QED
    BY <1>1, <1>2, <1>3, PathAssumption

LEMMA StandardSeq == Len(Standard) = 6 /\ Standard \in Seq(Paths)
  <1>1. Len(Standard) = 6 /\ DOMAIN Standard = 1..6
    BY DEF Standard
  <1>2. \A i \in DOMAIN Standard : Standard[i] \in Paths
    BY StandardPlaces DEF ToSet
  <1>3. Standard \in Seq({Standard[i] : i \in 1..6})
    BY DEF Standard
  <1> QED
    BY <1>1, <1>2, <1>3

LEMMA MountListLen ==
  ASSUME NEW c \in Containers
  PROVE  /\ Len(Volumes[c]) \in Nat
         /\ DOMAIN Volumes[c] = 1 .. Len(Volumes[c])
         /\ MountList(c) \in Seq(Paths)
         /\ Len(MountList(c)) = 6 + Len(Volumes[c])
         /\ DOMAIN MountList(c) = 1 .. 6 + Len(Volumes[c])
         /\ \A v \in 1 .. Len(Volumes[c]) : MountList(c)[6 + v] = Volumes[c][v]
         /\ \A i \in 1..6 : MountList(c)[i] = Standard[i]
  <1>1. Volumes[c] \in Seq(Paths)
    BY VolumeAssumption
  <1>2. Len(Volumes[c]) \in Nat /\ DOMAIN Volumes[c] = 1 .. Len(Volumes[c])
    BY <1>1, LenProperties
  <1>3. /\ MountList(c) \in Seq(Paths)
        /\ Len(MountList(c)) = 6 + Len(Volumes[c])
        /\ \A i \in 1 .. 6 + Len(Volumes[c]) :
              MountList(c)[i] = IF i <= 6 THEN Standard[i] ELSE Volumes[c][i - 6]
    <2> DEFINE S == Standard
               V == Volumes[c]
    <2>1. S \in Seq(Paths) /\ V \in Seq(Paths) /\ Len(S) = 6
      BY <1>1, StandardSeq
    <2>2. MountList(c) = S \o V
      BY DEF MountList
    <2> HIDE DEF S, V
    <2>3. /\ S \o V \in Seq(Paths)
          /\ Len(S \o V) = Len(S) + Len(V)
          /\ \A i \in 1 .. Len(S) + Len(V) :
                (S \o V)[i] = IF i <= Len(S) THEN S[i] ELSE V[i - Len(S)]
      BY <2>1, ConcatProperties
    <2>4. /\ MountList(c) \in Seq(Paths)
          /\ Len(MountList(c)) = 6 + Len(V)
          /\ \A i \in 1 .. 6 + Len(V) :
                MountList(c)[i] = IF i <= 6 THEN S[i] ELSE V[i - 6]
      BY <2>1, <2>2, <2>3
    <2> QED
      BY <2>4 DEF S, V
  <1>4. DOMAIN MountList(c) = 1 .. Len(MountList(c))
    BY <1>3, LenProperties
  <1>5. ASSUME NEW v \in 1 .. Len(Volumes[c])
        PROVE  MountList(c)[6 + v] = Volumes[c][v]
    <2>1. 6 + v \in 1 .. 6 + Len(Volumes[c]) /\ ~(6 + v <= 6) /\ (6 + v) - 6 = v
      BY <1>2
    <2> QED
      BY <2>1, <1>3
  <1>6. \A i \in 1..6 : MountList(c)[i] = Standard[i]
    BY <1>2, <1>3
  <1> QED
    BY <1>2, <1>3, <1>4, <1>5, <1>6

LEMMA MountInPaths ==
  ASSUME NEW c \in Containers, n[c] \in DOMAIN MountList(c)
  PROVE  MountList(c)[n[c]] \in Paths
  BY MountListLen, ElementOfSeq

----------------------------------------------------------------------------
(* The invariant *)

LEMMA InvInit == Init => Inv
  <1> SUFFICES ASSUME Init PROVE Inv
    OBVIOUS
  <1>1. TypeOK
    <2>1. \A c \in Containers : 1 \in DOMAIN MountList(c)
      BY MountListLen
    <2> QED
      BY <2>1, ImageAssumption DEF Init, TypeOK, Labels
  <1>2. PrivateFirst
    BY DEF Init, PrivateFirst
  <1>3. Progress
    BY DEF Init, Progress, VolumesSoFar, Mounted
  <1>4. Counter
    BY DEF Init, Counter
  <1> QED
    BY <1>1, <1>2, <1>3, <1>4 DEF Inv

\* A setup that has ended without success is outside of the invariant's concern.
LEMMA EndedKeeps ==
  ASSUME Inv, NEW c \in Containers, NEW end \in {"failed", "killed"},
         pc' = [pc EXCEPT ![c] = end],
         UNCHANGED <<n, imageVars>>,
         private' = private \/ private' = private \ {c},
         bound' \in SUBSET bound, readonly' = readonly \/ readonly' = readonly \ {c},
         mounted' = mounted \/ mounted' = [mounted EXCEPT ![c] = {}],
         own' = own \/ own' = [own EXCEPT ![c] = {}],
         UNCHANGED <<pivoted, old>> \/ (pivoted' = pivoted \ {c} /\ old' = old \ {c})
  PROVE  Inv'
  <1>1. pc \in [Containers -> Labels] /\ pc'[c] = end
    BY DEF Inv, TypeOK
  <1>2. \A d \in Containers \ {c} :
            /\ pc'[d] = pc[d] /\ mounted'[d] = mounted[d]
            /\ d \in private' <=> d \in private
            /\ d \in readonly' <=> d \in readonly
            /\ d \in pivoted' <=> d \in pivoted
            /\ d \in old' <=> d \in old
    BY DEF Inv, TypeOK
  <1>3. TypeOK'
    BY DEF Inv, TypeOK, Labels, imageVars, MountList
  <1>4. PrivateFirst'
    BY <1>1, <1>2 DEF Inv, PrivateFirst, imageVars
  <1>5. Progress'
    BY <1>1, <1>2 DEF Inv, Progress, VolumesSoFar, Mounted, imageVars
  <1>6. Counter'
    BY DEF Inv, Counter
  <1> QED
    BY <1>3, <1>4, <1>5, <1>6 DEF Inv

LEMMA AbortKeeps ==
  ASSUME Inv, NEW c \in Containers, NEW call, NEW possible, Abort(c, call, possible)
  PROVE  Inv'
  <1>1. /\ pc' = [pc EXCEPT ![c] = "failed"]
        /\ UNCHANGED <<n, nsVars, imageVars>>
    BY DEF Abort, Step
  <1> QED
    BY <1>1, EndedKeeps DEF nsVars

\* mkdir changes the directories of the image and of the init only.
LEMMA MkdirKeeps ==
  ASSUME TypeOK, NEW c \in Containers, NEW p \in Paths, Mkdir(c, p)
  PROVE  /\ own' \in [Containers -> SUBSET Paths]
         /\ dirs' \in [Images -> SUBSET Paths]
  <1>1. own \in [Containers -> SUBSET Paths] /\ dirs \in [Images -> SUBSET Paths]
    BY DEF TypeOK
  <1>2. CASE UNCHANGED <<own, dirs>>
    BY <1>1, <1>2
  <1>3. CASE own' = [own EXCEPT ![c] = @ \cup {p}] /\ dirs' = dirs
    BY <1>1, <1>3
  <1>4. CASE dirs' = [dirs EXCEPT ![ImageOf[c]] = @ \cup {p}] /\ own' = own
    BY <1>1, <1>4
  <1> QED
    BY <1>2, <1>3, <1>4 DEF Mkdir


\* One turn of the loop: the volume that n is at is mounted, or n is at none.
LEMMA TurnKeeps ==
  ASSUME Inv, NEW c \in Containers, NextMount(c), c \in private,
         mounted' \in [Containers -> SUBSET Paths],
         \A d \in Containers : mounted[d] \subseteq mounted'[d],
         \A v \in DOMAIN Volumes[c] : 6 + v = n[c] => Volumes[c][v] \in mounted'[c],
         own' \in [Containers -> SUBSET Paths], dirs' \in [Images -> SUBSET Paths],
         UNCHANGED <<private, bound, readonly, pivoted, old, hostMounts>>
  PROVE  Inv'
  <1> DEFINE len == 6 + Len(Volumes[c])
  <1>1. /\ pc \in [Containers -> Labels] /\ n \in [Containers -> Nat] /\ n[c] \in 1..len
        /\ Len(MountList(c)) = len /\ Len(Volumes[c]) \in Nat
        /\ DOMAIN Volumes[c] = 1 .. Len(Volumes[c])
        /\ Len(Standard) = 6
    BY MountListLen, StandardSeq DEF Inv, TypeOK, Counter
  <1>2. /\ pc[c] = "mount"
        /\ \A d \in Containers \ {c} : pc'[d] = pc[d] /\ n'[d] = n[d]
        /\ n' \in [Containers -> Nat] /\ n'[c] \in 1..len
        /\ pc' \in [Containers -> Labels]
        /\ \/ pc'[c] = "mount" /\ n'[c] = n[c] + 1
           \/ pc'[c] = "mkdir_oldroot" /\ n'[c] = n[c] /\ n[c] = len
    <2>1. CASE n[c] < len
      <3>1. pc[c] = "mount" /\ pc' = [pc EXCEPT ![c] = "mount"] /\ n' = [n EXCEPT ![c] = @ + 1]
        BY <1>1, <2>1 DEF NextMount, Step
      <3>2. n[c] + 1 \in 1..len /\ n[c] + 1 \in Nat
        BY <1>1, <2>1
      <3> QED
        BY <1>1, <3>1, <3>2 DEF Labels
    <2>2. CASE ~(n[c] < len)
      <3>1. pc[c] = "mount" /\ pc' = [pc EXCEPT ![c] = "mkdir_oldroot"] /\ n' = n
        BY <1>1, <2>2 DEF NextMount, Step
      <3>2. n[c] = len
        BY <1>1, <2>2
      <3> QED
        BY <1>1, <3>1, <3>2 DEF Labels
    <2> QED
      BY <2>1, <2>2
  <1>3. TypeOK'
    <2>1. \A d \in Containers : n'[d] \in DOMAIN MountList(d)
      BY <1>1, <1>2, MountListLen DEF Inv, TypeOK
    <2> QED
      BY <2>1, <1>2 DEF Inv, TypeOK, MountList
  <1>4. PrivateFirst'
    BY <1>2 DEF Inv, PrivateFirst
  <1>5. Progress'
    <2> SUFFICES ASSUME NEW d \in Containers
                 PROVE  /\ d \in ReadOnly /\ pc'[d] \in Mounted \cup {"mount"} => d \in readonly
                        /\ VolumesSoFar(d)'
                        /\ pc'[d] \in {"private", "bind", "readonly"} => n'[d] = 1
                        /\ pc'[d] = "readonly" => d \in ReadOnly
                        /\ pc'[d] \in {"umount", "rmdir", "ready"} => d \in pivoted
                        /\ pc'[d] \in {"rmdir", "ready"} => d \notin old
      BY DEF Progress
    <2>1. CASE d # c
      BY <1>2, <2>1 DEF Inv, Progress, VolumesSoFar, Mounted
    <2>2. CASE d = c
      <3>1. ASSUME NEW v \in DOMAIN Volumes[c],
                   \/ pc'[c] \in Mounted
                   \/ pc'[c] = "mount" /\ Len(Standard) + v < n'[c]
            PROVE  Volumes[c][v] \in mounted'[c]
        <4>1. v \in Nat /\ v <= Len(Volumes[c]) /\ 6 + v <= n[c]
          BY <1>1, <1>2, <3>1 DEF Mounted
        <4>2. CASE 6 + v = n[c]
          BY <4>2
        <4>3. CASE 6 + v < n[c]
          BY <4>3, <1>1, <1>2 DEF Inv, Progress, VolumesSoFar
        <4> QED
          BY <1>1, <4>1, <4>2, <4>3
      <3> QED
        BY <2>2, <3>1, <1>2 DEF Inv, Progress, VolumesSoFar, Mounted
    <2> QED
      BY <2>1, <2>2
  <1> QED
    BY <1>2, <1>3, <1>4, <1>5 DEF Inv, Counter

LEMMA MountKeeps ==
  ASSUME Inv, NEW c \in Containers, Mount(c)
  PROVE  Inv'
  <1> DEFINE p == MountList(c)[n[c]]
  <1>1. /\ TypeOK /\ p \in Paths /\ mounted \in [Containers -> SUBSET Paths]
        /\ n[c] \in 1 .. 6 + Len(Volumes[c]) /\ Len(Volumes[c]) \in Nat
        /\ DOMAIN Volumes[c] = 1 .. Len(Volumes[c]) /\ Len(Standard) = 6
    BY MountInPaths, MountListLen, StandardSeq DEF Inv, TypeOK
  <1>2. Mkdir(c, p) /\ UNCHANGED <<private, bound, readonly, pivoted, old>> /\ pc[c] = "mount"
    BY DEF Mount, NextMount, Step
  <1>3. /\ own' \in [Containers -> SUBSET Paths]
        /\ dirs' \in [Images -> SUBSET Paths]
    BY <1>1, <1>2, MkdirKeeps
  <1>4. c \in private
    BY <1>2 DEF Inv, PrivateFirst
  <1>5. ASSUME NextMount(c), mounted' = [mounted EXCEPT ![c] = @ \cup {p}], Propagate(c, p)
        PROVE  Inv'
    <2>1. /\ mounted' \in [Containers -> SUBSET Paths] /\ hostMounts' = hostMounts
          /\ \A d \in Containers : mounted[d] \subseteq mounted'[d]
          /\ p \in mounted'[c]
      BY <1>1, <1>4, <1>5 DEF Propagate
    <2>2. \A v \in DOMAIN Volumes[c] : 6 + v = n[c] => Volumes[c][v] \in mounted'[c]
      BY <2>1, <1>1, MountListLen
    <2> QED
      BY <1>2, <1>3, <1>4, <1>5, <2>1, <2>2, TurnKeeps
  <1>6. ASSUME n[c] <= Len(Standard), NextMount(c), UNCHANGED <<mounted, hostMounts>>
        PROVE  Inv'
    <2>1. \A v \in DOMAIN Volumes[c] : 6 + v # n[c]
      BY <1>1, <1>6
    <2> QED
      BY <1>1, <1>2, <1>3, <1>4, <1>6, <2>1, TurnKeeps
  <1>7. ASSUME Step(c, "mount", "failed"), n' = n, UNCHANGED <<mounted, hostMounts>>
        PROVE  Inv'
    <2>1. /\ pc' = [pc EXCEPT ![c] = "failed"]
          /\ pc \in [Containers -> Labels] /\ pc'[c] = "failed"
          /\ \A d \in Containers \ {c} : pc'[d] = pc[d]
      BY <1>7 DEF Step, Inv, TypeOK
    <2>2. TypeOK'
      BY <1>1, <1>2, <1>3, <1>7, <2>1 DEF TypeOK, Labels, MountList
    <2>3. PrivateFirst' /\ Counter'
      BY <1>2, <1>7, <2>1 DEF Inv, PrivateFirst, Counter
    <2>4. Progress'
      BY <1>2, <1>7, <2>1 DEF Inv, Progress, VolumesSoFar, Mounted
    <2> QED
      BY <2>2, <2>3, <2>4 DEF Inv
  <1> QED
    BY <1>5, <1>6, <1>7 DEF Mount

\* Every step of every init keeps the invariant.
LEMMA InvNext == Inv /\ [Next \/ Terminated]_vars => Inv'
  <1> SUFFICES ASSUME Inv, [Next \/ Terminated]_vars PROVE Inv'
    OBVIOUS
  <1>a. /\ pc \in [Containers -> Labels] /\ mounted \in [Containers -> SUBSET Paths]
        /\ own \in [Containers -> SUBSET Paths] /\ dirs \in [Images -> SUBSET Paths]
    BY DEF Inv, TypeOK
  <1> USE DEF Step, imageVars, Labels, MountList, Counter
  <1>1. ASSUME NEW c \in Containers, Private(c) PROVE Inv'
    <2>1. CASE Abort(c, "private", TRUE)
      BY <2>1, AbortKeeps
    <2>2. CASE /\ pc[c] = "private" /\ pc' = [pc EXCEPT ![c] = "bind"]
               /\ private' = private \cup {c}
               /\ UNCHANGED <<n, bound, readonly, mounted, own, pivoted, old, imageVars>>
      <3>1. TypeOK'
        BY <2>2, <1>a DEF Inv, TypeOK
      <3>2. PrivateFirst'
        BY <2>2, <1>a DEF Inv, PrivateFirst
      <3>3. Progress'
        BY <2>2, <1>a DEF Inv, Progress, VolumesSoFar, Mounted
      <3> QED
        BY <2>2, <3>1, <3>2, <3>3 DEF Inv
    <2> QED
      BY <1>1, <2>1, <2>2 DEF Private
  <1>2. ASSUME NEW c \in Containers, Bind(c) PROVE Inv'
    <2>1. CASE Abort(c, "bind", TRUE)
      BY <2>1, AbortKeeps
    <2>2. CASE /\ pc[c] = "bind"
               /\ pc' = [pc EXCEPT ![c] = IF c \in ReadOnly THEN "readonly" ELSE "mount"]
               /\ bound' = bound \cup {c}
               /\ Propagate(c, Root)
               /\ UNCHANGED <<n, private, readonly, mounted, own, pivoted, old, dirs>>
      <3>1. hostMounts' = hostMounts
        BY <2>2 DEF Propagate, Inv, PrivateFirst
      <3>2. TypeOK'
        BY <2>2, <3>1, <1>a DEF Inv, TypeOK
      <3>3. PrivateFirst'
        BY <2>2, <3>1, <1>a DEF Inv, PrivateFirst
      <3>4. Progress'
        <4>1. \A d \in Containers \ {c} : pc'[d] = pc[d]
          BY <2>2, <1>a
        <4>2. \A v \in DOMAIN Volumes[c] : ~(6 + v < n[c])
          <5>1. n[c] = 1
            BY <2>2 DEF Inv, Progress
          <5> QED
            BY <5>1, MountListLen
        <4> QED
          BY <2>2, <1>a, <4>1, <4>2, StandardSeq DEF Inv, Progress, VolumesSoFar, Mounted
      <3> QED
        BY <2>2, <3>2, <3>3, <3>4 DEF Inv
    <2> QED
      BY <1>2, <2>1, <2>2 DEF Bind
  <1>3. ASSUME NEW c \in Containers, RemountReadonly(c) PROVE Inv'
    <2>1. CASE Abort(c, "readonly", TRUE)
      BY <2>1, AbortKeeps
    <2>2. CASE /\ pc[c] = "readonly" /\ pc' = [pc EXCEPT ![c] = "mount"]
               /\ readonly' = readonly \cup {c}
               /\ UNCHANGED <<n, private, bound, mounted, own, pivoted, old, imageVars>>
      <3>0. c \in ReadOnly
        BY <2>2 DEF Inv, Progress
      <3>1. TypeOK'
        BY <2>2, <1>a, <3>0 DEF Inv, TypeOK
      <3>2. PrivateFirst'
        BY <2>2, <1>a DEF Inv, PrivateFirst
      <3>3. Progress'
        <4>1. \A d \in Containers \ {c} : pc'[d] = pc[d]
          BY <2>2, <1>a
        <4>2. n[c] = 1
          BY <2>2 DEF Inv, Progress
        <4>3. \A v \in DOMAIN Volumes[c] : ~(6 + v < n[c])
          BY <4>2, MountListLen
        <4> QED
          BY <2>2, <1>a, <4>1, <4>3, StandardSeq DEF Inv, Progress, VolumesSoFar, Mounted
      <3> QED
        BY <2>2, <3>1, <3>2, <3>3 DEF Inv
    <2> QED
      BY <1>3, <2>1, <2>2 DEF RemountReadonly
  <1>4. ASSUME NEW c \in Containers, Mount(c) PROVE Inv'
    BY <1>4, MountKeeps
  <1>5. ASSUME NEW c \in Containers, MkdirOldRoot(c) PROVE Inv'
    <2>1. /\ pc[c] = "mkdir_oldroot" /\ pc' = [pc EXCEPT ![c] = "pivot"] /\ Mkdir(c, OldRoot)
          /\ UNCHANGED <<n, private, bound, readonly, mounted, pivoted, old, hostMounts>>
      BY <1>5 DEF MkdirOldRoot
    <2>2. own' \in [Containers -> SUBSET Paths] /\ dirs' \in [Images -> SUBSET Paths]
      BY <2>1, MkdirKeeps, PathAssumption DEF Inv
    <2>3. TypeOK'
      BY <2>1, <2>2, <1>a DEF Inv, TypeOK
    <2>4. PrivateFirst'
      BY <2>1, <1>a DEF Inv, PrivateFirst
    <2>5. Progress'
      BY <2>1, <1>a DEF Inv, Progress, VolumesSoFar, Mounted
    <2> QED
      BY <2>1, <2>3, <2>4, <2>5 DEF Inv
  <1>6. ASSUME NEW c \in Containers, PivotRoot(c) PROVE Inv'
    <2>1. ASSUME NEW possible, Abort(c, "pivot", possible) PROVE Inv'
      BY <2>1, AbortKeeps
    <2>2. CASE /\ pc[c] = "pivot" /\ pc' = [pc EXCEPT ![c] = "umount"]
               /\ pivoted' = pivoted \cup {c} /\ old' = old \cup {c}
               /\ UNCHANGED <<n, private, bound, readonly, mounted, own, imageVars>>
      <3>1. TypeOK'
        BY <2>2, <1>a DEF Inv, TypeOK
      <3>2. PrivateFirst'
        BY <2>2, <1>a DEF Inv, PrivateFirst
      <3>3. Progress'
        BY <2>2, <1>a DEF Inv, Progress, VolumesSoFar, Mounted
      <3> QED
        BY <2>2, <3>1, <3>2, <3>3 DEF Inv
    <2> QED
      BY <1>6, <2>1, <2>2 DEF PivotRoot
  <1>7. ASSUME NEW c \in Containers, Umount(c) PROVE Inv'
    <2>1. ASSUME NEW possible, Abort(c, "umount", possible) PROVE Inv'
      BY <2>1, AbortKeeps
    <2>2. CASE /\ pc[c] = "umount" /\ pc' = [pc EXCEPT ![c] = "rmdir"]
               /\ old' = old \ {c}
               /\ UNCHANGED <<n, private, bound, readonly, mounted, own, pivoted, imageVars>>
      <3>1. TypeOK'
        BY <2>2, <1>a DEF Inv, TypeOK
      <3>2. PrivateFirst'
        BY <2>2, <1>a DEF Inv, PrivateFirst
      <3>3. Progress'
        BY <2>2, <1>a DEF Inv, Progress, VolumesSoFar, Mounted
      <3> QED
        BY <2>2, <3>1, <3>2, <3>3 DEF Inv
    <2> QED
      BY <1>7, <2>1, <2>2 DEF Umount
  <1>8. ASSUME NEW c \in Containers, Rmdir(c) PROVE Inv'
    <2>1. /\ pc[c] = "rmdir" /\ pc' = [pc EXCEPT ![c] = "ready"]
          /\ UNCHANGED <<n, private, bound, readonly, mounted, own, pivoted, hostMounts>>
          /\ old' \subseteq old /\ dirs' \in [Images -> SUBSET Paths]
      BY <1>8, <1>a DEF Rmdir
    <2>2. TypeOK'
      BY <2>1, <1>a DEF Inv, TypeOK
    <2>3. PrivateFirst'
      BY <2>1, <1>a DEF Inv, PrivateFirst
    <2>4. Progress'
      BY <2>1, <1>a DEF Inv, Progress, VolumesSoFar, Mounted
    <2> QED
      BY <2>1, <2>2, <2>3, <2>4 DEF Inv
  <1>9. ASSUME NEW c \in Containers, Die(c) PROVE Inv'
    BY <1>9, EndedKeeps DEF Die
  <1>10. CASE UNCHANGED vars
    <2>1. TypeOK'
      BY <1>10 DEF vars, Inv, TypeOK
    <2>2. PrivateFirst'
      BY <1>10 DEF vars, Inv, PrivateFirst
    <2>3. Progress'
      BY <1>10 DEF vars, Inv, Progress, VolumesSoFar
    <2> QED
      BY <1>10, <2>1, <2>2, <2>3 DEF vars, Inv
  <1> QED
    BY <1>1, <1>2, <1>3, <1>4, <1>5, <1>6, <1>7, <1>8, <1>9, <1>10
    DEF Next, Setup, Terminated

LEMMA InvHolds == Spec => []Inv
  BY InvInit, InvNext, PTL DEF Spec

----------------------------------------------------------------------------
(* What one init does to the others, and to .oldroot *)

\* An init has its root bound before it goes on.
BoundFirst ==
    \A c \in Containers :
        pc[c] \notin {"private", "bind", "failed", "killed"} => c \in bound

\* The init's next calls will take .oldroot away.
Holding(c) ==
    \/ pc[c] \in {"pivot", "rmdir"}
    \/ pc[c] = "umount" /\ c \in old

Undisturbed(m) ==
    \A c \in Writers(m) : c \in Reliable /\ OldRoot \notin ToSet(Volumes[c])

\* While .oldroot is in an image, an init is there to remove it.
OldRootHeld ==
    \A m \in Images :
        Undisturbed(m) /\ OldRoot \in dirs[m] \ InImage[m]
        => \E c \in Writers(m) : Holding(c)

\* A step of one init leaves the others where they are.
LEMMA Others ==
  ASSUME Inv, NEW c \in Containers, Setup(c) \/ Die(c), NEW d \in Containers \ {c}
  PROVE  /\ pc'[d] = pc[d] /\ n'[d] = n[d] /\ mounted'[d] = mounted[d]
         /\ d \in bound' <=> d \in bound
  <1>1. /\ pc \in [Containers -> Labels] /\ n \in [Containers -> Nat]
        /\ mounted \in [Containers -> SUBSET Paths]
    BY DEF Inv, TypeOK, Counter
  <1>2. CASE Mount(c)
    BY <1>1, <1>2 DEF Mount, NextMount, Step
  <1>3. CASE Die(c)
    BY <1>1, <1>3 DEF Die
  <1>4. CASE Private(c) \/ Bind(c) \/ RemountReadonly(c)
    BY <1>1, <1>4 DEF Private, Bind, RemountReadonly, Abort, Step, nsVars
  <1>5. CASE MkdirOldRoot(c) \/ PivotRoot(c)
    BY <1>1, <1>5 DEF MkdirOldRoot, PivotRoot, Abort, Step, nsVars
  <1>6. CASE Umount(c) \/ Rmdir(c)
    BY <1>1, <1>6 DEF Umount, Rmdir, Abort, Step, nsVars
  <1> QED
    BY <1>2, <1>3, <1>4, <1>5, <1>6 DEF Setup

\* Only the rmdir of a run of the same image can take an init's old root away.
LEMMA OldOfOthers ==
  ASSUME Inv, NEW c \in Containers, Setup(c) \/ Die(c), NEW d \in Containers \ {c},
         d \in old
  PROVE  d \in old' \/ (Rmdir(c) /\ c \notin readonly /\ ImageOf[d] = ImageOf[c])
  <1>1. CASE Mount(c) \/ Die(c) \/ Private(c) \/ Bind(c) \/ RemountReadonly(c)
    BY <1>1 DEF Mount, Die, Private, Bind, RemountReadonly, Abort, nsVars
  <1>2. CASE MkdirOldRoot(c) \/ PivotRoot(c) \/ Umount(c)
    BY <1>2 DEF MkdirOldRoot, PivotRoot, Umount, Abort, nsVars
  <1>3. CASE Rmdir(c)
    BY <1>3 DEF Rmdir
  <1> QED
    BY <1>1, <1>2, <1>3 DEF Setup

\* A mkdir adds one directory, to the image of a run that may write to it.
LEMMA MkdirEffect ==
  ASSUME Inv, NEW c \in Containers, NEW p \in Paths, Mkdir(c, p),
         pc[c] \in {"mount", "mkdir_oldroot"}, NEW m \in Images
  PROVE  /\ dirs[m] \subseteq dirs'[m] /\ dirs'[m] \subseteq dirs[m] \cup {p}
         /\ dirs'[m] # dirs[m] => m = ImageOf[c] /\ c \notin ReadOnly
  <1>1. dirs \in [Images -> SUBSET Paths] /\ ImageOf[c] \in Images
    BY ImageAssumption DEF Inv, TypeOK
  <1>2. c \in ReadOnly => c \in readonly
    BY DEF Inv, Progress, Mounted
  <1>3. CASE dirs' = dirs
    BY <1>3
  <1>4. CASE /\ dirs' = [dirs EXCEPT ![ImageOf[c]] = @ \cup {p}]
             /\ CanMkdir(c, p) /\ ~Covered(c, p)
    <2>1. c \notin ReadOnly
      BY <1>2, <1>4 DEF CanMkdir
    <2> QED
      BY <1>1, <1>4, <2>1
  <1> QED
    BY <1>3, <1>4 DEF Mkdir

\* What the steps of an init do to the directories of an image.
LEMMA DirsEffect ==
  ASSUME Inv, NEW c \in Containers, Setup(c) \/ Die(c), NEW m \in Images
  PROVE  \/ dirs'[m] = dirs[m]
         \/ /\ Mount(c) /\ m = ImageOf[c] /\ c \notin ReadOnly
            /\ dirs[m] \subseteq dirs'[m]
            /\ dirs'[m] \subseteq dirs[m] \cup {MountList(c)[n[c]]}
         \/ /\ MkdirOldRoot(c) /\ m = ImageOf[c] /\ c \notin ReadOnly
            /\ dirs[m] \subseteq dirs'[m]
         \/ /\ Rmdir(c) /\ m = ImageOf[c] /\ c \notin readonly
            /\ dirs'[m] = dirs[m] \ {OldRoot}
  <1>1. CASE Mount(c)
    <2>1. Mkdir(c, MountList(c)[n[c]]) /\ pc[c] = "mount"
      BY <1>1 DEF Mount, NextMount, Step
    <2>2. MountList(c)[n[c]] \in Paths
      BY MountInPaths DEF Inv, TypeOK
    <2> QED
      BY <1>1, <2>1, <2>2, MkdirEffect
  <1>2. CASE MkdirOldRoot(c)
    <2>1. Mkdir(c, OldRoot) /\ pc[c] = "mkdir_oldroot" /\ OldRoot \in Paths
      BY <1>2, PathAssumption DEF MkdirOldRoot, Step
    <2> QED
      BY <1>2, <2>1, MkdirEffect
  <1>3. CASE Rmdir(c)
    BY <1>3, ImageAssumption DEF Rmdir, Inv, TypeOK
  <1>4. CASE ~Mount(c) /\ ~MkdirOldRoot(c) /\ ~Rmdir(c)
    BY <1>4 DEF Setup, Die, Private, Bind, RemountReadonly, PivotRoot, Umount, Abort, imageVars
  <1> QED
    BY <1>1, <1>2, <1>3, <1>4

LEMMA BoundInit == Init => BoundFirst
  BY DEF Init, BoundFirst

LEMMA BoundNext == Inv /\ BoundFirst /\ [Next \/ Terminated]_vars => BoundFirst'
  <1> SUFFICES ASSUME Inv, BoundFirst, [Next \/ Terminated]_vars PROVE BoundFirst'
    OBVIOUS
  <1>1. ASSUME NEW c \in Containers, Setup(c) \/ Die(c) PROVE BoundFirst'
    <2>1. pc \in [Containers -> Labels]
      BY DEF Inv, TypeOK
    <2>2. pc'[c] \in {"private", "bind", "failed", "killed"} \/ c \in bound'
      <3>1. CASE Bind(c)
        BY <2>1, <3>1 DEF Bind, Abort, Step
      <3>2. CASE Mount(c)
        BY <2>1, <3>2 DEF Mount, NextMount, Step, BoundFirst
      <3>3. CASE Private(c) \/ RemountReadonly(c) \/ Die(c)
        BY <2>1, <3>3 DEF Private, RemountReadonly, Die, Abort, Step, BoundFirst
      <3>4. CASE MkdirOldRoot(c) \/ PivotRoot(c)
        BY <2>1, <3>4 DEF MkdirOldRoot, PivotRoot, Abort, Step, BoundFirst
      <3>5. CASE Umount(c) \/ Rmdir(c)
        BY <2>1, <3>5 DEF Umount, Rmdir, Abort, Step, BoundFirst
      <3> QED
        BY <1>1, <3>1, <3>2, <3>3, <3>4, <3>5 DEF Setup
    <2>3. \A d \in Containers \ {c} : pc'[d] = pc[d] /\ (d \in bound' <=> d \in bound)
      BY <1>1, Others
    <2> QED
      BY <2>2, <2>3 DEF BoundFirst
  <1>2. CASE UNCHANGED vars
    BY <1>2 DEF vars, BoundFirst
  <1> QED
    BY <1>1, <1>2 DEF Next, Terminated

\* An undisturbed init that holds .oldroot does so until it is gone.
LEMMA HoldingOn ==
  ASSUME Inv, BoundFirst, NEW c \in Containers \ ReadOnly, c \in Reliable,
         Holding(c), Setup(c) \/ Die(c),
         OldRoot \in dirs[ImageOf[c]], OldRoot \in dirs'[ImageOf[c]]
  PROVE  Holding(c)'
  <1>1. /\ pc \in [Containers -> Labels] /\ pc[c] \in {"pivot", "umount", "rmdir"}
        /\ Faults[c] = {} /\ c \notin MayDie
        /\ c \notin readonly
    BY DEF Holding, Reliable, Inv, TypeOK
  <1>2. PivotRoot(c) \/ Umount(c) \/ Rmdir(c)
    BY <1>1 DEF Setup, Die, Private, Bind, RemountReadonly, Mount, NextMount, MkdirOldRoot,
                Abort, Step
  <1>3. CASE PivotRoot(c)
    <2>1. c \in bound /\ c \in private
      BY <1>3 DEF PivotRoot, Abort, Step, BoundFirst, Inv, PrivateFirst
    <2> QED
      BY <1>1, <1>3, <2>1 DEF PivotRoot, Abort, Fails, Step, Holding
  <1>4. CASE Umount(c)
    BY <1>1, <1>4 DEF Umount, Abort, Fails, Step, Holding
  <1>5. CASE Rmdir(c)
    BY <1>1, <1>5, ImageAssumption DEF Rmdir, Inv, TypeOK
  <1> QED
    BY <1>2, <1>3, <1>4, <1>5

\* The mkdir before pivot_root is the only one that makes .oldroot.
LEMMA OldRootMade ==
  ASSUME Inv, NEW c \in Containers, Setup(c) \/ Die(c), NEW m \in Images, Undisturbed(m),
         OldRoot \in dirs'[m], OldRoot \notin dirs[m]
  PROVE  c \in Writers(m) /\ MkdirOldRoot(c)
  <1>1. CASE MkdirOldRoot(c) /\ m = ImageOf[c] /\ c \notin ReadOnly
    BY <1>1 DEF Writers
  <1>2. CASE /\ m = ImageOf[c] /\ c \notin ReadOnly
             /\ dirs'[m] \subseteq dirs[m] \cup {MountList(c)[n[c]]}
    <2>1. MountList(c)[n[c]] = OldRoot
      BY <1>2
    <2>2. n[c] \in 1 .. 6 + Len(Volumes[c]) /\ Len(Volumes[c]) \in Nat
      BY MountListLen DEF Inv, TypeOK
    <2>3. n[c] \notin 1..6
      BY <2>1, MountListLen, StandardPlaces
    <2>4. PICK v \in 1 .. Len(Volumes[c]) : n[c] = 6 + v
      <3>1. n[c] - 6 \in 1 .. Len(Volumes[c]) /\ n[c] = 6 + (n[c] - 6)
        BY <2>2, <2>3
      <3> QED
        BY <3>1
    <2>5. OldRoot \in ToSet(Volumes[c])
      <3>1. v \in DOMAIN Volumes[c] /\ MountList(c)[6 + v] = Volumes[c][v]
        BY MountListLen
      <3>2. Volumes[c][v] = OldRoot
        BY <2>1, <2>4, <3>1
      <3> QED
        BY <3>1, <3>2 DEF ToSet
    <2> QED
      BY <1>2, <2>5 DEF Undisturbed, Writers
  <1> QED
    BY <1>1, <1>2, DirsEffect

LEMMA HeldInit == Init => OldRootHeld
  BY DEF Init, OldRootHeld

LEMMA HeldNext ==
  Inv /\ BoundFirst /\ OldRootHeld /\ [Next \/ Terminated]_vars => OldRootHeld'
  <1> SUFFICES ASSUME Inv, BoundFirst, OldRootHeld, [Next \/ Terminated]_vars
               PROVE  OldRootHeld'
    OBVIOUS
  <1>1. ASSUME NEW c \in Containers, Setup(c) \/ Die(c),
               NEW m \in Images, Undisturbed(m), OldRoot \in dirs'[m], OldRoot \notin InImage[m]
        PROVE  \E w \in Writers(m) : Holding(w)'
    <2>1. CASE OldRoot \notin dirs[m]
      <3>1. c \in Writers(m) /\ MkdirOldRoot(c)
        BY <1>1, <2>1, OldRootMade
      <3>2. pc'[c] = "pivot"
        BY <3>1 DEF MkdirOldRoot, Step, Inv, TypeOK
      <3> QED
        BY <3>1, <3>2 DEF Holding
    <2>2. CASE OldRoot \in dirs[m]
      <3>1. PICK w \in Writers(m) : Holding(w)
        BY <1>1, <2>2 DEF OldRootHeld
      <3>2. w \in Containers \ ReadOnly /\ ImageOf[w] = m /\ w \in Reliable
        BY <1>1 DEF Writers, Undisturbed
      <3>3. CASE w = c
        BY <1>1, <2>2, <3>1, <3>2, <3>3, HoldingOn
      <3>4. CASE w # c
        <4>1. pc'[w] = pc[w]
          BY <1>1, <3>2, <3>4, Others
        <4>2. ~(Rmdir(c) /\ c \notin readonly /\ ImageOf[w] = ImageOf[c])
          BY <1>1, <3>2, ImageAssumption DEF Rmdir, Inv, TypeOK
        <4>3. w \in old => w \in old'
          BY <1>1, <3>2, <3>4, <4>2, OldOfOthers
        <4> QED
          BY <3>1, <4>1, <4>3 DEF Holding
      <3> QED
        BY <3>3, <3>4
    <2> QED
      BY <2>1, <2>2
  <1>2. CASE UNCHANGED vars
    BY <1>2 DEF vars, OldRootHeld, Holding
  <1>3. CASE \E c \in Containers : Setup(c) \/ Die(c)
    BY <1>1, <1>3 DEF OldRootHeld, Undisturbed
  <1> QED
    BY <1>2, <1>3 DEF Next, Terminated

----------------------------------------------------------------------------
(* An init that has its image to itself *)

Alone(c) ==
    /\ c \in Reliable \ ReadOnly
    /\ \A d \in Containers \ {c} : ImageOf[d] # ImageOf[c]
    /\ ParentsExist(c)

\* Nothing has gone wrong so far, and what the next call needs is there.
OnItsWay(c) ==
    /\ pc[c] \notin {"failed", "killed"}
    /\ pc[c] # "ready" => InImage[ImageOf[c]] \subseteq dirs[ImageOf[c]]
    /\ pc[c] = "mount" => \A i \in 1 .. n[c] - 1 : MountList(c)[i] \in mounted[c]
    /\ pc[c] = "pivot" => OldRoot \in dirs[ImageOf[c]]
    /\ pc[c] = "umount" => c \in old

AllOnTheirWay == \A c \in Containers : Alone(c) => OnItsWay(c)

LEMMA WayInit == Init => AllOnTheirWay
  <1> SUFFICES ASSUME Init, NEW c \in Containers PROVE OnItsWay(c)
    BY DEF AllOnTheirWay
  <1> QED
    BY ImageAssumption DEF Init, OnItsWay

\* The place of the next mount is there or can be made: in "/", in the image, on
\* an earlier mount that takes a mkdir, or given by the kernel.
LEMMA TargetThere ==
  ASSUME Inv, NEW c \in Containers, Alone(c), OnItsWay(c), pc[c] = "mount"
  PROVE  LET p == MountList(c)[n[c]] IN Exists(c, p) \/ CanMkdir(c, p)
  <1> DEFINE k == n[c]
             p == MountList(c)[k]
             There == Parent[p] = Root \/ Covered(c, p) \/ Parent[p] \in dirs[ImageOf[c]]
  <1>1. /\ Len(Volumes[c]) \in Nat /\ k \in 1 .. 6 + Len(Volumes[c])
        /\ DOMAIN Volumes[c] = 1 .. Len(Volumes[c])
        /\ \A i \in 1..6 : MountList(c)[i] = Standard[i]
        /\ \A v \in 1 .. Len(Volumes[c]) : MountList(c)[6 + v] = Volumes[c][v]
    BY MountListLen DEF Inv, TypeOK
  <1>2. \A i \in 1 .. k - 1 : MountList(c)[i] \in mounted[c]
    BY DEF OnItsWay
  <1>3. c \notin readonly
    BY DEF Alone, Inv, TypeOK
  <1>4. ASSUME There, ~InPseudo(c, p) PROVE CanMkdir(c, p)
    BY <1>3, <1>4 DEF CanMkdir
  <1>5. Root \notin Pseudo /\ "dev" \notin Pseudo
    <2>1. "proc" \in ToSet(Standard) /\ "sys" \in ToSet(Standard)
      BY StandardPlaces DEF ToSet, Standard
    <2> QED
      BY <2>1, PathAssumption DEF Pseudo
  <1>6. CASE k \in 1..6
    <2>1. p = Standard[k]
      BY <1>1, <1>6
    <2>2. Parent[p] = Root \/ (k = 4 /\ Parent[p] = Standard[3])
      BY <2>1, <1>6, StandardPlaces
    <2>3. k = 4 => Standard[3] \in mounted[c]
      BY <1>1, <1>2
    <2>4. Standard[3] = "dev"
      BY DEF Standard
    <2>5. There
      BY <2>2, <2>3 DEF Covered
    <2>6. ~InPseudo(c, p)
      BY <2>2, <2>4, <1>5 DEF InPseudo
    <2> QED
      BY <2>5, <2>6, <1>4
  <1>7. CASE k \notin 1..6
    <2> DEFINE v == k - 6
    <2>1. v \in 1 .. Len(Volumes[c]) /\ k = 6 + v
      BY <1>1, <1>7
    <2>2. p = Volumes[c][v] /\ v \in DOMAIN Volumes[c]
      BY <1>1, <2>1
    <2>3. \/ Parent[p] \in ({Root} \cup InImage[ImageOf[c]] \cup ToSet(Standard)) \ Pseudo
          \/ Parent[p] \in {Volumes[c][j] : j \in 1 .. v - 1}
          \/ p \in KernelDirs
      BY <2>2 DEF Alone, ParentsExist
    <2>4. ASSUME NEW q \in ToSet(Standard) PROVE q \in mounted[c]
      <3>1. PICK i \in 1..6 : q = Standard[i]
        BY <2>4, StandardPlaces DEF ToSet
      <3>2. i \in 1 .. k - 1 /\ MountList(c)[i] = Standard[i]
        BY <1>1, <2>1
      <3> QED
        BY <1>2, <3>1, <3>2
    <2>5. CASE Parent[p] \in ({Root} \cup InImage[ImageOf[c]] \cup ToSet(Standard)) \ Pseudo
      <3>1. There
        BY <2>4, <2>5 DEF Covered, OnItsWay
      <3>2. ~InPseudo(c, p)
        BY <2>5 DEF InPseudo
      <3> QED
        BY <3>1, <3>2, <1>4
    <2>6. CASE Parent[p] \in {Volumes[c][j] : j \in 1 .. v - 1}
      <3>1. PICK j \in 1 .. v - 1 : Parent[p] = Volumes[c][j]
        BY <2>6
      <3>2. j \in 1 .. Len(Volumes[c]) /\ 6 + j \in 1 .. k - 1 /\ 6 + j \in 6 + 1 .. k - 1
        BY <1>1, <2>1
      <3>3. MountList(c)[6 + j] = Volumes[c][j]
        BY <1>1, <3>2
      <3>4. There
        BY <1>2, <3>1, <3>2, <3>3 DEF Covered
      <3>5. Len(Standard) = 6
        BY DEF Standard
      <3>6. ~InPseudo(c, p)
        BY <3>1, <3>2, <3>3, <3>5 DEF InPseudo
      <3> QED
        BY <3>4, <3>6, <1>4
    <2>7. CASE p \in KernelDirs
      <3>1. Parent[p] \in Pseudo
        BY <2>7, KernelAssumption
      <3>2. Parent[p] \in mounted[c]
        BY <3>1, <2>4, StandardPlaces DEF Pseudo, Standard, ToSet
      <3>3. There
        BY <3>2 DEF Covered
      <3>4. CASE InPseudo(c, p)
        BY <3>4, <2>7 DEF Exists
      <3> QED
        BY <3>3, <3>4, <1>4
    <2> QED
      BY <2>3, <2>5, <2>6, <2>7
  <1> QED
    BY <1>6, <1>7

\* The steps of the init itself.
LEMMA AloneMounts ==
  ASSUME Inv, NEW c \in Containers, Alone(c), OnItsWay(c), Mount(c)
  PROVE  OnItsWay(c)'
  <1> DEFINE p == MountList(c)[n[c]]
  <1>1. /\ pc[c] = "mount" /\ c \notin ReadOnly /\ Faults[c] = {}
        /\ pc \in [Containers -> Labels] /\ n \in [Containers -> Nat]
        /\ mounted \in [Containers -> SUBSET Paths] /\ ImageOf[c] \in Images
    BY ImageAssumption DEF Mount, NextMount, Step, Alone, Reliable, Inv, TypeOK, Counter
  <1>2. c \notin readonly
    BY <1>1 DEF Inv, TypeOK
  <1>3. Exists(c, p) \/ CanMkdir(c, p)
    BY <1>1, TargetThere
  <1>4. /\ NextMount(c) /\ mounted' = [mounted EXCEPT ![c] = @ \cup {p}]
    BY <1>1, <1>3 DEF Mount, Fails
  <1>5. dirs[ImageOf[c]] \subseteq dirs'[ImageOf[c]]
    <2>1. ~MkdirOldRoot(c) /\ ~Rmdir(c) /\ Setup(c)
      BY <1>1 DEF MkdirOldRoot, Rmdir, Step, Setup
    <2> QED
      BY <1>1, <2>1, DirsEffect
  <1>6. \/ pc'[c] = "mount" /\ n'[c] = n[c] + 1
        \/ pc'[c] = "mkdir_oldroot"
    BY <1>1, <1>4 DEF NextMount, Step
  <1>7. mounted'[c] = mounted[c] \cup {p}
    BY <1>1, <1>4
  <1>8. ASSUME pc'[c] = "mount", NEW i \in 1 .. n'[c] - 1
        PROVE  MountList(c)[i] \in mounted'[c]
    <2>1. n'[c] - 1 = n[c] /\ n[c] \in Nat
      BY <1>1, <1>6, <1>8
    <2>2. i = n[c] \/ i \in 1 .. n[c] - 1
      BY <2>1
    <2> QED
      BY <1>1, <1>7, <2>2 DEF OnItsWay
  <1>9. InImage[ImageOf[c]] \subseteq dirs'[ImageOf[c]]
    BY <1>1, <1>5 DEF OnItsWay
  <1> QED
    BY <1>6, <1>8, <1>9 DEF OnItsWay, MountList

LEMMA AloneSteps ==
  ASSUME Inv, BoundFirst, NEW c \in Containers, Alone(c), OnItsWay(c), Setup(c) \/ Die(c)
  PROVE  OnItsWay(c)'
  <1>1. /\ c \notin ReadOnly /\ Faults[c] = {} /\ c \notin MayDie /\ c \notin readonly
        /\ pc \in [Containers -> Labels] /\ ImageOf[c] \in Images
        /\ dirs \in [Images -> SUBSET Paths]
    BY ImageAssumption DEF Alone, Reliable, Inv, TypeOK
  <1>2. /\ ~Die(c) /\ ~RemountReadonly(c)
        /\ \A call : ~Abort(c, call, TRUE)
    BY <1>1 DEF Die, RemountReadonly, Step, Abort, Fails, Inv, Progress
  <1>3. CASE Private(c)
    BY <1>1, <1>2, <1>3 DEF Private, Step, OnItsWay, imageVars
  <1>4. CASE Bind(c)
    <2>1. n[c] = 1
      BY <1>2, <1>4 DEF Bind, Step, Inv, Progress
    <2>2. \A i \in 1 .. n[c] - 1 : FALSE
      BY <2>1
    <2> QED
      BY <1>1, <1>2, <1>4, <2>2 DEF Bind, Step, OnItsWay, MountList
  <1>5. CASE Mount(c)
    BY <1>5, AloneMounts
  <1>6. CASE MkdirOldRoot(c)
    <2>1. CanMkdir(c, OldRoot) /\ ~Covered(c, OldRoot)
      BY <1>1, PathAssumption DEF CanMkdir, Covered, InPseudo, Inv, TypeOK
    <2>2. dirs' = [dirs EXCEPT ![ImageOf[c]] = @ \cup {OldRoot}]
      BY <1>6, <2>1 DEF MkdirOldRoot, Mkdir
    <2>3. pc[c] = "mkdir_oldroot" /\ pc'[c] = "pivot"
      BY <1>1, <1>6 DEF MkdirOldRoot, Step
    <2> QED
      BY <1>1, <2>2, <2>3 DEF OnItsWay
  <1>7. CASE PivotRoot(c)
    <2>1. c \in bound /\ c \in private /\ OldRoot \in dirs[ImageOf[c]] /\ pc[c] = "pivot"
      BY <1>7 DEF PivotRoot, Abort, Step, BoundFirst, Inv, PrivateFirst, OnItsWay
    <2> QED
      BY <1>1, <1>2, <1>7, <2>1 DEF PivotRoot, Abort, Fails, Step, OnItsWay, imageVars
  <1>8. CASE Umount(c)
    <2>1. c \in old /\ pc[c] = "umount"
      BY <1>8 DEF Umount, Abort, Step, OnItsWay
    <2> QED
      BY <1>1, <1>2, <1>8, <2>1 DEF Umount, Abort, Fails, Step, OnItsWay, imageVars
  <1>9. CASE Rmdir(c)
    BY <1>1, <1>9 DEF Rmdir, Step, OnItsWay
  <1> QED
    BY <1>2, <1>3, <1>4, <1>5, <1>6, <1>7, <1>8, <1>9 DEF Setup

LEMMA WayNext ==
  Inv /\ BoundFirst /\ AllOnTheirWay /\ [Next \/ Terminated]_vars => AllOnTheirWay'
  <1> SUFFICES ASSUME Inv, BoundFirst, AllOnTheirWay, [Next \/ Terminated]_vars,
                      NEW c \in Containers, Alone(c)
               PROVE  OnItsWay(c)'
    BY DEF AllOnTheirWay, Alone, Reliable, ParentsExist
  <1>1. OnItsWay(c)
    BY DEF AllOnTheirWay
  <1>2. ASSUME NEW d \in Containers, Setup(d) \/ Die(d), d # c
        PROVE  OnItsWay(c)'
    <2>1. ImageOf[d] # ImageOf[c] /\ ImageOf[c] \in Images
      BY <1>2, ImageAssumption DEF Alone
    <2>2. /\ pc'[c] = pc[c] /\ n'[c] = n[c] /\ mounted'[c] = mounted[c]
      BY <1>2, Others
    <2>3. c \in old => c \in old'
      BY <1>2, <2>1, OldOfOthers
    <2>4. dirs'[ImageOf[c]] = dirs[ImageOf[c]]
      BY <1>2, <2>1, DirsEffect
    <2> QED
      BY <1>1, <2>2, <2>3, <2>4 DEF OnItsWay, MountList
  <1>3. CASE UNCHANGED vars
    BY <1>1, <1>3 DEF vars, OnItsWay, MountList
  <1> QED
    BY <1>1, <1>2, <1>3, AloneSteps DEF Next, Terminated

----------------------------------------------------------------------------
(* The theorems *)

\* Every variable keeps its type (namespace_setup_mounts, namespace_pivot_root).
THEOREM TypeCorrect == Spec => []TypeOK
  <1>1. Inv => TypeOK
    BY DEF Inv
  <1> QED
    BY <1>1, InvHolds, PTL

\* No mount of a container ever reaches the host (the MS_PRIVATE remount of
\* namespace_setup_mounts and the return when it fails).
THEOREM HostUntouchedHolds == Spec => []HostUntouched
  <1>1. Inv => HostUntouched
    BY DEF Inv, PrivateFirst, HostUntouched
  <1> QED
    BY <1>1, InvHolds, PTL

\* A container that reaches its command has left the host's tree and has what
\* it was configured with (the error checks up to the end of namespace_pivot_root).
THEOREM RootSwitchedHolds == Spec => []RootSwitched
  <1>1. Inv => RootSwitched
    <2> SUFFICES ASSUME Inv, NEW c \in Containers, pc[c] = "ready"
                 PROVE  /\ c \in pivoted \ old
                        /\ ToSet(Volumes[c]) \subseteq mounted[c]
                        /\ c \in ReadOnly => c \in readonly
      BY DEF RootSwitched
    <2>1. \A v \in DOMAIN Volumes[c] : Volumes[c][v] \in mounted[c]
      BY DEF Inv, Progress, VolumesSoFar, Mounted
    <2> QED
      BY <2>1 DEF Inv, Progress, Mounted, ToSet
  <1> QED
    BY <1>1, InvHolds, PTL

\* A read-only run never changes the image it shares with others: the remount
\* of namespace_setup_mounts comes before its mkdir calls.
THEOREM ReadOnlyImageHolds == Spec => ReadOnlyImage
  <1>1. ASSUME Inv, [Next \/ Terminated]_vars, NEW c \in ReadOnly,
               <<pc[c], n[c]>>' # <<pc[c], n[c]>>
        PROVE  dirs' = dirs
    <2>1. c \in Containers /\ pc \in [Containers -> Labels] /\ n \in [Containers -> Nat]
      BY <1>1, ImageAssumption DEF Inv, TypeOK, Counter
    <2>2. Setup(c) \/ Die(c)
      <3>1. ASSUME NEW d \in Containers, Setup(d) \/ Die(d) PROVE d = c
        <4>1. CASE Die(d)
          BY <4>1, <2>1, <1>1 DEF Die
        <4>2. CASE Mount(d)
          BY <4>2, <2>1, <1>1 DEF Mount, NextMount, Step
        <4>3. CASE ~Mount(d) /\ Setup(d)
          BY <4>3, <2>1, <1>1
          DEF Setup, Private, Bind, RemountReadonly, MkdirOldRoot, PivotRoot, Umount, Rmdir,
              Abort, Step
        <4> QED
          BY <3>1, <4>1, <4>2, <4>3
      <3>2. ~UNCHANGED vars
        BY <1>1 DEF vars
      <3> QED
        BY <1>1, <3>1, <3>2 DEF Next, Terminated
    <2>3. pc[c] \in Mounted \cup {"mount"} => c \in readonly
      BY <1>1, <2>1 DEF Inv, Progress
    <2>4. ASSUME NEW p, Mkdir(c, p), c \in readonly PROVE dirs' = dirs
      BY <2>4 DEF Mkdir, CanMkdir
    <2>5. CASE Mount(c)
      BY <2>3, <2>4, <2>5 DEF Mount, NextMount, Step
    <2>6. CASE MkdirOldRoot(c)
      BY <2>3, <2>4, <2>6 DEF MkdirOldRoot, Step, Mounted
    <2>7. CASE Rmdir(c)
      BY <2>3, <2>7 DEF Rmdir, Step, Mounted
    <2> QED
      BY <2>2, <2>5, <2>6, <2>7
      DEF Setup, Die, Private, Bind, RemountReadonly, PivotRoot, Umount, Abort, imageVars
  <1> DEFINE Keeps == \A c \in ReadOnly : <<pc[c], n[c]>>' # <<pc[c], n[c]>> => dirs' = dirs
  <1>2. Inv /\ [Next \/ Terminated]_vars => [Keeps]_vars
    BY <1>1
  <1> QED
    BY <1>2, InvHolds, PTL DEF Spec, ReadOnlyImage

\* When the writers of an image have ended, undisturbed, .oldroot is gone from
\* it (mkdir, pivot_root, umount2 and rmdir of namespace_pivot_root).
THEOREM NoOldRootLeftHolds == Spec => []NoOldRootLeft
  <1>1. OldRootHeld => NoOldRootLeft
    <2> SUFFICES ASSUME OldRootHeld, NEW m \in Images,
                        \A c \in Writers(m) :
                           c \in Reliable /\ OldRoot \notin ToSet(Volumes[c]) /\ pc[c] \in Ended
                 PROVE  OldRoot \notin dirs[m] \ InImage[m]
      BY DEF NoOldRootLeft
    <2>1. Undisturbed(m)
      BY DEF Undisturbed
    <2>2. \A c \in Writers(m) : ~Holding(c)
      BY DEF Holding, Ended
    <2> QED
      BY <2>1, <2>2 DEF OldRootHeld
  <1>2. Spec => [](BoundFirst /\ OldRootHeld)
    BY BoundInit, BoundNext, HeldInit, HeldNext, InvHolds, PTL DEF Spec
  <1> QED
    BY <1>1, <1>2, PTL

\* An undisturbed, writable run that has its image to itself is never refused
\* (the error returns of namespace_setup_mounts and namespace_pivot_root).
THEOREM AloneSucceedsHolds == Spec => []AloneSucceeds
  <1>1. AllOnTheirWay => AloneSucceeds
    BY DEF AllOnTheirWay, Alone, OnItsWay, AloneSucceeds, Reliable
  <1>2. Spec => [](BoundFirst /\ AllOnTheirWay)
    BY BoundInit, BoundNext, WayInit, WayNext, InvHolds, PTL DEF Spec
  <1> QED
    BY <1>1, <1>2, PTL
=============================================================================
