---------------------------- MODULE StorageProofs ----------------------------
(***************************************************************************)
(* Proofs about Storage, for any number of users, layers and containers,   *)
(* any scripts of calls, any layers delivered and anything failing.        *)
(*                                                                         *)
(* They rest on two facts.  Only layers share files, so that a step        *)
(* changes one place.  And what a step of one user changes is either       *)
(* nothing that the call of another uses, or it disturbs that call.        *)
(***************************************************************************)
EXTENDS Storage, SequenceTheorems, WellFoundedInduction, TLAPS

USE DEF Places

----------------------------------------------------------------------------
(* Calls *)

LEMMA CallShape ==
  ASSUME NEW k \in Calls
  PROVE  /\ k.op \in {"mount", "unmount", "remove", "create", "commit", "diff", "export", "import"}
         /\ k.op \in {"mount", "unmount", "remove"} => k.to \in Containers
         /\ k.op = "mount" => k = [op |-> "mount", to |-> k.to]
         /\ k.op \in {"create", "commit", "diff", "import"} => k.to \in Layers
         /\ k.op = "export" => k.to \in Archives /\ k.from \in Layers
         /\ k.op = "create" => k.from \in Sources
         /\ k.op = "commit" => k.from \in Containers
         /\ k.op = "diff" => k.from \in Layers \cup Containers /\ k.lower \in Layers
         /\ k.op = "import" => k.from \in Archives
  <1>1. CASE k \in [op : {"mount", "unmount", "remove"}, to : Containers]
    BY <1>1
  <1>2. CASE k \in [op : {"create"}, from : Sources, to : Layers]
    BY <1>2
  <1>3. CASE k \in [op : {"commit"}, from : Containers, to : Layers]
    BY <1>3
  <1>4. CASE k \in [op : {"diff"}, from : Layers \cup Containers, lower : Layers, to : Layers]
    BY <1>4
  <1>5. CASE k \in [op : {"export"}, from : Layers, to : Archives]
    BY <1>5
  <1>6. CASE k \in [op : {"import"}, from : Archives, to : Layers]
    BY <1>6
  <1> QED
    BY <1>1, <1>2, <1>3, <1>4, <1>5, <1>6 DEF Calls

LEMMA CallType ==
  ASSUME TypeOK, NEW u \in Users, Busy(u)
  PROVE  /\ at[u] \in 1..Len(Script[u]) /\ Len(Script[u]) \in Nat
         /\ DOMAIN Script[u] = 1..Len(Script[u])
         /\ Call(u) \in Calls
  <1>1. Script[u] \in Seq(Calls)
    BY ScriptAssumption
  <1>2. at[u] \in 1..Len(Script[u]) /\ Len(Script[u]) \in Nat /\ DOMAIN Script[u] = 1..Len(Script[u])
    BY <1>1, LenProperties DEF TypeOK, Busy
  <1> QED
    BY <1>1, <1>2, ElementOfSeq DEF Call

\* The places a call names.
LEMMA CallPlaces ==
  ASSUME TypeOK, NEW u \in Users, Busy(u)
  PROVE  /\ Call(u).op \in {"mount", "unmount", "remove", "create", "commit", "diff", "export",
                            "import"}
         /\ Call(u).to \in Places
         /\ Call(u).op \in {"mount", "unmount", "remove"} => Call(u).to \in Containers
         /\ Call(u).op \in {"create", "commit", "diff", "import"} => Call(u).to \in Layers
         /\ Call(u).op = "export" => Call(u).to \in Archives
         /\ Call(u).op \notin {"mount", "unmount", "remove"} => Call(u).from \in Places
         /\ Call(u).op = "create" => Call(u).from \in Sources
         /\ Call(u).op = "commit" => Call(u).from \in Containers
         /\ Call(u).op = "diff" => Call(u).lower \in Layers
         /\ Call(u).op = "mount" => Call(u) = [op |-> "mount", to |-> Call(u).to]
  BY CallType, CallShape

----------------------------------------------------------------------------
(* Files *)

\* Only layers share files.
LayersShare == links \subseteq Names \X SUBSET Layers

LEMMA SameFileType ==
  ASSUME LayersShare, NEW p \in Places, NEW f
  PROVE  /\ p \in SameFile(p, f)
         /\ p \in Layers => SameFile(p, f) \subseteq Layers
         /\ p \notin Layers => SameFile(p, f) = {p}
  BY DEF LayersShare, SameFile

\* What the four ways to change a file do.
LEMMA ReplaceEffect ==
  ASSUME TypeOK, LayersShare, NEW p \in Places, NEW f \in Names, NEW x \in Content,
         Replace(p, f, x)
  PROVE  /\ tree' \in [Places -> [Names -> Content]] /\ LayersShare'
         /\ tree'[p][f] = x
         /\ \A g \in Names \ {f} : tree'[p][g] = tree[p][g]
         /\ \A q \in Places \ {p} : tree'[q] = tree[q]
  BY DEF TypeOK, LayersShare, Replace, Unlinked

LEMMA WriteInPlaceEffect ==
  ASSUME TypeOK, LayersShare, NEW p \in Places, NEW f \in Names, NEW x \in Content,
         SameFile(p, f) = {p}, WriteInPlace(p, f, x)
  PROVE  /\ tree' \in [Places -> [Names -> Content]] /\ LayersShare'
         /\ tree'[p][f] = x
         /\ \A g \in Names \ {f} : tree'[p][g] = tree[p][g]
         /\ \A q \in Places \ {p} : tree'[q] = tree[q]
  BY DEF TypeOK, LayersShare, WriteInPlace

LEMMA LinkEffect ==
  ASSUME TypeOK, LayersShare, NEW p \in Layers, NEW f \in Names, NEW q \in Layers, Link(p, f, q)
  PROVE  /\ tree' \in [Places -> [Names -> Content]] /\ LayersShare'
         /\ tree'[p][f] = tree[q][f]
         /\ \A g \in Names \ {f} : tree'[p][g] = tree[p][g]
         /\ \A r \in Places \ {p} : tree'[r] = tree[r]
  <1>1. {<<f, {p, r}>> : r \in SameFile(q, f) \ {p}} \subseteq Names \X SUBSET Layers
    BY SameFileType
  <1>2. LayersShare'
    BY <1>1 DEF LayersShare, Link, Unlinked
  <1>3. tree[q][f] \in Content
    BY DEF TypeOK
  <1> QED
    BY <1>2, <1>3 DEF TypeOK, Link

\* One name is transferred: at most that name of the target changes.
LEMMA TransferEffect ==
  ASSUME TypeOK, LayersShare, NEW u \in Users, Busy(u), NEW f \in Names,
         Call(u).op \in {"create", "commit", "diff", "export", "import"}, Transfer(u, f)
  PROVE  /\ tree' \in [Places -> [Names -> Content]] /\ LayersShare'
         /\ \A g \in Names \ {f} : tree'[Call(u).to][g] = tree[Call(u).to][g]
         /\ \A q \in Places \ {Call(u).to} : tree'[q] = tree[q]
         /\ \/ tree'[Call(u).to][f] = tree[Call(u).from][f]
            \/ /\ Call(u).op \in {"create", "commit", "import"}
               /\ tree[Call(u).from][f] = Absent
            \/ /\ Call(u).op \in {"create", "commit"}
               /\ tree'[Call(u).to][f] = Whiteout
  <1> DEFINE to == Call(u).to
             x == tree[Call(u).from][f]
  <1>1. to \in Places /\ Call(u).from \in Places /\ x \in Content
    BY CallPlaces DEF TypeOK
  <1>2. CASE /\ UNCHANGED treeVars
             /\ \/ x = tree[to][f] \/ (x = Absent /\ Call(u).op \in {"create", "commit", "import"})
                \/ Call(u).op \in {"create", "commit"} /\ tree[to][f] = Whiteout
    BY <1>1, <1>2 DEF treeVars, TypeOK, LayersShare
  <1>3. CASE Replace(to, f, x)
    BY <1>1, <1>3, ReplaceEffect
  <1>4. CASE WriteInPlace(to, f, x) /\ SameFile(to, f) = {to}
    BY <1>1, <1>4, WriteInPlaceEffect
  <1>5. CASE /\ Call(u).op = "diff" /\ Link(to, f, Call(u).lower)
             /\ tree[Call(u).lower][f] = x
    BY <1>5, CallPlaces, LinkEffect
  <1>6. CASE Call(u).op = "diff"
    <2>1. RsyncName(u, f)
      BY <1>6 DEF Transfer
    <2>2. \/ UNCHANGED treeVars /\ x = tree[to][f]
          \/ Replace(to, f, x)
          \/ Link(to, f, Call(u).lower) /\ tree[Call(u).lower][f] = x
      <3>1. CASE x = tree[to][f]
        BY <2>1, <3>1 DEF RsyncName
      <3>2. CASE x # tree[to][f] /\ x \in Data /\ tree[Call(u).lower][f] = x
        BY <2>1, <3>2 DEF RsyncName
      <3>3. CASE x # tree[to][f] /\ ~(x \in Data /\ tree[Call(u).lower][f] = x)
        BY <2>1, <3>3 DEF RsyncName
      <3> QED
        BY <3>1, <3>2, <3>3
    <2> QED
      BY <1>2, <1>3, <1>5, <1>6, <2>2
  <1>7. CASE Call(u).op \in {"create", "commit"}
    <2>1. IF x = Absent THEN UNCHANGED treeVars ELSE CopyFile(to, f, x)
      BY <1>7 DEF Transfer
    <2> QED
      BY <1>2, <1>3, <1>4, <1>7, <2>1 DEF CopyFile
  <1>8. CASE Call(u).op = "import"
    <2>1. IF x = Absent THEN UNCHANGED treeVars ELSE Replace(to, f, x)
      BY <1>8 DEF Transfer
    <2> QED
      BY <1>2, <1>3, <1>8, <2>1
  <1>9. CASE Call(u).op = "export"
    BY <1>3, <1>9 DEF Transfer
  <1> QED
    BY <1>6, <1>7, <1>8, <1>9

----------------------------------------------------------------------------
(* The list of layers *)

LEMMA LowerIsImage ==
  ASSUME NEW c \in Containers
  PROVE  /\ Lower(c) \in Seq(Layers) /\ ImageOf[c] \in Seq(Layers)
         /\ Len(Lower(c)) = Len(ImageOf[c]) /\ Len(ImageOf[c]) \in Nat
         /\ DOMAIN Lower(c) = 1..Len(ImageOf[c]) /\ DOMAIN ImageOf[c] = 1..Len(ImageOf[c])
         /\ \A i \in 1..Len(ImageOf[c]) : Lower(c)[i] = ImageOf[c][Len(ImageOf[c]) - i + 1]
         /\ ToSet(Lower(c)) = ToSet(ImageOf[c])
  <1> DEFINE s == ImageOf[c]
             n == Len(s)
  <1>1. s \in Seq(Layers) /\ n \in Nat /\ DOMAIN s = 1..n
    BY TreeAssumption, LenProperties
  <1>2. Lower(c) = [i \in 1..n |-> s[n - i + 1]]
    BY DEF Lower, Reverse
  <1> HIDE DEF s, n
  <1>3. \A i \in 1..n : n - i + 1 \in 1..n /\ n - (n - i + 1) + 1 = i
    BY <1>1
  <1>4. \A i \in 1..n : s[n - i + 1] \in Layers
    BY <1>1, <1>3, ElementOfSeq
  <1>5. Lower(c) \in Seq(Layers) /\ DOMAIN Lower(c) = 1..n /\ Len(Lower(c)) = n
    BY <1>1, <1>2, <1>4, IsASeq, LenProperties
  <1>6. ToSet(Lower(c)) = ToSet(s)
    <2>1. \A i \in 1..n : Lower(c)[i] = s[n - i + 1] /\ s[i] = Lower(c)[n - i + 1]
      BY <1>2, <1>3
    <2> QED
      BY <1>1, <1>3, <1>5, <2>1 DEF ToSet
  <1> QED
    BY <1>1, <1>2, <1>5, <1>6 DEF s, n

----------------------------------------------------------------------------
(* The frame of an operation *)

\* Apart from u itself only the target of its call is changed.
Frame(u) ==
    /\ Busy(u)
    /\ \A v \in Users \ {u} :
        pc'[v] = pc[v] /\ at'[v] = at[v] /\ todo'[v] = todo[v] /\ result'[v] = result[v]
    /\ \A q \in Places \ {Call(u).to} : tree'[q] = tree[q]
    /\ \A c \in Containers \ {Call(u).to} : mounts'[c] = mounts[c]
    /\ \A p \in (Places \cup Dirs) \ Workspace(Call(u).to) : p \in made' <=> p \in made
    /\ Layers \cap made \subseteq made'
    /\ \/ Changing(u, Call(u).to)
       \/ /\ Quiet(u) /\ UNCHANGED <<tree, mounts>>
          /\ made \subseteq made' /\ made' \subseteq made \cup Layers \cup Archives

LEMMA OperationFrame ==
  ASSUME TypeOK, LayersShare, NEW u \in Users, Operation(u)
  PROVE  Frame(u)
  <1> DEFINE to == Call(u).to
             mine == Workspace(to)
  <1>0. Busy(u)
    BY DEF Operation, Calling, MkWorkspace, MountOverlay, Unmount, RemoveUnmount, RmName, RmDirs,
           MkLayer, OpenArchive, List, CopyName, Finish
  <1>1. to \in mine
    BY DEF Workspace
  <1>2. ASSUME NEW v \in Users \ {u}
        PROVE  pc'[v] = pc[v] /\ at'[v] = at[v] /\ todo'[v] = todo[v] /\ result'[v] = result[v]
    BY DEF TypeOK, Operation, Goto, Return, MkWorkspace, MountOverlay, Unmount, RemoveUnmount,
           RmName, RmDirs, MkLayer, OpenArchive, List, CopyName, Finish
  <1>3. CASE MkWorkspace(u)
    BY <1>0, <1>1, <1>2, <1>3, PathAssumption DEF MkWorkspace, Frame, treeVars, Workspace
  <1>4. CASE MountOverlay(u)
    BY <1>0, <1>1, <1>2, <1>4 DEF MountOverlay, Frame, treeVars, TypeOK
  <1>5. CASE Unmount(u)
    BY <1>0, <1>1, <1>2, <1>5 DEF Unmount, Detached, Frame, treeVars, TypeOK
  <1>6. CASE RemoveUnmount(u)
    BY <1>0, <1>1, <1>2, <1>6 DEF RemoveUnmount, Detached, Frame, treeVars, TypeOK
  <1>7. CASE RmName(u)
    <2>1. to \in Containers /\ to \notin Layers
      BY <1>0, <1>7, CallPlaces, PathAssumption DEF RmName, Calling
    <2>2. \A q \in Places \ {to} : tree'[q] = tree[q]
      BY <1>7 DEF RmName, Replace, TypeOK
    <2> QED
      BY <1>0, <1>1, <1>2, <1>7, <2>2 DEF RmName, Frame
  <1>8. CASE RmDirs(u)
    <2>1. to \in Containers
      BY <1>0, <1>8, CallPlaces DEF RmDirs, Calling
    <2>2. \A p \in (Places \cup Dirs) \ mine : p \in made' <=> p \in made
      BY <1>8 DEF RmDirs
    <2>3. Layers \cap mine = {}
      BY <2>1, PathAssumption DEF Workspace
    <2>4. Layers \cap made \subseteq made'
      BY <2>2, <2>3
    <2>5. \A c \in Containers \ {to} : mounts'[c] = mounts[c]
      BY <1>8 DEF RmDirs, TypeOK
    <2>6. UNCHANGED tree /\ Changing(u, to)
      BY <1>8 DEF RmDirs, treeVars
    <2> QED
      BY <1>0, <1>1, <1>2, <2>2, <2>4, <2>5, <2>6 DEF Frame
  <1>9. CASE MkLayer(u)
    BY <1>0, <1>1, <1>2, <1>9 DEF MkLayer, Frame, treeVars
  <1>10. CASE OpenArchive(u)
    <2>1. to \notin Layers
      BY <1>0, <1>10, CallPlaces, PathAssumption DEF OpenArchive, Calling
    <2> QED
      BY <1>0, <1>1, <1>2, <1>10, <2>1 DEF OpenArchive, Frame, TypeOK
  <1>11. CASE List(u)
    <2>1. Call(u).op = "diff" => to \in Layers
      BY <1>0, CallPlaces
    <2> QED
      BY <1>0, <1>1, <1>2, <1>11, <2>1 DEF List, Frame, treeVars
  <1>12. CASE CopyName(u)
    <2>1. \A q \in Places \ {to} : tree'[q] = tree[q]
      BY <1>0, <1>12, TransferEffect DEF CopyName, Calling, TypeOK, treeVars
    <2> QED
      BY <1>0, <1>1, <1>2, <1>12, <2>1 DEF CopyName, Frame
  <1>13. CASE Finish(u)
    <2>1. Call(u).op = "export" => to \in Archives
      BY <1>0, CallPlaces
    <2> QED
      BY <1>0, <1>1, <1>2, <1>13, <2>1 DEF Finish, Frame, treeVars
  <1> QED
    BY <1>3, <1>4, <1>5, <1>6, <1>7, <1>8, <1>9, <1>10, <1>11, <1>12, <1>13 DEF Operation

\* Outside of the calls only containers change anything: their own place.
LEMMA ContainerFrame ==
  ASSUME TypeOK, LayersShare, NEW c \in Containers,
         StartContainer(c) \/ ExitContainer(c) \/ Write(c) \/ Delete(c)
  PROVE  /\ tree' \in [Places -> [Names -> Content]] /\ LayersShare'
         /\ UNCHANGED <<userVars, made, mounts>>
         /\ \A q \in Places \ {c} : tree'[q] = tree[q]
         /\ \/ disturbed' = disturbed \cup Disturbs(c, {})
            \/ UNCHANGED tree /\ disturbed' = disturbed
  <1>1. c \in Places /\ \A f : SameFile(c, f) = {c}
    BY SameFileType, PathAssumption
  <1>2. CASE StartContainer(c) \/ ExitContainer(c)
    BY <1>2 DEF StartContainer, ExitContainer, treeVars, TypeOK, LayersShare
  <1>3. CASE Write(c)
    <2>1. PICK f \in Names, x \in Written :
            IF tree[c][f] \in Data THEN WriteInPlace(c, f, x) ELSE Replace(c, f, x)
      BY <1>3 DEF Write
    <2>2. x \in Content
      BY TreeAssumption DEF Content
    <2> QED
      BY <1>1, <1>3, <2>1, <2>2, ReplaceEffect, WriteInPlaceEffect DEF Write
  <1>4. CASE Delete(c)
    <2>1. PICK f \in Names : \E x \in {Absent, Whiteout} : Replace(c, f, x)
      BY <1>4 DEF Delete
    <2> QED
      BY <1>1, <1>4, <2>1, ReplaceEffect DEF Delete, Content
  <1> QED
    BY <1>2, <1>3, <1>4

----------------------------------------------------------------------------
(* Types *)

\* The trees and their links after an operation.
LEMMA OperationFiles ==
  ASSUME TypeOK, LayersShare, NEW u \in Users, Operation(u)
  PROVE  tree' \in [Places -> [Names -> Content]] /\ LayersShare'
  <1>0. Busy(u) /\ Call(u).to \in Places
    BY OperationFrame, CallPlaces DEF Frame
  <1>1. CASE RmName(u)
    BY <1>0, <1>1, ReplaceEffect DEF RmName, TypeOK, Content
  <1>2. CASE OpenArchive(u)
    BY <1>2 DEF OpenArchive, TypeOK, LayersShare, EmptyTree, Content
  <1>3. CASE CopyName(u)
    BY <1>0, <1>3, TransferEffect DEF CopyName, Calling, TypeOK, LayersShare, treeVars
  <1>4. CASE UNCHANGED treeVars
    BY <1>4 DEF treeVars, TypeOK, LayersShare
  <1> QED
    BY <1>1, <1>2, <1>3, <1>4
    DEF Operation, MkWorkspace, MountOverlay, Unmount, RemoveUnmount, RmDirs, MkLayer, List, Finish

\* A mount makes an overlay of the list of layers, or of its beginning.
LEMMA OverlayType ==
  ASSUME NEW c \in Containers
  PROVE  /\ [lower |-> Lower(c), upper |-> "rw"] \in Overlays
         /\ ~(Len(Lower(c)) <= Room)
              => [lower |-> SubSeq(Lower(c), 1, Room), upper |-> "ro"] \in Overlays
  <1>1. Lower(c) \in Seq(Layers) /\ Len(Lower(c)) \in Nat /\ Room \in Nat
    BY LowerIsImage, TreeAssumption
  <1>2. ~(Len(Lower(c)) <= Room) => SubSeq(Lower(c), 1, Room) \in Seq(Layers)
    <2> SUFFICES ASSUME ~(Len(Lower(c)) <= Room) PROVE SubSeq(Lower(c), 1, Room) \in Seq(Layers)
      OBVIOUS
    <2>1. \A i \in 1..Room : Lower(c)[i] \in Layers
      BY <1>1, LenProperties, ElementOfSeq
    <2> QED
      BY <1>1, <2>1, SubSeqProperties
  <1>3. \A s \in Seq(Layers) :
            [lower |-> s, upper |-> "rw"] \in Overlays /\ [lower |-> s, upper |-> "ro"] \in Overlays
    BY DEF Overlays
  <1> QED
    BY <1>1, <1>2, <1>3

\* The overlays of a list that have lost their upper directory.
Orphaned(ms, c) ==
    [i \in DOMAIN ms |-> IF tree[c] = EmptyTree /\ ms[i].upper = "rw" THEN [ms[i] EXCEPT !.upper = "gone"] ELSE ms[i]]

LEMMA OrphanedType ==
  ASSUME NEW ms \in Seq(Overlays), NEW c
  PROVE  /\ Orphaned(ms, c) \in Seq(Overlays)
         /\ Len(Orphaned(ms, c)) = Len(ms) /\ DOMAIN Orphaned(ms, c) = DOMAIN ms
         /\ \A i \in DOMAIN ms :
                Orphaned(ms, c)[i].upper = "rw" => Orphaned(ms, c)[i] = ms[i]
  <1>1. DOMAIN ms = 1..Len(ms) /\ Len(ms) \in Nat
    BY LenProperties
  <1>2. \A i \in 1..Len(ms) :
            /\ ms[i] \in Overlays
            /\ [ms[i] EXCEPT !.upper = "gone"] \in Overlays
            /\ [ms[i] EXCEPT !.upper = "gone"].upper # "rw"
    <2>1. \A i \in 1..Len(ms) : ms[i] \in Overlays
      BY <1>1, ElementOfSeq
    <2>2. \A m \in Overlays : /\ [m EXCEPT !.upper = "gone"] \in Overlays
                              /\ [m EXCEPT !.upper = "gone"].upper # "rw"
      BY DEF Overlays
    <2> QED
      BY <2>1, <2>2
  <1>3. \A i \in 1..Len(ms) :
            /\ Orphaned(ms, c)[i] \in Overlays
            /\ Orphaned(ms, c)[i].upper = "rw" => Orphaned(ms, c)[i] = ms[i]
    BY <1>1, <1>2 DEF Orphaned
  <1>4. Orphaned(ms, c) = [i \in 1..Len(ms) |-> Orphaned(ms, c)[i]]
    BY <1>1 DEF Orphaned
  <1>5. Orphaned(ms, c) \in Seq(Overlays)
    BY <1>1, <1>3, <1>4, IsASeq
  <1>6. DOMAIN Orphaned(ms, c) = 1..Len(ms)
    BY <1>1 DEF Orphaned
  <1> QED
    BY <1>1, <1>3, <1>5, <1>6, LenProperties

LEMMA RmDirsMounts ==
  ASSUME NEW u \in Users, RmDirs(u), NEW c, c = Call(u).to
  PROVE  /\ mounts' = [mounts EXCEPT ![c] = Orphaned(mounts[c], c)]
         /\ inside' = [inside EXCEPT ![c] = Orphaned(inside[c], c)]
  BY DEF RmDirs, Orphaned

LEMMA DetachedType ==
  ASSUME TypeOK, NEW c \in Containers, Detached(c)
  PROVE  mounts' \in [Containers -> Seq(Overlays)]
  BY HeadTailProperties, EmptySeq DEF Detached, TypeOK

\* The lists of overlays after a step.
LEMMA OperationMounts ==
  ASSUME TypeOK, NEW u \in Users, Operation(u)
  PROVE  /\ mounts' \in [Containers -> Seq(Overlays)]
         /\ inside' \in [Containers -> Seq(Overlays)]
  <1> DEFINE c == Call(u).to
  <1>1. CASE MountOverlay(u)
    <2>1. c \in Containers
      BY <1>1, CallPlaces DEF MountOverlay, Calling
    <2>2. CASE UNCHANGED mounts
      BY <1>1, <2>2 DEF MountOverlay, TypeOK
    <2>3. CASE \E m \in Overlays : mounts' = [mounts EXCEPT ![c] = <<m>> \o @]
      <3>1. \A m \in Overlays : <<m>> \o mounts[c] \in Seq(Overlays)
        BY <2>1, ConcatProperties DEF TypeOK
      <3> QED
        BY <1>1, <2>3, <3>1 DEF MountOverlay, TypeOK
    <2> QED
      BY <1>1, <2>1, <2>2, <2>3, OverlayType DEF MountOverlay
  <1>2. CASE RmDirs(u)
    <2>1. c \in Containers
      BY <1>2, CallPlaces DEF RmDirs, Calling
    <2>2. /\ mounts' = [mounts EXCEPT ![c] = Orphaned(mounts[c], c)]
          /\ inside' = [inside EXCEPT ![c] = Orphaned(inside[c], c)]
      BY <1>2, RmDirsMounts
    <2> QED
      BY <2>1, <2>2, OrphanedType DEF TypeOK
  <1>3. CASE Unmount(u) \/ RemoveUnmount(u)
    <2>1. c \in Containers
      BY <1>3, CallPlaces DEF Unmount, RemoveUnmount, Calling
    <2> QED
      BY <1>3, <2>1, DetachedType DEF Unmount, RemoveUnmount, TypeOK
  <1>4. CASE UNCHANGED <<mounts, inside>>
    BY <1>4 DEF TypeOK
  <1> QED
    BY <1>1, <1>2, <1>3, <1>4
    DEF Operation, MkWorkspace, RmName, MkLayer, OpenArchive, List, CopyName, Finish

\* Where the users are after an operation.
LEMMA OperationUser ==
  ASSUME TypeOK, NEW u \in Users, Operation(u)
  PROVE  /\ pc' \in [Users -> Labels] /\ todo' \in [Users -> SUBSET Names]
         /\ result' \in [Users -> {"none", "ok", "error"}]
         /\ at' = at \/ at' = [at EXCEPT ![u] = @ + 1]
  <1>1. /\ pc' \in [Users -> Labels]
        /\ at' = at \/ at' = [at EXCEPT ![u] = @ + 1]
        /\ result' \in [Users -> {"none", "ok", "error"}]
    <2>1. CASE UNCHANGED <<pc, at, result>>
      BY <2>1 DEF TypeOK
    <2>2. CASE \E label \in Labels : Goto(u, label)
      BY <2>2 DEF Goto, TypeOK
    <2>3. CASE \E r \in {"ok", "error"} : Return(u, r)
      BY <2>3 DEF Return, TypeOK, Labels
    <2>4. \/ UNCHANGED <<pc, at, result>>
          \/ \E label \in Labels : Goto(u, label)
          \/ \E r \in {"ok", "error"} : Return(u, r)
      BY DEF Labels, Operation, MkWorkspace, MountOverlay, Unmount, RemoveUnmount, RmName,
             RmDirs, MkLayer, OpenArchive, List, CopyName, Finish
    <2> QED
      BY <2>1, <2>2, <2>3, <2>4
  <1>2. todo' \in [Users -> SUBSET Names]
    <2>1. CASE List(u)
      <3>1. \A p : Present(p) \subseteq Names
        BY DEF Present
      <3>2. todo' = todo \/ \E S \in SUBSET Names : todo' = [todo EXCEPT ![u] = S]
        <4>1. CASE Call(u).op \in {"create", "commit"}
          <5>1. (IF Call(u).to \in made THEN Present(Call(u).from) \ Hidden ELSE {}) \in SUBSET Names
            BY <3>1
          <5> QED
            BY <2>1, <4>1, <5>1 DEF List
        <4>2. CASE Call(u).op \notin {"create", "commit"}
          <5>1. (IF Call(u).op = "diff" THEN Names ELSE Present(Call(u).from)) \in SUBSET Names
            BY <3>1
          <5> QED
            BY <2>1, <4>2, <5>1 DEF List
        <4> QED
          BY <4>1, <4>2
      <3> QED
        BY <3>2 DEF TypeOK
    <2>2. CASE RmName(u) \/ CopyName(u)
      BY <2>2 DEF RmName, CopyName, TypeOK
    <2>3. CASE RemoveUnmount(u)
      BY <2>3 DEF RemoveUnmount, TypeOK
    <2>4. CASE Finish(u)
      BY <2>4 DEF Finish, TypeOK
    <2>5. CASE UNCHANGED todo
      BY <2>5 DEF TypeOK
    <2> QED
      BY <2>1, <2>2, <2>3, <2>4, <2>5
      DEF Operation, MkWorkspace, MountOverlay, Unmount, RmDirs, MkLayer, OpenArchive
  <1> QED
    BY <1>1, <1>2

LEMMA TypeNext == TypeOK /\ LayersShare /\ [Next \/ Terminated]_vars => TypeOK' /\ LayersShare'
  <1> SUFFICES ASSUME TypeOK, LayersShare, [Next \/ Terminated]_vars PROVE TypeOK' /\ LayersShare'
    OBVIOUS
  <1>1. ASSUME NEW u \in Users, Operation(u) PROVE TypeOK' /\ LayersShare'
    <2>1. Frame(u) /\ Busy(u)
      BY <1>1, OperationFrame DEF Frame
    <2>2. at' \in [Users -> Nat] /\ \A v \in Users : at'[v] \in 1..Len(Script[v]) + 1
      <3>1. at \in [Users -> Nat] /\ \A v \in Users : at[v] \in 1..Len(Script[v]) + 1
        BY DEF TypeOK
      <3>2. at[u] \in 1..Len(Script[u]) /\ Len(Script[u]) \in Nat
        BY <2>1, CallType
      <3>3. at' = at \/ at' = [at EXCEPT ![u] = at[u] + 1]
        BY <1>1, OperationUser
      <3> QED
        BY <3>1, <3>2, <3>3
    <2>3. made' \subseteq Places \cup Dirs
      <3>1. Call(u).to \in Places /\ Workspace(Call(u).to) \subseteq Places \cup Dirs
        BY <2>1, CallPlaces DEF Workspace
      <3> QED
        BY <1>1, <2>1, <3>1 DEF TypeOK, Operation, MkWorkspace, MountOverlay, Unmount, RemoveUnmount,
           RmName, RmDirs, MkLayer, OpenArchive, List, CopyName, Finish
    <2>4. disturbed' \subseteq Users
      BY <2>1 DEF Frame, Changing, Quiet, Disturbs, TypeOK
    <2>5. /\ pc' \in [Users -> Labels] /\ todo' \in [Users -> SUBSET Names]
          /\ result' \in [Users -> {"none", "ok", "error"}]
      BY <1>1, OperationUser
    <2>6. tree' \in [Places -> [Names -> Content]] /\ LayersShare'
      BY <1>1, OperationFiles
    <2>7. mounts' \in [Containers -> Seq(Overlays)] /\ inside' \in [Containers -> Seq(Overlays)]
      BY <1>1, OperationMounts
    <2>8. LayersShare' => links' \subseteq Names \X SUBSET Places
      BY DEF LayersShare
    <2> QED
      BY <2>2, <2>3, <2>4, <2>5, <2>6, <2>7, <2>8 DEF TypeOK
  <1>2. ASSUME NEW c \in Containers, StartContainer(c) \/ ExitContainer(c) \/ Write(c) \/ Delete(c)
        PROVE  TypeOK' /\ LayersShare'
    <2>1. inside' \in [Containers -> Seq(Overlays)]
      <3>1. \A m \in Overlays : <<m>> \in Seq(Overlays)
        OBVIOUS
      <3>2. mounts[c] # <<>> => Head(mounts[c]) \in Overlays
        BY HeadTailProperties DEF TypeOK
      <3>3. <<>> \in Seq(Overlays)
        BY EmptySeq
      <3> QED
        BY <1>2, <3>1, <3>2, <3>3 DEF StartContainer, ExitContainer, Write, Delete, TypeOK
    <2>2. disturbed' \subseteq Users
      BY <1>2, ContainerFrame DEF Disturbs, TypeOK
    <2>3. tree' \in [Places -> [Names -> Content]] /\ LayersShare'
      BY <1>2, ContainerFrame
    <2>4. UNCHANGED <<pc, at, todo, result, made, mounts>>
      BY <1>2, ContainerFrame DEF userVars
    <2>5. LayersShare' => links' \subseteq Names \X SUBSET Places
      BY DEF LayersShare
    <2> QED
      BY <2>1, <2>2, <2>3, <2>4, <2>5 DEF TypeOK
  <1>3. CASE UNCHANGED vars
    BY <1>3 DEF vars, TypeOK, LayersShare
  <1> QED
    BY <1>1, <1>2, <1>3 DEF Next, Terminated

LEMMA TypeInit == Init => TypeOK /\ LayersShare
  <1> SUFFICES ASSUME Init PROVE TypeOK /\ LayersShare
    OBVIOUS
  <1>1. \A u \in Users : 1 \in 1..Len(Script[u]) + 1
    BY ScriptAssumption, LenProperties
  <1>2. EmptyTree \in [Names -> Content]
    BY DEF EmptyTree, Content
  <1>3. tree \in [Places -> [Names -> Content]]
    BY <1>2, TreeAssumption DEF Init
  <1>4. made \subseteq Places
    BY TreeAssumption DEF Init
  <1>5. mounts \in [Containers -> Seq(Overlays)] /\ inside \in [Containers -> Seq(Overlays)]
    BY EmptySeq DEF Init
  <1> QED
    BY <1>1, <1>3, <1>4, <1>5 DEF Init, TypeOK, Labels, LayersShare

\* Every variable keeps its type, and only layers share files.
THEOREM TypeCorrect == Spec => [](TypeOK /\ LayersShare)
  BY TypeInit, TypeNext, PTL DEF Spec

\* A layer changes only in a step of a call that has it as its target, although
\* layers share files through the hard links of rsync and containers run on them
\* (all functions of storage.c; docs/ARCHITECTURE.md:326).
THEOREM LayersKeptHolds == Spec => LayersKept
  <1> DEFINE Kept == \A l \in Layers : tree'[l] # tree[l] =>
                        \E u \in Users : /\ Busy(u) /\ Call(u).to = l
                                         /\ <<pc[u], todo[u], at[u]>>' # <<pc[u], todo[u], at[u]>>
  <1>1. ASSUME TypeOK, LayersShare, [Next \/ Terminated]_vars, NEW l \in Layers, tree'[l] # tree[l]
        PROVE  \E u \in Users : /\ Busy(u) /\ Call(u).to = l
                                /\ <<pc[u], todo[u], at[u]>>' # <<pc[u], todo[u], at[u]>>
    <2>1. ASSUME NEW c \in Containers, StartContainer(c) \/ ExitContainer(c) \/ Write(c) \/ Delete(c)
          PROVE  FALSE
      <3>1. l \in Places \ {c}
        BY PathAssumption
      <3> QED
        BY <1>1, <2>1, <3>1, ContainerFrame
    <2>2. ~UNCHANGED vars
      BY <1>1 DEF vars
    <2>3. PICK u \in Users : Operation(u)
      BY <1>1, <2>1, <2>2 DEF Next, Terminated
    <2>4. Busy(u) /\ Call(u).to = l
      BY <1>1, <2>3, OperationFrame DEF Frame
    <2>5. RmName(u) \/ OpenArchive(u) \/ CopyName(u)
      BY <1>1, <2>3 DEF Operation, MkWorkspace, MountOverlay, Unmount, RemoveUnmount, RmDirs,
                        MkLayer, List, Finish, treeVars
    <2>6. todo'[u] # todo[u] \/ pc'[u] # pc[u]
      BY <1>1, <2>5 DEF RmName, OpenArchive, CopyName, Calling, Goto, TypeOK
    <2> QED
      BY <2>4, <2>6
  <1>2. TypeOK /\ LayersShare /\ [Next \/ Terminated]_vars => [Kept]_vars
    BY <1>1
  <1> HIDE DEF Kept
  <1>3. Spec => [][Kept]_vars
    BY <1>2, TypeCorrect, PTL DEF Spec
  <1> QED
    BY <1>3 DEF Kept, LayersKept

----------------------------------------------------------------------------
(* What a container sees *)

LEMMA LeastElement ==
  ASSUME NEW S \in SUBSET Nat, S # {}
  PROVE  \E k \in S : \A j \in S : k <= j
  <1>1. PICK k \in S : \A j \in S : <<j, k>> \notin OpToRel(<, Nat)
    BY NatLessThanWellFounded, WFMin
  <1>2. ASSUME NEW j \in S, j < k PROVE FALSE
    <2>1. <<j, k>> \in Nat \X Nat /\ <<j, k>>[1] < <<j, k>>[2]
      BY <1>2
    <2>2. <<j, k>> \in OpToRel(<, Nat)
      BY <2>1 DEF OpToRel
    <2> QED
      BY <1>1, <2>2
  <1>3. \A j \in S : k <= j
    BY <1>2
  <1> QED
    BY <1>3

LEMMA LeastOf ==
  ASSUME NEW S \in SUBSET Nat, NEW k \in S, \A j \in S : k <= j
  PROVE  Min(S) = k
  <1>1. \A x \in S : (\A y \in S : x <= y) => x = k
    OBVIOUS
  <1> QED
    BY <1>1 DEF Min

LEMMA GreatestOf ==
  ASSUME NEW S \in SUBSET Nat, NEW k \in S, \A j \in S : j <= k
  PROVE  Max(S) = k
  <1>1. \A x \in S : (\A y \in S : x >= y) => x = k
    OBVIOUS
  <1> QED
    BY <1>1 DEF Max

\* The first hit from the top of the list is the last one in the order of the
\* image, with the container's own directory above both.
LEMMA WholeList ==
  ASSUME NEW c \in Containers, NEW m, m.upper = "rw", m.lower = Lower(c), NEW f \in Names
  PROVE  Seen(c, m, f) = Applied(Append(ImageOf[c], c), f)
  <1> DEFINE s == ImageOf[c]
             n == Len(s)
             all == Append(s, c)
             low == Having(Lower(c), f)
             having == Having(all, f)
  <1>1. /\ s \in Seq(Layers) /\ n \in Nat /\ DOMAIN s = 1..n /\ DOMAIN Lower(c) = 1..n
        /\ \A i \in 1..n : Lower(c)[i] = s[n - i + 1]
    BY LowerIsImage
  <1>2. DOMAIN all = 1..n + 1 /\ all[n + 1] = c /\ \A i \in 1..n : all[i] = s[i]
    <2>1. s \in Seq(Layers \cup Containers) /\ c \in Layers \cup Containers
      BY <1>1
    <2>2. /\ all \in Seq(Layers \cup Containers) /\ Len(all) = n + 1
          /\ \A i \in 1..n : all[i] = s[i]
          /\ all[n + 1] = c
      BY <2>1, AppendProperties
    <2> QED
      BY <2>2, LenProperties
  <1> HIDE DEF s, n, all
  <1>3. having = {i \in 1..n + 1 : tree[all[i]][f] # Absent}
    BY <1>2 DEF Having
  <1>4. low = {i \in 1..n : tree[Lower(c)[i]][f] # Absent}
    BY <1>1 DEF Having
  <1> HIDE DEF low, having
  <1>5. Applied(all, f) = IF having = {} THEN Absent ELSE Unhidden(tree[all[Max(having)]][f])
    BY DEF Applied, having
  <1>6. InLayers(Lower(c), f) = IF low = {} THEN Absent ELSE Unhidden(tree[Lower(c)[Min(low)]][f])
    BY DEF InLayers, low
  <1>7. CASE tree[c][f] # Absent
    <2>1. n + 1 \in having /\ having \in SUBSET Nat /\ \A j \in having : j <= n + 1
      BY <1>1, <1>2, <1>3, <1>7
    <2>2. Max(having) = n + 1
      BY <2>1, GreatestOf
    <2>3. Applied(all, f) = Unhidden(tree[c][f])
      BY <1>2, <1>5, <2>1, <2>2
    <2> QED
      BY <1>7, <2>3 DEF Seen, s, all
  <1>8. CASE tree[c][f] = Absent
    <2>1. Seen(c, m, f) = InLayers(Lower(c), f)
      BY <1>8 DEF Seen
    <2>2. \A i \in 1..n : i \in low <=> n - i + 1 \in having
      <3>1. ASSUME NEW i \in 1..n
            PROVE  n - i + 1 \in 1..n /\ all[n - i + 1] = Lower(c)[i]
        BY <1>1, <1>2
      <3> QED
        BY <1>1, <1>3, <1>4, <3>1
    <2>3. low \subseteq 1..n /\ having \subseteq 1..n
      <3>1. n + 1 \notin having
        BY <1>2, <1>3, <1>8
      <3> QED
        BY <1>1, <1>3, <1>4, <3>1
    <2>4. \A j \in having : n - j + 1 \in low
      <3>1. ASSUME NEW j \in having PROVE n - j + 1 \in 1..n /\ n - (n - j + 1) + 1 = j
        BY <1>1, <2>3
      <3> QED
        BY <2>2, <3>1
    <2>5. CASE low = {}
      <3>1. having = {}
        BY <2>4, <2>5
      <3> QED
        BY <1>5, <1>6, <2>1, <2>5, <3>1 DEF s, all
    <2>6. CASE low # {}
      <3>1. PICK k \in low : \A j \in low : k <= j
        <4>1. low \in SUBSET Nat
          BY <1>1, <2>3
        <4> QED
          BY <2>6, <4>1, LeastElement
      <3>2. Min(low) = k
        BY <1>1, <2>3, <3>1, LeastOf
      <3>3. n - k + 1 \in having
        BY <2>2, <2>3
      <3>4. \A j \in having : j <= n - k + 1
        <4>1. ASSUME NEW j \in having PROVE j <= n - k + 1
          <5>1. k <= n - j + 1 /\ j \in 1..n /\ k \in 1..n
            BY <2>3, <2>4, <3>1
          <5> QED
            BY <1>1, <5>1
        <4> QED
          BY <4>1
      <3>5. Max(having) = n - k + 1
        BY <1>1, <2>3, <3>3, <3>4, GreatestOf
      <3>6. all[n - k + 1] = Lower(c)[k]
        <4>1. k \in 1..n /\ n - k + 1 \in 1..n
          BY <1>1, <2>3
        <4> QED
          BY <1>1, <1>2, <4>1
      <3> QED
        BY <1>5, <1>6, <2>1, <2>6, <3>2, <3>3, <3>5, <3>6 DEF s, all
    <2> QED
      BY <2>5, <2>6
  <1> QED
    BY <1>7, <1>8

\* An overlay is put on top of the others.
LEMMA PushProperties ==
  ASSUME NEW ms \in Seq(Overlays), NEW m \in Overlays
  PROVE  /\ <<m>> \o ms \in Seq(Overlays)
         /\ Len(<<m>> \o ms) = Len(ms) + 1
         /\ \A i \in DOMAIN (<<m>> \o ms) :
              /\ i = 1 => (<<m>> \o ms)[i] = m
              /\ i # 1 => i - 1 \in DOMAIN ms /\ (<<m>> \o ms)[i] = ms[i - 1]
  <1>1. <<m>> \in Seq(Overlays) /\ Len(<<m>>) = 1 /\ <<m>>[1] = m
    OBVIOUS
  <1>2. Len(ms) \in Nat /\ DOMAIN ms = 1..Len(ms)
    BY LenProperties
  <1>3. /\ <<m>> \o ms \in Seq(Overlays) /\ Len(<<m>> \o ms) = 1 + Len(ms)
        /\ \A i \in 1..1 + Len(ms) : (<<m>> \o ms)[i] = IF i <= 1 THEN <<m>>[i] ELSE ms[i - 1]
    BY <1>1, ConcatProperties
  <1>4. DOMAIN (<<m>> \o ms) = 1..1 + Len(ms)
    BY <1>3, LenProperties
  <1>5. \A i \in 1..1 + Len(ms) : i # 1 => i - 1 \in 1..Len(ms) /\ ~(i <= 1)
    BY <1>2
  <1> QED
    BY <1>1, <1>2, <1>3, <1>4, <1>5

\* An overlay that can be written has all layers of the image below it.
OverlaysWhole ==
    \A c \in Containers : \A i \in DOMAIN mounts[c] :
        mounts[c][i].upper = "rw" => mounts[c][i].lower = Lower(c)

LEMMA OverlaysWholeNext ==
  TypeOK /\ LayersShare /\ OverlaysWhole /\ [Next \/ Terminated]_vars => OverlaysWhole'
  <1> SUFFICES ASSUME TypeOK, LayersShare, OverlaysWhole, [Next \/ Terminated]_vars
               PROVE  OverlaysWhole'
    OBVIOUS
  <1>1. CASE UNCHANGED mounts
    BY <1>1 DEF OverlaysWhole, Lower
  <1>2. ASSUME NEW u \in Users, Operation(u), mounts' # mounts
        PROVE  OverlaysWhole'
    <2> DEFINE c == Call(u).to
               Whole(ms) == \A i \in DOMAIN ms : ms[i].upper = "rw" => ms[i].lower = Lower(c)
    <2>1. c \in Containers /\ mounts[c] \in Seq(Overlays) /\ Len(mounts[c]) \in Nat
      <3>1. c \in Containers
        BY <1>2, CallPlaces
        DEF Operation, Calling, MkWorkspace, MountOverlay, Unmount, RemoveUnmount, RmName, RmDirs,
            MkLayer, OpenArchive, List, CopyName, Finish
      <3> QED
        BY <3>1, LenProperties DEF TypeOK
    <2>2. SUFFICES Whole(mounts'[c])
      BY <1>2, <2>1, OperationFrame DEF Frame, OverlaysWhole, Lower
    <2>3. Whole(mounts[c]) /\ DOMAIN mounts[c] = 1..Len(mounts[c])
      BY <2>1, LenProperties DEF OverlaysWhole
    <2>4. CASE MountOverlay(u)
      <3>1. PICK m \in Overlays :
                /\ mounts' = [mounts EXCEPT ![c] = <<m>> \o mounts[c]]
                /\ m.upper = "rw" => m.lower = Lower(c)
        <4>1. \/ mounts' = [mounts EXCEPT ![c] = <<[lower |-> Lower(c), upper |-> "rw"]>> \o mounts[c]]
              \/ /\ ~(Len(Lower(c)) <= Room)
                 /\ mounts' = [mounts EXCEPT ![c] =
                        <<[lower |-> SubSeq(Lower(c), 1, Room), upper |-> "ro"]>> \o mounts[c]]
          BY <1>2, <2>4 DEF MountOverlay
        <4> QED
          BY <2>1, <4>1, OverlayType
      <3>2. mounts'[c] = <<m>> \o mounts[c]
        BY <2>1, <3>1 DEF TypeOK
      <3>3. ASSUME NEW i \in DOMAIN mounts'[c], mounts'[c][i].upper = "rw"
            PROVE  mounts'[c][i].lower = Lower(c)
        <4>1. /\ i = 1 => mounts'[c][i] = m
              /\ i # 1 => i - 1 \in DOMAIN mounts[c] /\ mounts'[c][i] = mounts[c][i - 1]
          BY <2>1, <2>3, <3>2, <3>3, PushProperties
        <4> QED
          BY <2>3, <3>1, <3>3, <4>1
      <3> QED
        BY <3>3
    <2>5. CASE RmDirs(u)
      <3>1. mounts' = [mounts EXCEPT ![c] = Orphaned(mounts[c], c)]
        BY <2>5, RmDirsMounts
      <3>2. mounts'[c] = Orphaned(mounts[c], c)
        BY <2>1, <3>1 DEF TypeOK
      <3> QED
        BY <2>1, <2>3, <3>2, OrphanedType
    <2>6. CASE Unmount(u) \/ RemoveUnmount(u)
      <3>0. Detached(c)
        BY <1>2, <2>6 DEF Unmount, RemoveUnmount
      <3>1. mounts[c] # <<>>
        BY <1>2, <2>1, <3>0 DEF Detached, TypeOK
      <3>2. mounts'[c] = Tail(mounts[c])
        BY <2>1, <3>0, <3>1 DEF Detached, TypeOK
      <3>3. ASSUME NEW i \in DOMAIN mounts'[c]
            PROVE  i + 1 \in DOMAIN mounts[c] /\ mounts'[c][i] = mounts[c][i + 1]
        <4>1. /\ Tail(mounts[c]) \in Seq(Overlays) /\ Len(Tail(mounts[c])) = Len(mounts[c]) - 1
              /\ \A j \in 1..Len(Tail(mounts[c])) : Tail(mounts[c])[j] = mounts[c][j + 1]
          BY <2>1, <3>1, HeadTailProperties
        <4>2. i \in 1..Len(mounts[c]) - 1
          BY <3>2, <4>1, LenProperties
        <4> QED
          BY <2>1, <2>3, <3>2, <4>1, <4>2
      <3> QED
        BY <2>3, <3>3
    <2> QED
      BY <1>2, <2>4, <2>5, <2>6
      DEF Operation, MkWorkspace, RmName, MkLayer, OpenArchive, List, CopyName, Finish
  <1> QED
    BY <1>1, <1>2, ContainerFrame DEF Next, Terminated, vars

\* A container that can write sees its whole image, in the right order, under
\* its changes, whatever was mounted, removed and changed before
\* (storage_mount_overlay, its list lowerdir).
THEOREM WholeImageHolds == Spec => []WholeImage
  <1>1. Init => OverlaysWhole
    <2>1. DOMAIN <<>> = {}
      BY EmptySeq, LenProperties
    <2> QED
      BY <2>1 DEF Init, OverlaysWhole
  <1>2. OverlaysWhole => WholeImage
    BY WholeList DEF OverlaysWhole, WholeImage
  <1> QED
    BY <1>1, <1>2, TypeCorrect, OverlaysWholeNext, PTL DEF Spec

----------------------------------------------------------------------------
(* Calls that nobody disturbs *)

\* How a call gets where it is.
LEMMA Moves ==
  ASSUME TypeOK, NEW u \in Users, Operation(u)
  PROVE  /\ pc'[u] # "start" => at' = at /\ Call(u)' = Call(u) /\ Busy(u)' = Busy(u)
         /\ pc'[u] = "mount" => MkWorkspace(u)
         /\ pc'[u] = "rm" => RemoveUnmount(u) \/ RmName(u)
         /\ pc'[u] = "list" => MkLayer(u) \/ OpenArchive(u)
         /\ pc'[u] = "copy" => List(u) \/ CopyName(u)
  <1>1. CASE Goto(u, "mount") /\ MkWorkspace(u)
    BY <1>1 DEF Goto, TypeOK, Call, Busy
  <1>2. CASE Goto(u, "rm") /\ RemoveUnmount(u)
    BY <1>2 DEF Goto, TypeOK, Call, Busy
  <1>3. CASE Goto(u, "list") /\ (MkLayer(u) \/ OpenArchive(u))
    BY <1>3 DEF Goto, TypeOK, Call, Busy
  <1>4. CASE Goto(u, "copy") /\ List(u)
    BY <1>4 DEF Goto, TypeOK, Call, Busy
  <1>5. CASE RmName(u)
    BY <1>5 DEF RmName, Calling, Call, Busy
  <1>6. CASE CopyName(u)
    BY <1>6 DEF CopyName, Calling, Call, Busy
  <1>7. CASE \E r : Return(u, r)
    BY <1>7 DEF Return, TypeOK
  <1> QED
    BY <1>1, <1>2, <1>3, <1>4, <1>5, <1>6, <1>7
    DEF Operation, MkWorkspace, MountOverlay, Unmount, RemoveUnmount, RmDirs, MkLayer,
        OpenArchive, List, Finish

\* A user moves only in an operation of its own.
LEMMA OthersStay ==
  ASSUME TypeOK, LayersShare, [Next \/ Terminated]_vars, NEW v \in Users, ~Operation(v)
  PROVE  /\ pc'[v] = pc[v] /\ at'[v] = at[v] /\ todo'[v] = todo[v] /\ result'[v] = result[v]
         /\ Busy(v)' = Busy(v) /\ Call(v)' = Call(v)
  <1>1. pc'[v] = pc[v] /\ at'[v] = at[v] /\ todo'[v] = todo[v] /\ result'[v] = result[v]
    <2>1. CASE \E u \in Users : Operation(u)
      BY <2>1, OperationFrame DEF Frame
    <2>2. CASE \E c \in Containers :
                    StartContainer(c) \/ ExitContainer(c) \/ Write(c) \/ Delete(c)
      BY <2>2, ContainerFrame DEF userVars
    <2>3. CASE UNCHANGED vars
      BY <2>3 DEF vars
    <2> QED
      BY <2>1, <2>2, <2>3 DEF Next, Terminated
  <1> QED
    BY <1>1 DEF Busy, Call

\* A step of another, or of a container, that does not disturb the call of v
\* changes none of the places it uses.
Untouched(v) ==
    /\ v \notin disturbed
    /\ pc'[v] = pc[v] /\ at'[v] = at[v] /\ todo'[v] = todo[v]
    /\ Busy(v)' = Busy(v) /\ Call(v)' = Call(v)
    /\ \A p \in Places \cap Uses(v) : tree'[p] = tree[p]
    /\ \A c \in Containers \cap Uses(v) :
        /\ mounts'[c] = mounts[c]
        /\ \A d \in Workspace(c) : d \in made' <=> d \in made
    /\ \A p \in Sources : p \in made' <=> p \in made
    /\ Layers \cap made \subseteq made'

LEMMA Bystander ==
  ASSUME TypeOK, LayersShare, [Next \/ Terminated]_vars,
         NEW v \in Users, ~Operation(v), Busy(v), pc[v] # "start", v \notin disturbed'
  PROVE  Untouched(v)
  <1>1. ASSUME NEW u \in Users, Operation(u) PROVE Untouched(v)
    <2> DEFINE to == Call(u).to
    <2>1. Frame(u) /\ v # u
      BY <1>1, OperationFrame
    <2>2. /\ pc'[v] = pc[v] /\ at'[v] = at[v] /\ todo'[v] = todo[v]
          /\ Busy(v)' = Busy(v) /\ Call(v)' = Call(v)
      BY <2>1 DEF Frame, Busy, Call
    <2>3. v \notin disturbed
      BY <2>1 DEF Frame, Changing, Quiet
    <2>4. to \in Places /\ Call(u).to \notin Dirs
      BY <2>1, CallPlaces, PathAssumption DEF Frame
    <2>5. \A c \in Containers : c # to => Workspace(c) \cap Workspace(to) = {}
      BY <2>4, PathAssumption DEF Workspace, Dirs
    <2>6. \A p \in Sources : p \in made' <=> p \in made
      <3>1. Sources \cap Workspace(to) = {}
        <4>1. to \notin Sources
          BY <2>1, CallPlaces, PathAssumption DEF Frame
        <4> QED
          BY <4>1, PathAssumption DEF Workspace
      <3> QED
        BY <2>1, <3>1 DEF Frame
    <2>7. CASE to \notin Uses(v)
      BY <2>1, <2>2, <2>3, <2>5, <2>6, <2>7 DEF Frame, Untouched, Workspace
    <2>8. CASE to \in Uses(v)
      <3>1. ~Changing(u, to)
        BY <2>1, <2>8 DEF Changing, Disturbs
      <3>2. /\ UNCHANGED <<tree, mounts>>
            /\ made \subseteq made' /\ made' \subseteq made \cup Layers \cup Archives
        BY <2>1, <3>1 DEF Frame
      <3>3. \A c \in Containers : \A d \in Workspace(c) : d \in made' <=> d \in made
        BY <3>2, PathAssumption DEF Workspace
      <3> QED
        BY <2>2, <2>3, <2>6, <3>2, <3>3 DEF Untouched
    <2> QED
      BY <2>7, <2>8
  <1>2. ASSUME NEW c \in Containers, StartContainer(c) \/ ExitContainer(c) \/ Write(c) \/ Delete(c)
        PROVE  Untouched(v)
    <2>1. UNCHANGED <<pc, at, todo, made, mounts>>
      BY <1>2, ContainerFrame DEF userVars
    <2>2. CASE UNCHANGED tree /\ disturbed' = disturbed
      BY <2>1, <2>2 DEF Untouched, Busy, Call
    <2>3. CASE disturbed' = disturbed \cup Disturbs(c, {})
      <3>1. v \notin disturbed /\ c \notin Uses(v)
        BY <2>3 DEF Disturbs
      <3>2. \A p \in Places \cap Uses(v) : tree'[p] = tree[p]
        BY <1>2, <3>1, ContainerFrame
      <3> QED
        BY <2>1, <3>1, <3>2 DEF Untouched, Busy, Call
    <2> QED
      BY <1>2, <2>2, <2>3, ContainerFrame
  <1>3. CASE UNCHANGED vars
    BY <1>3 DEF vars, Untouched, Busy, Call
  <1> QED
    BY <1>1, <1>2, <1>3 DEF Next, Terminated

----------------------------------------------------------------------------
(* Mounting *)

\* A call that mounts, and that nobody disturbs, has made its workspace.
MountReady ==
    \A u \in Users :
        /\ Busy(u) /\ Call(u).op = "mount" /\ pc[u] = "mount"
        /\ u \notin disturbed /\ Faults[u] = {}
        => Workspace(Call(u).to) \subseteq made

LEMMA MountReadyNext ==
  TypeOK /\ LayersShare /\ MountReady /\ [Next \/ Terminated]_vars => MountReady'
  <1> SUFFICES ASSUME TypeOK, LayersShare, MountReady, [Next \/ Terminated]_vars,
                      NEW u \in Users, Busy(u)', (Call(u).op = "mount")', pc'[u] = "mount",
                      u \notin disturbed', Faults[u] = {}
               PROVE  (Workspace(Call(u).to) \subseteq made)'
    BY DEF MountReady
  <1>1. CASE Operation(u)
    <2>1. MkWorkspace(u) /\ Call(u)' = Call(u)
      BY <1>1, Moves
    <2> QED
      <3>1. made' = made \cup Workspace(Call(u).to)
        BY <2>1 DEF MkWorkspace
      <3>2. (Workspace(Call(u).to))' = Workspace(Call(u).to)
        BY <2>1 DEF Workspace
      <3> QED
        BY <3>1, <3>2
  <1>2. CASE ~Operation(u)
    <2>1. Busy(u) /\ pc[u] = "mount" /\ Call(u)' = Call(u)
      BY <1>2, OthersStay
    <2>2. Untouched(u) /\ Call(u).op = "mount"
      BY <1>2, <2>1, Bystander
    <2>3. Workspace(Call(u).to) \subseteq made
      BY <2>1, <2>2 DEF MountReady, Untouched
    <2>4. Call(u).to \in Containers \cap Uses(u)
      BY <2>1, <2>2, CallPlaces DEF Uses
    <2> QED
      BY <2>1, <2>2, <2>3, <2>4 DEF Untouched, Workspace
  <1> QED
    BY <1>1, <1>2

\* A call returns only in an operation of its own.
LEMMA ReturnIsOwn ==
  ASSUME TypeOK, LayersShare, [Next \/ Terminated]_vars, NEW u \in Users, NEW ops, NEW r,
         Returns(u, ops, r)
  PROVE  /\ Operation(u) /\ Busy(u) /\ Call(u).op \in ops /\ u \notin disturbed
         /\ at'[u] # at[u] /\ result'[u] = r
  <1>1. at[u] \in Nat /\ at'[u] = at[u] + 1
    BY DEF Returns, TypeOK
  <1>2. at'[u] # at[u]
    BY <1>1
  <1> QED
    BY <1>2, OthersStay DEF Returns

\* Mounting succeeds when the layers are there and fit, also in a workspace that
\* earlier calls have left half made (storage_mount_overlay).
THEOREM MountSucceedsHolds == Spec => MountSucceeds
  <1> DEFINE Succeeds ==
        \A u \in Users :
            /\ Returns(u, {"mount"}, "error") /\ Faults[u] = {}
            => LET c == Call(u).to IN
               Len(ImageOf[c]) > Room \/ ~(ToSet(ImageOf[c]) \subseteq made)
  <1>1. ASSUME TypeOK, LayersShare, MountReady, [Next \/ Terminated]_vars, NEW u \in Users,
               Returns(u, {"mount"}, "error"), Faults[u] = {}
        PROVE  \/ Len(ImageOf[Call(u).to]) > Room
               \/ ~(ToSet(ImageOf[Call(u).to]) \subseteq made)
    <2> DEFINE c == Call(u).to
    <2>1. /\ Operation(u) /\ Busy(u) /\ Call(u).op = "mount" /\ u \notin disturbed
          /\ at'[u] # at[u]
      BY <1>1, ReturnIsOwn
    <2>2. MountOverlay(u)
      <3>1. MkWorkspace(u) \/ MountOverlay(u)
        BY <2>1 DEF Operation, Calling, Unmount, RemoveUnmount, RmName, RmDirs, MkLayer,
                    OpenArchive, List, CopyName, Finish
      <3> QED
        BY <2>1, <3>1 DEF MkWorkspace, Goto
    <2>3. c \in Containers /\ pc[u] = "mount"
      BY <1>1, <2>1, <2>2, CallPlaces DEF MountOverlay, Calling
    <2>4. Workspace(c) \subseteq made
      BY <1>1, <2>1, <2>3 DEF MountReady
    <2>5. result'[u] = "error" /\ result \in [Users -> {"none", "ok", "error"}]
      BY <1>1 DEF Returns, TypeOK
    <2>6. ~Return(u, "ok")
      BY <2>5 DEF Return
    <2>7. ~(Len(Lower(c)) <= Room /\ ToSet(Lower(c)) \cup Workspace(c) \subseteq made)
      BY <1>1, <2>2, <2>6 DEF MountOverlay, Fails
    <2> QED
      BY <2>3, <2>4, <2>7, LowerIsImage, TreeAssumption
  <1>2. TypeOK /\ LayersShare /\ MountReady /\ [Next \/ Terminated]_vars => [Succeeds]_vars
    BY <1>1
  <1>3. Init => MountReady
    BY DEF Init, MountReady
  <1> HIDE DEF Succeeds
  <1>4. Spec => [][Succeeds]_vars
    BY <1>2, <1>3, TypeCorrect, MountReadyNext, PTL DEF Spec
  <1> QED
    BY <1>4 DEF Succeeds, MountSucceeds

----------------------------------------------------------------------------
(* Copying *)

\* What a copy that nobody disturbs has achieved: all but the names left to do.
CopiedSoFar(u) ==
    LET from == Call(u).from  to == Call(u).to
        Same(f) == tree[to][f] = tree[from][f] IN
    /\ Call(u).op \in {"diff", "export"} => \A f \in Names \ todo[u] : Same(f)
    /\ Call(u).op = "import" =>
           \A f \in Names \ todo[u] : tree[from][f] # Absent => Same(f)
    /\ Call(u).op \in {"create", "commit"} /\ Faults[u] = {} =>
           \A f \in Names \ (todo[u] \cup Hidden) :
               from \in made /\ tree[from][f] # Absent => Same(f) \/ tree[to][f] = Whiteout

Copying ==
    \A u \in Users : Busy(u) /\ u \notin disturbed =>
        /\ pc[u] = "list" /\ Call(u).op = "export" => tree[Call(u).to] = EmptyTree
        /\ pc[u] = "list" /\ Call(u).op \in {"create", "commit"} /\ Faults[u] = {} =>
               Call(u).to \in made
        /\ pc[u] = "copy" => CopiedSoFar(u)

\* What an operation of u does for the copy it makes.
LEMMA CopyStep ==
  ASSUME TypeOK, LayersShare, Copying, NEW u \in Users, CopyName(u), u \notin disturbed'
  PROVE  CopiedSoFar(u)'
  <1> DEFINE from == Call(u).from
             to == Call(u).to
  <1>1. /\ Busy(u) /\ pc[u] = "copy" /\ Call(u)' = Call(u) /\ u \notin disturbed
        /\ Call(u).op \in {"create", "commit", "diff", "export", "import"}
        /\ UNCHANGED made
    BY DEF CopyName, Calling, Changing, Call, TypeOK
  <1>2. CopiedSoFar(u)
    BY <1>1 DEF Copying
  <1>3. PICK f \in todo[u] :
            /\ todo' = [todo EXCEPT ![u] = @ \ {f}]
            /\ \/ Transfer(u, f)
               \/ /\ Call(u).op \in {"create", "commit"} /\ Faults[u] # {}
                  /\ UNCHANGED treeVars
    BY DEF CopyName, Fails
  <1>4. f \in Names /\ todo'[u] = todo[u] \ {f} /\ to \in Places /\ from \in Places
    BY <1>1, <1>3, CallPlaces DEF TypeOK
  <1>5. CASE Transfer(u, f)
    <2>1. /\ \A g \in Names \ {f} : tree'[to][g] = tree[to][g]
          /\ \A q \in Places \ {to} : tree'[q] = tree[q]
          /\ \/ tree'[to][f] = tree[from][f]
             \/ Call(u).op \in {"create", "commit", "import"} /\ tree[from][f] = Absent
             \/ Call(u).op \in {"create", "commit"} /\ tree'[to][f] = Whiteout
      BY <1>1, <1>4, <1>5, TransferEffect
    <2>2. CASE from = to
      <3>1. Call(u).op = "diff"
        BY <1>1, <2>2, CallPlaces, CallType, CallShape, PathAssumption
      <3> QED
        BY <1>1, <2>2, <3>1 DEF CopiedSoFar
    <2>3. CASE from # to
      <3>1. tree'[from] = tree[from]
        BY <1>4, <2>1, <2>3
      <3> QED
        BY <1>1, <1>2, <1>4, <2>1, <3>1 DEF CopiedSoFar
    <2> QED
      BY <2>2, <2>3
  <1>6. CASE /\ Call(u).op \in {"create", "commit"} /\ Faults[u] # {}
             /\ UNCHANGED treeVars
    BY <1>1, <1>6 DEF CopiedSoFar
  <1> QED
    BY <1>3, <1>5, <1>6

LEMMA ListStep ==
  ASSUME TypeOK, LayersShare, Copying, NEW u \in Users, List(u), pc'[u] = "copy", u \notin disturbed'
  PROVE  CopiedSoFar(u)'
  <1> DEFINE from == Call(u).from
             to == Call(u).to
  <1>1. /\ Busy(u) /\ pc[u] = "list" /\ Call(u)' = Call(u) /\ u \notin disturbed
        /\ Call(u).op \in {"create", "commit", "diff", "export", "import"}
        /\ UNCHANGED tree
    BY Moves DEF List, Calling, Quiet, Operation, treeVars
  <1>2. ~Return(u, "error")
    BY DEF Return, TypeOK
  <1>3. /\ Call(u).op \in {"create", "commit"} =>
              todo' = [todo EXCEPT ![u] = IF to \in made THEN Present(from) \ Hidden ELSE {}]
        /\ Call(u).op \in {"diff", "export", "import"} =>
              /\ from \in made
              /\ todo' = [todo EXCEPT ![u] = IF Call(u).op = "diff" THEN Names ELSE Present(from)]
    BY <1>2 DEF List
  <1>4. CASE Call(u).op = "diff"
    <2>1. todo'[u] = Names
      BY <1>3, <1>4 DEF TypeOK
    <2> QED
      BY <1>1, <1>4, <2>1 DEF CopiedSoFar
  <1>5. CASE Call(u).op \in {"export", "import"}
    <2>1. todo'[u] = Present(from) /\ from \in made
      BY <1>3, <1>5 DEF TypeOK
    <2>2. \A f \in Names \ todo'[u] : tree[from][f] = Absent
      BY <2>1 DEF Present
    <2>3. Call(u).op = "export" => tree[to] = EmptyTree
      BY <1>1 DEF Copying
    <2> QED
      BY <1>1, <1>5, <2>2, <2>3 DEF CopiedSoFar, EmptyTree
  <1>6. CASE Call(u).op \in {"create", "commit"}
    <2>1. UNCHANGED made
      BY <1>6 DEF List
    <2>2. CASE Faults[u] = {}
      <3>1. to \in made
        BY <1>1, <1>6, <2>2 DEF Copying
      <3>2. todo'[u] = Present(from) \ Hidden
        BY <1>3, <1>6, <3>1 DEF TypeOK
      <3>3. \A f \in Names \ (todo'[u] \cup Hidden) : from \in made => tree[from][f] = Absent
        BY <3>2 DEF Present
      <3> QED
        BY <1>1, <1>6, <2>1, <3>3 DEF CopiedSoFar
    <2>3. CASE Faults[u] # {}
      BY <1>1, <1>6, <2>3 DEF CopiedSoFar
    <2> QED
      BY <2>2, <2>3
  <1> QED
    BY <1>1, <1>4, <1>5, <1>6

LEMMA CopyingNext ==
  TypeOK /\ LayersShare /\ Copying /\ [Next \/ Terminated]_vars => Copying'
  <1> SUFFICES ASSUME TypeOK, LayersShare, Copying, [Next \/ Terminated]_vars,
                      NEW u \in Users, Busy(u)', u \notin disturbed'
               PROVE  /\ pc'[u] = "list" /\ Call(u)'.op = "export" => tree'[Call(u)'.to] = EmptyTree
                      /\ pc'[u] = "list" /\ Call(u)'.op \in {"create", "commit"} /\ Faults[u] = {} =>
                             Call(u)'.to \in made'
                      /\ pc'[u] = "copy" => CopiedSoFar(u)'
    BY DEF Copying, EmptyTree
  <1>1. CASE Operation(u)
    <2>1. ASSUME pc'[u] = "list", Call(u)'.op = "export" PROVE tree'[Call(u)'.to] = EmptyTree
      <3>1. OpenArchive(u) /\ Call(u)' = Call(u) /\ Call(u).to \in Places
        BY <1>1, <2>1, Moves, OperationFrame, CallPlaces DEF MkLayer, Calling, Frame
      <3> QED
        BY <3>1 DEF OpenArchive, TypeOK
    <2>2. ASSUME pc'[u] = "list", Call(u)'.op \in {"create", "commit"}, Faults[u] = {}
          PROVE  Call(u)'.to \in made'
      <3>1. MkLayer(u) /\ Call(u)' = Call(u)
        BY <1>1, <2>2, Moves DEF OpenArchive, Calling
      <3> QED
        BY <2>2, <3>1 DEF MkLayer, Fails
    <2>3. pc'[u] = "copy" => CopiedSoFar(u)'
      BY <1>1, Moves, CopyStep, ListStep
    <2> QED
      BY <2>1, <2>2, <2>3
  <1>2. CASE ~Operation(u) /\ pc'[u] \in {"list", "copy"}
    <2>1. Busy(u) /\ pc[u] = pc'[u] /\ Call(u)' = Call(u)
      BY <1>2, OthersStay
    <2>2. Untouched(u)
      BY <1>2, <2>1, Bystander
    <2>3. CASE Call(u).op = "export" /\ pc[u] = "list"
      <3>1. Call(u).to \in Places \cap Uses(u)
        BY <2>1, <2>3, CallPlaces DEF Uses
      <3> QED
        BY <2>1, <2>2, <2>3, <3>1 DEF Copying, Untouched
    <2>4. CASE Call(u).op \in {"create", "commit"} /\ pc[u] = "list"
      <3>1. Call(u).to \in Layers
        BY <2>1, <2>4, CallPlaces
      <3> QED
        BY <2>1, <2>2, <2>4, <3>1 DEF Copying, Untouched
    <2>5. CASE pc[u] = "copy"
      <3>1. CopiedSoFar(u) /\ todo'[u] = todo[u]
        BY <2>1, <2>2, <2>5 DEF Copying, Untouched
      <3>2. ASSUME Call(u).op \in {"create", "commit", "diff", "export", "import"}
            PROVE  CopiedSoFar(u)'
        <4>1. {Call(u).from, Call(u).to} \subseteq Places \cap Uses(u)
          BY <2>1, <3>2, CallPlaces DEF Uses
        <4>2. tree'[Call(u).from] = tree[Call(u).from] /\ tree'[Call(u).to] = tree[Call(u).to]
          BY <2>2, <4>1 DEF Untouched
        <4>3. Call(u).op \in {"create", "commit"} => (Call(u).from \in made' <=> Call(u).from \in made)
          <5>1. CASE Call(u).op = "create"
            BY <2>1, <2>2, <5>1, CallPlaces DEF Untouched
          <5>2. CASE Call(u).op = "commit"
            BY <2>1, <2>2, <4>1, <5>2, CallPlaces DEF Untouched, Workspace
          <5> QED
            BY <5>1, <5>2
        <4> QED
          <5> DEFINE from == Call(u).from
                     to == Call(u).to
          <5>1. /\ tree'[from] = tree[from] /\ tree'[to] = tree[to] /\ Call(u)' = Call(u)
                /\ todo'[u] = todo[u] /\ CopiedSoFar(u)
            BY <2>1, <3>1, <4>2
          <5>2. CASE Call(u).op \in {"create", "commit"}
            <6>1. from \in made' <=> from \in made
              BY <4>3, <5>2
            <6>2. Faults[u] = {} =>
                    \A f \in Names \ (todo[u] \cup Hidden) :
                        from \in made /\ tree[from][f] # Absent =>
                            tree[to][f] = tree[from][f] \/ tree[to][f] = Whiteout
              BY <5>1, <5>2 DEF CopiedSoFar
            <6>3. Faults[u] = {} =>
                    \A f \in Names \ (todo'[u] \cup Hidden) :
                        from \in made' /\ tree'[from][f] # Absent =>
                            tree'[to][f] = tree'[from][f] \/ tree'[to][f] = Whiteout
              BY <5>1, <6>1, <6>2
            <6> HIDE DEF from, to
            <6> QED
              BY <5>1, <5>2, <6>3 DEF CopiedSoFar, from, to
          <5>3. CASE Call(u).op \in {"diff", "export"}
            <6>1. \A f \in Names \ todo[u] : tree[to][f] = tree[from][f]
              BY <5>1, <5>3 DEF CopiedSoFar
            <6>2. \A f \in Names \ todo'[u] : tree'[to][f] = tree'[from][f]
              BY <5>1, <6>1
            <6> HIDE DEF from, to
            <6> QED
              BY <5>1, <5>3, <6>2 DEF CopiedSoFar, from, to
          <5>4. CASE Call(u).op = "import"
            <6>1. \A f \in Names \ todo[u] : tree[from][f] # Absent => tree[to][f] = tree[from][f]
              BY <5>1, <5>4 DEF CopiedSoFar
            <6>2. \A f \in Names \ todo'[u] : tree'[from][f] # Absent => tree'[to][f] = tree'[from][f]
              BY <5>1, <6>1
            <6> HIDE DEF from, to
            <6> QED
              BY <5>1, <5>4, <6>2 DEF CopiedSoFar, from, to
          <5> QED
            BY <3>2, <5>2, <5>3, <5>4
      <3>3. ASSUME Call(u).op \notin {"create", "commit", "diff", "export", "import"}
            PROVE  CopiedSoFar(u)'
        BY <2>1, <3>3 DEF CopiedSoFar
      <3> QED
        BY <2>1, <2>5, <3>2, <3>3
    <2> QED
      BY <1>2, <2>1, <2>3, <2>4, <2>5
  <1> QED
    BY <1>1, <1>2

\* What a call that returns CR_OK undisturbed has copied: a diff layer and an
\* archive equal their source, an import has every name of the archive, and a
\* created or committed layer the names without a dot if nothing fails, but for
\* those that a whiteout of an earlier commit still hides
\* (storage_create_layer to storage_commit_container).
THEOREM CopyCompleteHolds == Spec => CopyComplete
  <1> DEFINE Complete ==
        \A u \in Users :
            LET c == Call(u)
                Same(f) == tree'[c.to][f] = tree'[c.from][f] IN
            /\ Returns(u, {"diff", "export"}, "ok") => \A f \in Names : Same(f)
            /\ Returns(u, {"import"}, "ok") => \A f \in Present(c.from) : Same(f)
            /\ Returns(u, {"create", "commit"}, "ok") /\ Faults[u] = {} =>
                   \A f \in Present(c.from) \ Hidden : Same(f) \/ tree'[c.to][f] = Whiteout
  <1>1. ASSUME TypeOK, LayersShare, Copying, [Next \/ Terminated]_vars, NEW u \in Users,
               NEW ops \in SUBSET {"create", "commit", "diff", "export", "import"},
               Returns(u, ops, "ok")
        PROVE  CopiedSoFar(u) /\ todo[u] = {} /\ Call(u).op \in ops /\ UNCHANGED tree
    <2>1. /\ Operation(u) /\ Busy(u) /\ Call(u).op \in ops /\ u \notin disturbed
          /\ at'[u] # at[u] /\ result'[u] = "ok"
      BY <1>1, ReturnIsOwn
    <2>2. ~Return(u, "error") /\ \A label : ~Goto(u, label)
      BY <1>1, <2>1 DEF Return, Goto, TypeOK
    <2>3. Finish(u)
      <3>1. MkLayer(u) \/ OpenArchive(u) \/ List(u) \/ CopyName(u) \/ Finish(u)
        BY <2>1 DEF Operation, Calling, MkWorkspace, MountOverlay, Unmount, RemoveUnmount, RmName,
                    RmDirs
      <3>2. ~CopyName(u)
        BY <2>1 DEF CopyName
      <3> QED
        BY <2>2, <3>1, <3>2 DEF MkLayer, OpenArchive, List
    <2>4. todo[u] = {} /\ pc[u] = "copy" /\ UNCHANGED tree
      BY <2>2, <2>3 DEF Finish, Calling, treeVars
    <2> QED
      BY <1>1, <2>1, <2>4 DEF Copying
  <1>2. ASSUME TypeOK, LayersShare, Copying, [Next \/ Terminated]_vars PROVE Complete
    <2> SUFFICES ASSUME NEW u \in Users
                 PROVE  LET c == Call(u)
                            Same(f) == tree'[c.to][f] = tree'[c.from][f] IN
                        /\ Returns(u, {"diff", "export"}, "ok") => \A f \in Names : Same(f)
                        /\ Returns(u, {"import"}, "ok") => \A f \in Present(c.from) : Same(f)
                        /\ Returns(u, {"create", "commit"}, "ok") /\ Faults[u] = {} =>
                               \A f \in Present(c.from) \ Hidden :
                                   Same(f) \/ tree'[c.to][f] = Whiteout
      OBVIOUS
    <2>1. ASSUME Returns(u, {"diff", "export"}, "ok"), NEW f \in Names
          PROVE  tree'[Call(u).to][f] = tree'[Call(u).from][f]
      <3>1. /\ CopiedSoFar(u) /\ todo[u] = {} /\ UNCHANGED tree
            /\ Call(u).op \in {"diff", "export"}
        BY <1>1, <1>2, <2>1
      <3> QED
        BY <3>1 DEF CopiedSoFar
    <2>2. ASSUME Returns(u, {"import"}, "ok"), NEW f \in Present(Call(u).from)
          PROVE  tree'[Call(u).to][f] = tree'[Call(u).from][f]
      <3>1. CopiedSoFar(u) /\ todo[u] = {} /\ UNCHANGED tree /\ Call(u).op \in {"import"}
        BY <1>1, <1>2, <2>2
      <3>2. f \in Names /\ tree[Call(u).from][f] # Absent
        BY DEF Present
      <3> QED
        BY <3>1, <3>2 DEF CopiedSoFar
    <2>3. ASSUME Returns(u, {"create", "commit"}, "ok"), Faults[u] = {},
                 NEW f \in Present(Call(u).from) \ Hidden
          PROVE  tree'[Call(u).to][f] = tree'[Call(u).from][f] \/ tree'[Call(u).to][f] = Whiteout
      <3>1. /\ CopiedSoFar(u) /\ todo[u] = {} /\ UNCHANGED tree
            /\ Call(u).op \in {"create", "commit"}
        BY <1>1, <1>2, <2>3
      <3>2. f \in Names \ Hidden /\ Call(u).from \in made /\ tree[Call(u).from][f] # Absent
        BY DEF Present
      <3> QED
        BY <2>3, <3>1, <3>2 DEF CopiedSoFar
    <2> QED
      BY <2>1, <2>2, <2>3
  <1>3. Init => Copying
    BY DEF Init, Copying
  <1> HIDE DEF Complete
  <1>4. TypeOK /\ LayersShare /\ Copying /\ [Next \/ Terminated]_vars => [Complete]_vars
    BY <1>2
  <1>5. Spec => [][Complete]_vars
    BY <1>3, <1>4, TypeCorrect, CopyingNext, PTL DEF Spec
  <1> QED
    BY <1>5 DEF Complete, CopyComplete

----------------------------------------------------------------------------
(* Removing *)

\* A container that is mounted by one call at most is mounted once at most, and
\* only when that call has been made.
MountedOnce(c) == \A x, y \in MountsOf(c) : x = y
OneMount ==
    \A c \in Containers : MountedOnce(c) /\ mounts[c] # <<>> =>
        /\ Len(mounts[c]) = 1
        /\ \E x \in MountsOf(c) : x[2] < at[x[1]]

\* A removal that nobody disturbs has taken off the mount, and all names but
\* those left to do.
Removing ==
    \A u \in Users :
        /\ Busy(u) /\ Call(u).op = "remove" /\ pc[u] = "rm"
        /\ u \notin disturbed /\ Faults[u] = {} /\ MountedOnce(Call(u).to)
        => /\ mounts[Call(u).to] = <<>>
           /\ \A f \in Names \ todo[u] : tree[Call(u).to][f] = Absent

LEMMA TimePasses ==
  ASSUME TypeOK, LayersShare, [Next \/ Terminated]_vars, NEW v \in Users
  PROVE  at[v] \in Nat /\ at'[v] \in Nat /\ at[v] <= at'[v]
  <1>1. at[v] \in Nat
    BY DEF TypeOK
  <1>2. CASE Operation(v)
    BY <1>1, <1>2, OperationUser DEF TypeOK
  <1>3. CASE ~Operation(v)
    BY <1>1, <1>3, OthersStay
  <1> QED
    BY <1>2, <1>3

LEMMA OneMountNext ==
  TypeOK /\ LayersShare /\ OneMount /\ [Next \/ Terminated]_vars => OneMount'
  <1> SUFFICES ASSUME TypeOK, LayersShare, OneMount, [Next \/ Terminated]_vars,
                      NEW c \in Containers, MountedOnce(c), mounts'[c] # <<>>
               PROVE  Len(mounts'[c]) = 1 /\ \E x \in MountsOf(c) : x[2] < at'[x[1]]
    BY DEF OneMount, MountedOnce, MountsOf
  <1>1. \A x \in MountsOf(c) : x[1] \in Users /\ x[2] \in Nat
    <2>1. ASSUME NEW u \in Users, NEW i \in DOMAIN Script[u] PROVE i \in Nat
      BY ScriptAssumption, LenProperties
    <2> QED
      BY <2>1 DEF MountsOf
  <1>2. ASSUME mounts[c] # <<>>
        PROVE  Len(mounts[c]) = 1 /\ \E x \in MountsOf(c) : x[2] < at[x[1]] /\ x[2] < at'[x[1]]
    <2>1. Len(mounts[c]) = 1
      BY <1>2 DEF OneMount
    <2>2. PICK x \in MountsOf(c) : x[2] < at[x[1]]
      BY <1>2 DEF OneMount
    <2>3. /\ x[2] \in Nat /\ at[x[1]] \in Nat /\ at'[x[1]] \in Nat /\ at[x[1]] <= at'[x[1]]
      BY <1>1, TimePasses
    <2>4. x[2] < at'[x[1]]
      BY <2>2, <2>3
    <2> QED
      BY <2>1, <2>2, <2>4
  <1>3. CASE mounts'[c] = mounts[c]
    BY <1>2, <1>3
  <1>4. CASE mounts'[c] # mounts[c]
    <2>1. PICK u \in Users : Operation(u)
      BY <1>4, ContainerFrame DEF Next, Terminated, vars
    <2>2. Busy(u) /\ c = Call(u).to
      BY <1>4, <2>1, OperationFrame DEF Frame
    <2>3. mounts[c] \in Seq(Overlays)
      BY DEF TypeOK
    <2>4. CASE MountOverlay(u)
      <3>1. Call(u) = [op |-> "mount", to |-> c]
        BY <2>2, <2>4, CallPlaces DEF MountOverlay, Calling
      <3>2. <<u, at[u]>> \in MountsOf(c)
        <4> DEFINE I == {j \in DOMAIN Script[u] : Script[u][j] = [op |-> "mount", to |-> c]}
        <4>1. at[u] \in I
          BY <2>2, <3>1, CallType DEF Call
        <4>2. <<u, at[u]>> \in {<<u, i>> : i \in I}
          BY <4>1
        <4> QED
          BY <4>2 DEF MountsOf
      <3>3. mounts[c] = <<>>
        <4>1. SUFFICES ASSUME mounts[c] # <<>> PROVE FALSE
          OBVIOUS
        <4>2. PICK x \in MountsOf(c) : x[2] < at[x[1]]
          BY <1>2, <4>1
        <4>3. x = <<u, at[u]>>
          BY <3>2 DEF MountedOnce
        <4>4. at[u] < at[u] /\ at[u] \in Nat
          BY <4>2, <4>3 DEF TypeOK
        <4> QED
          BY <4>4
      <3>4. PICK m \in Overlays : mounts' = [mounts EXCEPT ![c] = <<m>> \o mounts[c]] /\ Return(u, "ok")
        <4>1. \/ /\ mounts' = [mounts EXCEPT ![c] =
                        <<[lower |-> Lower(c), upper |-> "rw"]>> \o mounts[c]]
                 /\ Return(u, "ok")
              \/ /\ ~(Len(Lower(c)) <= Room)
                 /\ mounts' = [mounts EXCEPT ![c] =
                        <<[lower |-> SubSeq(Lower(c), 1, Room), upper |-> "ro"]>> \o mounts[c]]
                 /\ Return(u, "ok")
          BY <1>4, <2>2, <2>4 DEF MountOverlay
        <4> QED
          BY <4>1, OverlayType
      <3>5. Len(mounts'[c]) = 1
        <4>1. mounts'[c] = <<m>> \o mounts[c] /\ Len(mounts[c]) = 0
          BY <2>3, <3>3, <3>4 DEF TypeOK
        <4> QED
          BY <2>3, <4>1, PushProperties
      <3>6. at[u] < at'[u]
        BY <3>4 DEF Return, TypeOK
      <3> QED
        BY <3>2, <3>5, <3>6
    <2>5. CASE RmDirs(u)
      <3>1. mounts'[c] = Orphaned(mounts[c], c)
        BY <2>2, <2>5, RmDirsMounts DEF TypeOK
      <3>2. Len(mounts'[c]) = Len(mounts[c]) /\ mounts'[c] \in Seq(Overlays)
        BY <2>3, <3>1, OrphanedType
      <3>3. mounts[c] # <<>>
        BY <2>3, <3>2, EmptySeq
      <3> QED
        BY <1>2, <3>2, <3>3
    <2>6. CASE Unmount(u) \/ RemoveUnmount(u)
      <3>1. Detached(c)
        BY <1>4, <2>2, <2>6 DEF Unmount, RemoveUnmount
      <3>2. mounts[c] # <<>> /\ mounts'[c] = Tail(mounts[c])
        BY <1>4, <3>1 DEF Detached, TypeOK
      <3>3. Len(Tail(mounts[c])) = 0 /\ Tail(mounts[c]) \in Seq(Overlays)
        BY <1>2, <2>3, <3>2, HeadTailProperties
      <3> QED
        BY <3>2, <3>3, EmptySeq
    <2> QED
      BY <1>4, <2>1, <2>4, <2>5, <2>6
      DEF Operation, MkWorkspace, RmName, MkLayer, OpenArchive, List, CopyName, Finish
  <1> QED
    BY <1>3, <1>4

LEMMA RemovingNext ==
  TypeOK /\ LayersShare /\ OneMount /\ Removing /\ [Next \/ Terminated]_vars => Removing'
  <1> SUFFICES ASSUME TypeOK, LayersShare, OneMount, Removing, [Next \/ Terminated]_vars,
                      NEW u \in Users, Busy(u)', Call(u)'.op = "remove", pc'[u] = "rm",
                      u \notin disturbed', Faults[u] = {}, MountedOnce(Call(u)'.to)
               PROVE  /\ mounts'[Call(u)'.to] = <<>>
                      /\ \A f \in Names \ todo'[u] : tree'[Call(u)'.to][f] = Absent
    BY DEF Removing, MountedOnce, MountsOf
  <1> DEFINE c == Call(u).to
  <1>1. CASE RemoveUnmount(u)
    <2>1. Call(u)' = Call(u) /\ Busy(u) /\ c \in Containers
      BY <1>1, Moves, CallPlaces DEF Operation, RemoveUnmount, Calling
    <2>2. todo'[u] = Names /\ Detached(c)
      BY <1>1 DEF RemoveUnmount, TypeOK, Fails
    <2>3. mounts'[c] = <<>>
      <3>1. CASE mounts[c] = <<>>
        BY <2>1, <2>2, <3>1 DEF Detached, TypeOK
      <3>2. CASE mounts[c] # <<>>
        <4>1. mounts'[c] = Tail(mounts[c]) /\ mounts[c] \in Seq(Overlays)
          BY <2>1, <2>2, <3>2 DEF Detached, TypeOK
        <4>2. Len(mounts[c]) = 1
          BY <2>1, <3>2 DEF OneMount
        <4>3. Len(Tail(mounts[c])) = 0 /\ Tail(mounts[c]) \in Seq(Overlays)
          BY <3>2, <4>1, <4>2, HeadTailProperties
        <4> QED
          BY <4>1, <4>3, EmptySeq
      <3> QED
        BY <3>1, <3>2
    <2> QED
      BY <2>1, <2>2, <2>3
  <1>2. CASE RmName(u)
    <2>1. /\ Call(u)' = Call(u) /\ Busy(u) /\ c \in Containers
          /\ Call(u).op = "remove" /\ pc[u] = "rm" /\ u \notin disturbed
      BY <1>2, Moves, CallPlaces DEF Operation, RmName, Calling, Changing
    <2>2. mounts[c] = <<>> /\ \A f \in Names \ todo[u] : tree[c][f] = Absent
      BY <2>1 DEF Removing
    <2>3. PICK f \in todo[u] : todo' = [todo EXCEPT ![u] = @ \ {f}] /\ Replace(c, f, Absent)
      BY <1>2 DEF RmName
    <2>4. f \in Names /\ todo'[u] = todo[u] \ {f}
      BY <2>3 DEF TypeOK
    <2>5. tree'[c][f] = Absent /\ \A g \in Names \ {f} : tree'[c][g] = tree[c][g]
      BY <2>1, <2>3, <2>4, ReplaceEffect DEF Content
    <2>6. UNCHANGED mounts
      BY <1>2 DEF RmName
    <2> QED
      BY <2>1, <2>2, <2>4, <2>5, <2>6
  <1>3. CASE ~Operation(u)
    <2>1. Busy(u) /\ pc[u] = "rm" /\ Call(u)' = Call(u)
      BY <1>3, OthersStay
    <2>2. Untouched(u) /\ Call(u).op = "remove"
      BY <1>3, <2>1, Bystander
    <2>3. c \in Containers \cap Uses(u)
      BY <2>1, <2>2, CallPlaces DEF Uses
    <2>4. mounts[c] = <<>> /\ \A f \in Names \ todo[u] : tree[c][f] = Absent
      BY <2>1, <2>2 DEF Removing, Untouched
    <2>5. mounts'[c] = mounts[c] /\ tree'[c] = tree[c] /\ todo'[u] = todo[u]
      BY <2>2, <2>3 DEF Untouched
    <2> QED
      BY <2>1, <2>4, <2>5
  <1> QED
    BY <1>1, <1>2, <1>3, Moves

\* When storage_remove_overlay returns for a workspace that was mounted at most
\* once, and nothing it calls failed, neither the mount nor a directory is left.
THEOREM RemovedGoneHolds == Spec => RemovedGone
  <1> DEFINE Gone ==
        \A u \in Users :
            /\ Returns(u, {"remove"}, "ok") /\ Faults[u] = {}
            /\ \A x, y \in MountsOf(Call(u).to) : x = y
            => LET c == Call(u).to IN mounts'[c] = <<>> /\ Workspace(c) \cap made' = {}
  <1>1. ASSUME TypeOK, LayersShare, Removing, [Next \/ Terminated]_vars, NEW u \in Users,
               Returns(u, {"remove"}, "ok"), Faults[u] = {}, MountedOnce(Call(u).to)
        PROVE  mounts'[Call(u).to] = <<>> /\ Workspace(Call(u).to) \cap made' = {}
    <2> DEFINE c == Call(u).to
    <2>1. /\ Operation(u) /\ Busy(u) /\ Call(u).op = "remove" /\ u \notin disturbed
          /\ at'[u] # at[u]
      BY <1>1, ReturnIsOwn
    <2>2. RmDirs(u)
      <3>1. RemoveUnmount(u) \/ RmName(u) \/ RmDirs(u)
        BY <2>1 DEF Operation, Calling, MkWorkspace, MountOverlay, Unmount, MkLayer, OpenArchive,
                    List, CopyName, Finish
      <3> QED
        BY <2>1, <3>1 DEF RemoveUnmount, RmName, Goto
    <2>3. c \in Containers /\ pc[u] = "rm" /\ todo[u] = {}
      BY <1>1, <2>1, <2>2, CallPlaces DEF RmDirs, Calling
    <2>4. mounts[c] = <<>> /\ \A f \in Names : tree[c][f] = Absent
      BY <1>1, <2>1, <2>3 DEF Removing
    <2>5. tree[c] = EmptyTree
      BY <1>1, <2>3, <2>4 DEF TypeOK, EmptyTree
    <2>6. Workspace(c) \cap made' = {}
      BY <2>2, <2>4, <2>5 DEF RmDirs
    <2>7. mounts'[c] = <<>>
      <3>1. mounts'[c] = Orphaned(mounts[c], c)
        BY <1>1, <2>2, <2>3, RmDirsMounts DEF TypeOK
      <3>2. Orphaned(mounts[c], c) \in Seq(Overlays) /\ Len(Orphaned(mounts[c], c)) = 0
        BY <2>4, EmptySeq, OrphanedType
      <3> QED
        BY <3>1, <3>2, EmptySeq
    <2> QED
      BY <2>6, <2>7
  <1>2. TypeOK /\ LayersShare /\ Removing /\ [Next \/ Terminated]_vars => [Gone]_vars
    BY <1>1 DEF MountedOnce
  <1>3. Init => OneMount /\ Removing
    BY DEF Init, OneMount, Removing
  <1> HIDE DEF Gone
  <1>4. Spec => [][Gone]_vars
    BY <1>2, <1>3, TypeCorrect, OneMountNext, RemovingNext, PTL DEF Spec
  <1> QED
    BY <1>4 DEF Gone, RemovedGone
==============================================================================
