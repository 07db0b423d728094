------------------------------- MODULE Storage -------------------------------
(***************************************************************************)
(* Overlay workspaces and image layers (src/storage/storage.c).            *)
(*                                                                         *)
(* Users call the storage functions one after the other, each in a process *)
(* of its own, without a lock between them.  A function is a few system    *)
(* calls and one external program (cp, rm, rsync, tar), which goes through *)
(* its directory name by name.  Running containers change their upper      *)
(* directory all the while.                                                *)
(*                                                                         *)
(* A tree is a flat directory: a content for every name.  Names of two     *)
(* places may be hard links to one file.                                   *)
(***************************************************************************)
EXTENDS Naturals, Sequences, FiniteSets, SequencesExt

CONSTANTS
    Users,
    Script,       \* the calls of each user, in order
    Containers,   \* a container also names its upper directory
    Started,      \* those that are run: the others are only mounted
    ImageOf,      \* the layers of each container's image, the base first
    Layers,       \* layer ids
    Sources,      \* directories given to storage_create_layer
    Archives,     \* tar files
    Names,        \* the names in a directory
    Hidden,       \* the names that begin with a dot
    Data, Whiteout, Absent,
    Written,      \* the data that containers write
    Delivered,    \* the trees that exist from the start
    Room,         \* as many layers fit in the options of a mount
    Faults        \* what may fail for each user although the kernel allows it

Places == Layers \cup Containers \cup Sources \cup Archives
\* The other two directories of a workspace: a container's upper is its Place.
Dirs == [of : Containers, dir : {"work", "merged"}]
Workspace(c) == {c} \cup {d \in Dirs : d.of = c}
Merged(c) == [of |-> c, dir |-> "merged"]

Content == Data \cup {Whiteout, Absent}
EmptyTree == [f \in Names |-> Absent]

Calls ==
    [op : {"mount", "unmount", "remove"}, to : Containers]
    \cup [op : {"create"}, from : Sources, to : Layers]
    \cup [op : {"commit"}, from : Containers, to : Layers]
    \cup [op : {"diff"}, from : Layers \cup Containers, lower : Layers, to : Layers]
    \cup [op : {"export"}, from : Layers, to : Archives]
    \cup [op : {"import"}, from : Archives, to : Layers]

ASSUME ScriptAssumption == \A u \in Users : Script[u] \in Seq(Calls)
ASSUME TreeAssumption ==
    /\ Hidden \subseteq Names /\ Written \subseteq Data
    /\ \A p \in DOMAIN Delivered :
        p \in Layers \cup Sources /\ Delivered[p] \in [Names -> Content]
    /\ \A c \in Containers : ImageOf[c] \in Seq(Layers) \ {<<>>}
    /\ Room \in Nat
\* The base directories are different, and so are the names below them.
ASSUME PathAssumption ==
    /\ Layers \cap (Containers \cup Sources \cup Archives) = {}
    /\ Containers \cap (Sources \cup Archives) = {}
    /\ Sources \cap Archives = {}
    /\ Dirs \cap Places = {}

VARIABLES
    pc,        \* where each user's current call is
    at,        \* the index of that call in the script
    todo,      \* names the external program has still to deal with
    result,    \* what the last call of each user returned
    tree,      \* the content of every name in every place
    links,     \* pairs of places whose files of a name are one file
    made,      \* the directories and complete archives that exist
    mounts,    \* the overlays mounted on each merged directory, topmost first
    inside,    \* the overlay the processes of a running container are in
    disturbed  \* users whose current call had a place changed by another

vars == <<pc, at, todo, result, tree, links, made, mounts, inside, disturbed>>
userVars == <<pc, at, todo, result>>
treeVars == <<tree, links>>

Labels == {"start", "mount", "rm", "list", "copy"}
Overlays == [lower : Seq(Layers), upper : {"rw", "ro", "gone"}]

TypeOK ==
    /\ pc \in [Users -> Labels]
    /\ at \in [Users -> Nat] /\ \A u \in Users : at[u] \in 1..Len(Script[u]) + 1
    /\ todo \in [Users -> SUBSET Names]
    /\ result \in [Users -> {"none", "ok", "error"}]
    /\ tree \in [Places -> [Names -> Content]]
    /\ links \subseteq Names \X SUBSET Places
    /\ made \subseteq Places \cup Dirs
    /\ mounts \in [Containers -> Seq(Overlays)]
    /\ inside \in [Containers -> Seq(Overlays)]
    /\ disturbed \subseteq Users

\* storage_init has made the three base directories.
Init ==
    /\ pc = [u \in Users |-> "start"]
    /\ at = [u \in Users |-> 1]
    /\ todo = [u \in Users |-> {}]
    /\ result = [u \in Users |-> "none"]
    /\ tree = [p \in Places |-> IF p \in DOMAIN Delivered THEN Delivered[p] ELSE EmptyTree]
    /\ links = {}
    /\ made = DOMAIN Delivered
    /\ mounts = [c \in Containers |-> <<>>]
    /\ inside = [c \in Containers |-> <<>>]
    /\ disturbed = {}

Busy(u) == at[u] <= Len(Script[u])
Call(u) == Script[u][at[u]]
Calling(u, ops, label) == Busy(u) /\ Call(u).op \in ops /\ pc[u] = label
Fails(u, call, possible) == ~possible \/ call \in Faults[u]

\* The places a call reads or changes.
Uses(u) ==
    CASE Call(u).op = "mount" -> {Call(u).to} \cup ToSet(ImageOf[Call(u).to])
      [] Call(u).op \in {"unmount", "remove"} -> {Call(u).to}
      [] Call(u).op = "diff" -> {Call(u).from, Call(u).to, Call(u).lower}
      [] OTHER -> {Call(u).from, Call(u).to}

\* Of the calls under way, but for those of the set `by`, which place p disturbs.
Disturbs(p, by) == {v \in Users \ by : Busy(v) /\ pc[v] # "start" /\ p \in Uses(v)}

Goto(u, label) == pc' = [pc EXCEPT ![u] = label] /\ UNCHANGED <<at, result>>
Return(u, r) ==
    /\ pc' = [pc EXCEPT ![u] = "start"]
    /\ at' = [at EXCEPT ![u] = @ + 1]
    /\ result' = [result EXCEPT ![u] = r]

\* A step of u that changes place p, and one that changes no place others use.
Quiet(u) == disturbed' = IF pc'[u] = "start" THEN disturbed \ {u} ELSE disturbed
Changing(u, p) ==
    disturbed' = (IF pc'[u] = "start" THEN disturbed \ {u} ELSE disturbed) \cup Disturbs(p, {u})

----------------------------------------------------------------------------
(* Files *)

SameFile(p, f) == {p} \cup UNION {g[2] : g \in {h \in links : h[1] = f /\ p \in h[2]}}
Unlinked(p, f) == {g \in links : ~(g[1] = f /\ p \in g[2])}

\* f of p becomes a file of its own (or goes, or becomes a whiteout).
Replace(p, f, x) ==
    /\ tree' = [tree EXCEPT ![p][f] = x]
    /\ links' = Unlinked(p, f)

\* f is opened with O_TRUNC and written: all its links change.
WriteInPlace(p, f, x) ==
    /\ tree' = [q \in Places |-> IF q \in SameFile(p, f) THEN [tree[q] EXCEPT ![f] = x] ELSE tree[q]]
    /\ links' = links

\* f of p becomes a hard link to f of q.
Link(p, f, q) ==
    /\ tree' = [tree EXCEPT ![p][f] = tree[q][f]]
    /\ links' = Unlinked(p, f) \cup {<<f, {p, r}>> : r \in SameFile(q, f) \ {p}}

\* Wrong: `cp -r`, which writes into a file that exists.
CopyFileInPlace(p, f, x) ==
    IF tree[p][f] \in {Absent, Whiteout} \/ x = Whiteout
    THEN Replace(p, f, x) ELSE WriteInPlace(p, f, x)

\* `cp -a` of one name.  It unlinks a target that has other links first, and any
\* target of a whiteout, which is a device; otherwise it opens the target for
\* writing.  That fails for a whiteout, unless it shares its inode with others
\* (the kernel makes whiteouts of one inode), so that it is unlinked as well.
CopyFile(p, f, x) ==
    \/ /\ tree[p][f] \in {Absent, Whiteout} \/ x = Whiteout \/ SameFile(p, f) # {p}
       /\ Replace(p, f, x)
    \/ /\ tree[p][f] \in Data /\ x # Whiteout /\ SameFile(p, f) = {p}
       /\ WriteInPlace(p, f, x)
    \/ /\ tree[p][f] = Whiteout /\ x # Whiteout
       /\ UNCHANGED treeVars

----------------------------------------------------------------------------
(* storage_mount_overlay *)

\* Wrong: makes the directories only if there is no workspace yet.
MkWorkspaceOnce(u) ==
    /\ Calling(u, {"mount"}, "start")
    /\ LET w == Workspace(Call(u).to) IN
       \E ok \in SUBSET w :
          /\ ok = w \/ "mkdir" \in Faults[u]
          /\ made' = IF w \cap made = {} THEN made \cup ok ELSE made
    /\ Goto(u, "mount")
    /\ Changing(u, Call(u).to)
    /\ UNCHANGED <<todo, treeVars, mounts, inside>>

\* mkdir of upper, work and merged; the results are ignored.
MkWorkspace(u) ==
    /\ Calling(u, {"mount"}, "start")
    /\ LET w == Workspace(Call(u).to) IN
       \E ok \in SUBSET w :
          /\ ok = w \/ "mkdir" \in Faults[u]
          /\ made' = made \cup ok
    /\ Goto(u, "mount")
    /\ Changing(u, Call(u).to)
    /\ UNCHANGED <<todo, treeVars, mounts, inside>>

\* Wrong: the layers in the order of the image.
LowerForward(c) == ImageOf[c]

\* The list given as lowerdir, in which the topmost layer comes first.
Lower(c) == Reverse(ImageOf[c])

\* mount(2) reads one page of options.  What is cut off ends with upperdir and
\* workdir; if the cut falls between two layers the rest is a valid read-only
\* overlay of at least two.
MountOverlay(u) ==
    LET c == Call(u).to
        fits == Len(Lower(c)) <= Room
        ready == ToSet(Lower(c)) \cup Workspace(c) \subseteq made
        top == SubSeq(Lower(c), 1, Room)
        Mounted(m) == mounts' = [mounts EXCEPT ![c] = <<m>> \o @] /\ Return(u, "ok") IN
    /\ Calling(u, {"mount"}, "mount")
    /\ \/ /\ fits /\ ready
          /\ Mounted([lower |-> Lower(c), upper |-> "rw"])
       \/ /\ ~fits /\ Room >= 2 /\ ToSet(top) \cup {Merged(c)} \subseteq made
          /\ Mounted([lower |-> top, upper |-> "ro"])
       \/ /\ Fails(u, "mount", fits /\ ready)
          /\ Return(u, "error")
          /\ UNCHANGED mounts
    /\ Changing(u, Call(u).to)
    /\ UNCHANGED <<todo, treeVars, made, inside>>

(* storage_unmount_overlay *)

\* umount2(MNT_DETACH): takes off the topmost mount; none is fine as well.
Detached(c) == mounts' = [mounts EXCEPT ![c] = IF @ = <<>> THEN @ ELSE Tail(@)]

Unmount(u) ==
    /\ Calling(u, {"unmount"}, "start")
    /\ \/ Detached(Call(u).to) /\ Return(u, "ok")
       \/ Fails(u, "umount", TRUE) /\ UNCHANGED mounts /\ Return(u, "error")
    /\ Changing(u, Call(u).to)
    /\ UNCHANGED <<todo, treeVars, made, inside>>

(* storage_remove_overlay *)

\* Wrong: forgets the unmount.
RemoveUnmountNot(u) ==
    /\ Calling(u, {"remove"}, "start")
    /\ todo' = [todo EXCEPT ![u] = Names]
    /\ Goto(u, "rm")
    /\ Changing(u, Call(u).to)
    /\ UNCHANGED <<treeVars, made, mounts, inside>>

\* The result of the unmount is ignored.
RemoveUnmount(u) ==
    /\ Calling(u, {"remove"}, "start")
    /\ Detached(Call(u).to) \/ (Fails(u, "umount", TRUE) /\ UNCHANGED mounts)
    /\ todo' = [todo EXCEPT ![u] = Names]
    /\ Goto(u, "rm")
    /\ Changing(u, Call(u).to)
    /\ UNCHANGED <<treeVars, made, inside>>

\* rm -rf takes the names of the upper directory.  What it finds below merged
\* when an overlay is still there it removes through the overlay, which leaves
\* the layers alone.
RmName(u) ==
    /\ Calling(u, {"remove"}, "rm")
    /\ \E f \in todo[u] :
        /\ todo' = [todo EXCEPT ![u] = @ \ {f}]
        /\ Replace(Call(u).to, f, Absent)
    /\ UNCHANGED <<pc, at, result, made, mounts, inside>>
    /\ Changing(u, Call(u).to)

\* The directories themselves: upper unless a name has come up in it again,
\* merged unless it is a mount point.  storage_remove_overlay returns CR_OK
\* in any case.
RmDirs(u) ==
    LET c == Call(u).to
        empty == tree[c] = EmptyTree
        kept == {d \in Workspace(c) : (d = c /\ ~empty) \/ (d = Merged(c) /\ mounts[c] # <<>>)}
        Gone(ms) == [i \in DOMAIN ms |->
            IF empty /\ ms[i].upper = "rw" THEN [ms[i] EXCEPT !.upper = "gone"] ELSE ms[i]] IN
    /\ Calling(u, {"remove"}, "rm") /\ todo[u] = {}
    /\ made' = (made \ Workspace(c)) \cup (made \cap kept)
    /\ mounts' = [mounts EXCEPT ![c] = Gone(@)]
    /\ inside' = [inside EXCEPT ![c] = Gone(@)]
    /\ Return(u, "ok")
    /\ Changing(u, c)
    /\ UNCHANGED <<todo, treeVars>>

(* storage_create_layer, storage_commit_container, storage_create_diff_layer, *)
(* storage_export_layer, storage_import_layer                                 *)

\* mkdir of the layer, which may exist already: only storage_create_layer
\* looks at the result.
MkLayer(u) ==
    /\ Calling(u, {"create", "commit", "diff", "import"}, "start")
    /\ \/ made' = made \cup {Call(u).to} /\ Goto(u, "list")
       \/ /\ Fails(u, "mkdir", TRUE) /\ Call(u).to \notin made
          /\ made' = made
          /\ IF Call(u).op = "create" THEN Return(u, "error") ELSE Goto(u, "list")
    /\ Changing(u, Call(u).to)
    /\ UNCHANGED <<todo, treeVars, mounts, inside>>

\* tar opens the archive: what was in it is gone.
OpenArchive(u) ==
    /\ Calling(u, {"export"}, "start")
    /\ made' = made \ {Call(u).to}
    /\ tree' = [tree EXCEPT ![Call(u).to] = EmptyTree]
    /\ Goto(u, "list")
    /\ Changing(u, Call(u).to)
    /\ UNCHANGED <<todo, links, mounts, inside>>

\* Wrong: does not leave out the directory itself.
PresentDot(p) == IF p \in made THEN {f \in Names : tree[p][f] # Absent} \cup {"."} ELSE {}

Present(p) == IF p \in made THEN {f \in Names : tree[p][f] # Absent} ELSE {}

\* The program reads the names: the shell expands * to those without a dot, and
\* rsync --delete also deals with those of its target.  cp has no error that
\* counts ("|| true"); the others need their directories.
List(u) ==
    LET c == Call(u) IN
    /\ Calling(u, {"create", "commit", "diff", "export", "import"}, "list")
    /\ IF c.op \in {"create", "commit"}
       THEN /\ todo' = [todo EXCEPT ![u] = IF c.to \in made THEN Present(c.from) \ Hidden ELSE {}]
            /\ Goto(u, "copy")
       ELSE IF c.from \in made /\ (c.op = "import" => c.to \in made)
            THEN todo' = [todo EXCEPT ![u] = IF c.op = "diff" THEN Names ELSE Present(c.from)]
                 /\ Goto(u, "copy")
            ELSE Return(u, "error") /\ todo' = todo
    /\ made' = IF c.op = "diff" /\ c.from \in made THEN made \cup {c.to} ELSE made
    /\ Quiet(u)
    /\ UNCHANGED <<treeVars, mounts, inside>>

\* Wrong: rsync without --delete.
RsyncKeep(u, f) ==
    IF tree[Call(u).from][f] \in {Absent, tree[Call(u).to][f]} THEN UNCHANGED treeVars
    ELSE Replace(Call(u).to, f, tree[Call(u).from][f])

\* rsync: a name that the source lacks is deleted, one that is the same is left
\* alone, one that is the same as in lower is linked to it.
RsyncName(u, f) ==
    LET from == Call(u).from  lower == Call(u).lower  to == Call(u).to
        x == tree[from][f] IN
    IF x = tree[to][f] THEN UNCHANGED treeVars
    ELSE IF x \in Data /\ tree[lower][f] = x THEN Link(to, f, lower)
    ELSE Replace(to, f, x)

\* What each program does with one name.
Transfer(u, f) ==
    LET c == Call(u)  x == tree[c.from][f] IN
    CASE c.op = "diff" -> RsyncName(u, f)
      [] c.op \in {"create", "commit"} ->
            IF x = Absent THEN UNCHANGED treeVars ELSE CopyFile(c.to, f, x)
      [] c.op = "import" ->
            IF x = Absent THEN UNCHANGED treeVars ELSE Replace(c.to, f, x)
      [] c.op = "export" -> Replace(c.to, f, x)

\* One name is copied, packed or extracted; cp goes on after an error.
CopyName(u) ==
    /\ Calling(u, {"create", "commit", "diff", "export", "import"}, "copy")
    /\ \E f \in todo[u] :
        /\ todo' = [todo EXCEPT ![u] = @ \ {f}]
        /\ \/ Transfer(u, f)
           \/ /\ Call(u).op \in {"create", "commit"} /\ Fails(u, "copy", TRUE)
              /\ UNCHANGED treeVars
    /\ UNCHANGED <<pc, at, result, made, mounts, inside>>
    /\ Changing(u, Call(u).to)

\* The program ends.  tar and rsync report an error; tar also finds that an
\* archive is incomplete, after it has extracted what there was.
Finish(u) ==
    LET c == Call(u)
        may_fail == c.op \in {"diff", "export", "import"} IN
    /\ Calling(u, {"create", "commit", "diff", "export", "import"}, "copy")
    /\ \/ /\ todo[u] = {} /\ (c.op = "import" => c.from \in made)
          /\ Return(u, "ok") /\ todo' = todo
          /\ made' = IF c.op = "export" THEN made \cup {c.to} ELSE made
       \/ /\ may_fail /\ Fails(u, "copy", c.op # "import" \/ c.from \in made)
          /\ Return(u, "error") /\ todo' = [todo EXCEPT ![u] = {}]
          /\ made' = made
    /\ Quiet(u)
    /\ UNCHANGED <<treeVars, mounts, inside>>

----------------------------------------------------------------------------
(* Containers and the kernel *)

\* A container is started in the mounted overlay; its mount namespace keeps that
\* mount until the container ends.
StartContainer(c) ==
    /\ c \in Started /\ mounts[c] # <<>> /\ inside[c] = <<>>
    /\ inside' = [inside EXCEPT ![c] = <<Head(mounts[c])>>]
    /\ UNCHANGED <<userVars, treeVars, made, mounts, disturbed>>

ExitContainer(c) ==
    /\ inside[c] # <<>>
    /\ inside' = [inside EXCEPT ![c] = <<>>]
    /\ UNCHANGED <<userVars, treeVars, made, mounts, disturbed>>

\* The places of a list that have f, or a whiteout for it.
Having(places, f) == {i \in DOMAIN places : tree[places[i]][f] # Absent}
Unhidden(x) == IF x = Whiteout THEN Absent ELSE x

InLayers(lower, f) ==
    LET having == Having(lower, f) IN
    IF having = {} THEN Absent ELSE Unhidden(tree[lower[Min(having)]][f])

\* What f is in an overlay of container c.
Seen(c, m, f) ==
    IF m.upper = "rw" /\ tree[c][f] # Absent
    THEN Unhidden(tree[c][f]) ELSE InLayers(m.lower, f)

\* A process of the container writes f: the kernel writes in upper, after a copy.
Write(c) ==
    /\ inside[c] # <<>> /\ inside[c][1].upper = "rw"
    /\ \E f \in Names, x \in Written :
        /\ Seen(c, inside[c][1], f) # x
        /\ IF tree[c][f] \in Data THEN WriteInPlace(c, f, x) ELSE Replace(c, f, x)
    /\ disturbed' = disturbed \cup Disturbs(c, {})
    /\ UNCHANGED <<userVars, made, mounts, inside>>

\* Or removes it: a whiteout hides what is in the layers.
Delete(c) ==
    /\ inside[c] # <<>> /\ inside[c][1].upper = "rw"
    /\ \E f \in Names :
        /\ Seen(c, inside[c][1], f) # Absent
        /\ Replace(c, f, IF InLayers(inside[c][1].lower, f) = Absent THEN Absent ELSE Whiteout)
    /\ disturbed' = disturbed \cup Disturbs(c, {})
    /\ UNCHANGED <<userVars, made, mounts, inside>>

Operation(u) ==
    \/ MkWorkspace(u) \/ MountOverlay(u) \/ Unmount(u)
    \/ RemoveUnmount(u) \/ RmName(u) \/ RmDirs(u)
    \/ MkLayer(u) \/ OpenArchive(u) \/ List(u) \/ CopyName(u) \/ Finish(u)

Next ==
    \/ \E u \in Users : Operation(u)
    \/ \E c \in Containers : StartContainer(c) \/ ExitContainer(c) \/ Write(c) \/ Delete(c)

Terminated == (\A u \in Users : ~Busy(u)) /\ UNCHANGED vars

Spec == Init /\ [][Next \/ Terminated]_vars

----------------------------------------------------------------------------
(* What the functions promise.                                             *)

\* A call of u that nobody has interfered with returns r in this step.
Returns(u, ops, r) ==
    /\ Busy(u) /\ Call(u).op \in ops
    /\ at'[u] = at[u] + 1 /\ result'[u] = r
    /\ u \notin disturbed

\* A layer changes only in a step of a call that has it as its target, although
\* layers share files through the hard links of rsync and containers run on them
\* ("Original in lowerdir remains unchanged", docs/ARCHITECTURE.md:326).
LayersKept ==
    [][\A l \in Layers : tree'[l] # tree[l] =>
        \E u \in Users : /\ Busy(u) /\ Call(u).to = l
                         /\ <<pc[u], todo[u], at[u]>>' # <<pc[u], todo[u], at[u]>>]_vars

\* What a call that returns CR_OK undisturbed has copied: a diff layer and an
\* archive equal their source, an import has every name of the archive.
\* storage_create_layer and storage_commit_container copy the names without a
\* dot, if nothing fails: they do not look at the result of cp.  They lose a file
\* for which the layer has a whiteout from an earlier commit, and no other.
CopyComplete ==
    [][\A u \in Users :
        LET c == Call(u)
            Same(f) == tree'[c.to][f] = tree'[c.from][f] IN
        /\ Returns(u, {"diff", "export"}, "ok") => \A f \in Names : Same(f)
        /\ Returns(u, {"import"}, "ok") => \A f \in Present(c.from) : Same(f)
        /\ Returns(u, {"create", "commit"}, "ok") /\ Faults[u] = {} =>
               \A f \in Present(c.from) \ Hidden : Same(f) \/ tree'[c.to][f] = Whiteout]_vars

\* The reference for a mounted overlay: the layers of the image applied to an
\* empty directory one after the other, the base first, then the container's own
\* changes.  The last that has f, or a whiteout for it, decides.
Applied(places, f) ==
    LET having == Having(places, f) IN
    IF having = {} THEN Absent ELSE Unhidden(tree[places[Max(having)]][f])

\* A container that can write sees its whole image, in the right order, under
\* its changes: no list of layers is cut off without the upper directory.
WholeImage ==
    \A c \in Containers : \A i \in DOMAIN mounts[c] :
        LET m == mounts[c][i] IN
        m.upper = "rw" => \A f \in Names : Seen(c, m, f) = Applied(Append(ImageOf[c], c), f)

\* The calls of the scripts that mount the overlay of c.
MountsOf(c) == UNION {{<<u, i>> : i \in {j \in DOMAIN Script[u] :
                        Script[u][j] = [op |-> "mount", to |-> c]}} : u \in Users}

\* When storage_remove_overlay returns for a workspace that was mounted at most
\* once, neither the mount nor a directory is left, whatever earlier calls that
\* failed had left there.
RemovedGone ==
    [][\A u \in Users :
        /\ Returns(u, {"remove"}, "ok") /\ Faults[u] = {}
        /\ \A x, y \in MountsOf(Call(u).to) : x = y
        => LET c == Call(u).to IN mounts'[c] = <<>> /\ Workspace(c) \cap made' = {}]_vars

\* Mounting succeeds when the layers are there and fit, also in a workspace that
\* earlier calls have left half made.
MountSucceeds ==
    [][\A u \in Users :
        /\ Returns(u, {"mount"}, "error") /\ Faults[u] = {}
        => LET c == Call(u).to IN Len(ImageOf[c]) > Room \/ ~(ToSet(ImageOf[c]) \subseteq made)]_vars

\* A commit that nobody disturbs keeps all of the container's changes ("Copy
\* changes to new layer", src/src/storage/storage.c:257).
CommitKeepsChanges ==
    [][\A u \in Users : Faults[u] = {} /\ Returns(u, {"commit"}, "ok") =>
        \A f \in Present(Call(u).from) : tree'[Call(u).to][f] = tree'[Call(u).from][f]]_vars
=============================================================================
