--------------------------- MODULE MountNamespace ---------------------------
(***************************************************************************)
(* The root filesystem of containers (src/namespace/namespace.c): what the *)
(* init process of each does before it executes the container's command,   *)
(* namespace_setup_mounts and then namespace_pivot_root.                   *)
(*                                                                         *)
(* Each init has a mount namespace of its own, but cmd_run uses the image  *)
(* directory itself as the root filesystem: the directories that one init  *)
(* makes or removes there are seen by every other run of the image.        *)
(*                                                                         *)
(* A path has at most two components.                                      *)
(***************************************************************************)
EXTENDS Naturals, Sequences, FiniteSets, SequencesExt

CONSTANTS
    Containers,   \* the runs
    Images,       \* image directories
    ImageOf,      \* the image of each run
    InImage,      \* the directories each image is delivered with
    ReadOnly,     \* the runs with readonly_rootfs
    Root,         \* "/"
    Parent,       \* of each path: Root or a path of one component
    KernelDirs,   \* directories that procfs and sysfs come with
    Volumes,      \* the targets of the -v options of each run, in order
    Faults,       \* calls of each init that may fail although the kernel allows them
    MayDie        \* the inits that may be killed during their setup

Paths == DOMAIN Parent

\* The mounts of every container, in order; a failure of one only warns.
Standard == <<"proc", "sys", "dev", "dev/pts", "tmp", "run">>
OldRoot == ".oldroot"

\* The two of them whose file systems take no mkdir.
Pseudo == {"proc", "sys"}

MountList(c) == Standard \o Volumes[c]

ASSUME PathAssumption ==
    /\ Root \notin Paths
    /\ OldRoot \in Paths /\ Parent[OldRoot] = Root
    /\ \A p \in ToSet(Standard) :
          p \in Paths /\ Parent[p] = IF p = "dev/pts" THEN "dev" ELSE Root
    /\ \A p \in Paths : Parent[p] # Root => Parent[p] \in Paths /\ Parent[Parent[p]] = Root
ASSUME ImageAssumption ==
    /\ ImageOf \in [Containers -> Images]
    /\ InImage \in [Images -> SUBSET Paths]
    /\ ReadOnly \subseteq Containers
ASSUME KernelAssumption ==
    \A p \in KernelDirs : p \in Paths /\ Parent[p] \in Pseudo
ASSUME VolumeAssumption ==
    \A c \in Containers : Volumes[c] \in Seq(Paths)

VARIABLES
    pc,        \* next system call of each init process
    n,         \* the mount that namespace_setup_mounts is at
    private,   \* inits whose mounts no longer propagate to the host
    bound,     \* inits that have bind-mounted the root filesystem on itself
    readonly,  \* inits whose root filesystem is mounted read-only
    mounted,   \* mount points of each init below its new root
    own,       \* directories of each init that are on such a mount
    pivoted,   \* inits whose root is the new root
    old,       \* inits that still have the host's tree, at /.oldroot
    dirs,      \* directories of each image
    hostMounts \* mounts that have propagated to the host

vars == <<pc, n, private, bound, readonly, mounted, own, pivoted, old, dirs, hostMounts>>
nsVars == <<private, bound, readonly, mounted, own, pivoted, old>>
imageVars == <<dirs, hostMounts>>

Labels == {"private", "bind", "readonly", "mount", "mkdir_oldroot", "pivot",
           "umount", "rmdir", "ready", "failed", "killed"}
Ended == {"ready", "failed", "killed"}

TypeOK ==
    /\ pc \in [Containers -> Labels]
    /\ \A c \in Containers : n[c] \in DOMAIN MountList(c)
    /\ private \subseteq Containers /\ bound \subseteq Containers
    /\ readonly \subseteq ReadOnly
    /\ mounted \in [Containers -> SUBSET Paths]
    /\ own \in [Containers -> SUBSET Paths]
    /\ pivoted \subseteq Containers /\ old \subseteq pivoted
    /\ dirs \in [Images -> SUBSET Paths]
    /\ hostMounts \subseteq Images \X (Paths \cup {Root})

Init ==
    /\ pc = [c \in Containers |-> "private"]
    /\ n = [c \in Containers |-> 1]
    /\ private = {} /\ bound = {} /\ readonly = {}
    /\ mounted = [c \in Containers |-> {}]
    /\ own = [c \in Containers |-> {}]
    /\ pivoted = {} /\ old = {}
    /\ dirs = InImage
    /\ hostMounts = {}

Step(c, call, next) == pc[c] = call /\ pc' = [pc EXCEPT ![c] = next]
Fails(c, call, possible) == ~possible \/ call \in Faults[c]

\* A system call that fails, and with it container start.
Abort(c, call, possible) ==
    /\ Step(c, call, "failed")
    /\ Fails(c, call, possible)
    /\ UNCHANGED <<n, nsVars, imageVars>>

\* A mount of c at p reaches the host while "/" is still shared.
Propagate(c, p) ==
    hostMounts' = IF c \in private THEN hostMounts
                                   ELSE hostMounts \cup {<<ImageOf[c], p>>}

\* Is p below a mount of c, or on the image itself?
Covered(c, p) == Parent[p] \in mounted[c]
\* Is p in the procfs or sysfs of c, with no volume mounted over that?
InPseudo(c, p) ==
    /\ Parent[p] \in Pseudo \cap mounted[c]
    /\ \A i \in Len(Standard) + 1 .. n[c] - 1 : MountList(c)[i] # Parent[p]
Exists(c, p) ==
    \/ InPseudo(c, p) /\ p \in KernelDirs
    \/ ~InPseudo(c, p) /\ IF Covered(c, p) THEN p \in own[c] ELSE p \in dirs[ImageOf[c]]

\* mkdir is not recursive, and nothing can be made on a read-only image, in
\* procfs or in sysfs.
CanMkdir(c, p) ==
    /\ Parent[p] = Root \/ Covered(c, p) \/ Parent[p] \in dirs[ImageOf[c]]
    /\ Covered(c, p) \/ c \notin readonly
    /\ ~InPseudo(c, p)

\* mkdir(p), whose result is always ignored.
Mkdir(c, p) ==
    IF ~CanMkdir(c, p) THEN UNCHANGED <<own, dirs>>
    ELSE IF Covered(c, p)
         THEN own' = [own EXCEPT ![c] = @ \cup {p}] /\ dirs' = dirs
         ELSE dirs' = [dirs EXCEPT ![ImageOf[c]] = @ \cup {p}] /\ own' = own

----------------------------------------------------------------------------
(* namespace_setup_mounts *)

\* Wrong: a failure is only logged.
PrivateUnchecked(c) ==
    /\ Step(c, "private", "bind")
    /\ \/ private' = private \cup {c}
       \/ "private" \in Faults[c] /\ private' = private
    /\ UNCHANGED <<n, bound, readonly, mounted, own, pivoted, old, imageVars>>

Private(c) ==
    \/ /\ Step(c, "private", "bind")
       /\ private' = private \cup {c}
       /\ UNCHANGED <<n, bound, readonly, mounted, own, pivoted, old, imageVars>>
    \/ Abort(c, "private", TRUE)

\* Wrong: skips the remount.
BindWritable(c) ==
    /\ Step(c, "bind", "mount")
    /\ bound' = bound \cup {c}
    /\ Propagate(c, Root)
    /\ UNCHANGED <<n, private, readonly, mounted, own, pivoted, old, dirs>>

Bind(c) ==
    \/ /\ Step(c, "bind", IF c \in ReadOnly THEN "readonly" ELSE "mount")
       /\ bound' = bound \cup {c}
       /\ Propagate(c, Root)
       /\ UNCHANGED <<n, private, readonly, mounted, own, pivoted, old, dirs>>
    \/ Abort(c, "bind", TRUE)

RemountReadonly(c) ==
    \/ /\ Step(c, "readonly", "mount")
       /\ readonly' = readonly \cup {c}
       /\ UNCHANGED <<n, private, bound, mounted, own, pivoted, old, imageVars>>
    \/ Abort(c, "readonly", TRUE)

\* Wrong: tests n <= number of mounts.
NextMountTooFar(c) ==
    IF n[c] <= Len(MountList(c))
    THEN Step(c, "mount", "mount") /\ n' = [n EXCEPT ![c] = @ + 1]
    ELSE Step(c, "mount", "mkdir_oldroot") /\ n' = n

\* n++ and the test of the loop over the mounts.
NextMount(c) ==
    IF n[c] < Len(MountList(c))
    THEN Step(c, "mount", "mount") /\ n' = [n EXCEPT ![c] = @ + 1]
    ELSE Step(c, "mount", "mkdir_oldroot") /\ n' = n

\* Wrong: a volume that cannot be mounted only warns.
MountAlwaysWarns(c) ==
    LET p == MountList(c)[n[c]]  possible == Exists(c, p) \/ CanMkdir(c, p) IN
    /\ Mkdir(c, p)
    /\ NextMount(c)
    /\ \/ possible /\ mounted' = [mounted EXCEPT ![c] = @ \cup {p}] /\ Propagate(c, p)
       \/ Fails(c, "mount", possible) /\ UNCHANGED <<mounted, hostMounts>>
    /\ UNCHANGED <<private, bound, readonly, pivoted, old>>

\* mkdir and mount of the n-th mount.  One of the standard mounts that fails
\* is left out; a volume that cannot be mounted ends the setup.
Mount(c) ==
    LET p == MountList(c)[n[c]]
        optional == n[c] <= Len(Standard)
        possible == Exists(c, p) \/ CanMkdir(c, p) IN
    /\ Mkdir(c, p)
    /\ \/ /\ possible
          /\ NextMount(c)
          /\ mounted' = [mounted EXCEPT ![c] = @ \cup {p}]
          /\ Propagate(c, p)
       \/ /\ Fails(c, "mount", possible)
          /\ IF optional THEN NextMount(c) ELSE Step(c, "mount", "failed") /\ n' = n
          /\ UNCHANGED <<mounted, hostMounts>>
    /\ UNCHANGED <<private, bound, readonly, pivoted, old>>

(* namespace_pivot_root *)

\* Wrong: relies on the image to have the directory.
MkdirOldRootNot(c) ==
    /\ Step(c, "mkdir_oldroot", "pivot")
    /\ UNCHANGED <<n, nsVars, imageVars>>

MkdirOldRoot(c) ==
    /\ Step(c, "mkdir_oldroot", "pivot")
    /\ Mkdir(c, OldRoot)
    /\ UNCHANGED <<n, private, bound, readonly, mounted, pivoted, old, hostMounts>>

\* The new root has to be a mount point, not a shared one, and the place for
\* the old root has to exist at this moment.
PivotRoot(c) ==
    LET possible == c \in bound /\ c \in private /\ OldRoot \in dirs[ImageOf[c]] IN
    \/ /\ Step(c, "pivot", "umount")
       /\ possible
       /\ pivoted' = pivoted \cup {c}
       /\ old' = old \cup {c}
       /\ UNCHANGED <<n, private, bound, readonly, mounted, own, imageVars>>
    \/ Abort(c, "pivot", possible)

\* chdir("/") and the lazy umount of /.oldroot, if it is still mounted.
Umount(c) ==
    LET possible == c \in old IN
    \/ /\ Step(c, "umount", "rmdir")
       /\ possible
       /\ old' = old \ {c}
       /\ UNCHANGED <<n, private, bound, readonly, mounted, own, pivoted, imageVars>>
    \/ Abort(c, "umount", possible)

\* Wrong: leaves the directory.
RmdirNot(c) ==
    /\ Step(c, "rmdir", "ready")
    /\ UNCHANGED <<n, nsVars, imageVars>>

\* rmdir of /.oldroot, whose result is ignored.  The directory is in the image:
\* when another init of the image has its old root mounted there, the kernel
\* detaches that mount.
Rmdir(c) ==
    /\ Step(c, "rmdir", "ready")
    /\ IF c \in readonly THEN UNCHANGED <<dirs, old>>
       ELSE /\ dirs' = [dirs EXCEPT ![ImageOf[c]] = @ \ {OldRoot}]
            /\ old' = {d \in old : ImageOf[d] # ImageOf[c]}
    /\ UNCHANGED <<n, private, bound, readonly, mounted, own, pivoted, hostMounts>>

\* An init process is killed; its mount namespace goes, the image stays as it is.
Die(c) ==
    /\ c \in MayDie /\ pc[c] \notin Ended
    /\ pc' = [pc EXCEPT ![c] = "killed"]
    /\ private' = private \ {c} /\ bound' = bound \ {c} /\ readonly' = readonly \ {c}
    /\ mounted' = [mounted EXCEPT ![c] = {}]
    /\ own' = [own EXCEPT ![c] = {}]
    /\ pivoted' = pivoted \ {c} /\ old' = old \ {c}
    /\ UNCHANGED <<n, imageVars>>

Terminated == (\A c \in Containers : pc[c] \in Ended) /\ UNCHANGED vars

Setup(c) ==
    \/ Private(c) \/ Bind(c) \/ RemountReadonly(c) \/ Mount(c)
    \/ MkdirOldRoot(c) \/ PivotRoot(c) \/ Umount(c) \/ Rmdir(c)

Next == \E c \in Containers : Setup(c) \/ Die(c)

Spec == Init /\ [][Next \/ Terminated]_vars

----------------------------------------------------------------------------
(* What the setup promises.                                                *)

\* No mount of a container ever shows up on the host: the tree is made private
\* before anything is mounted, and if that fails nothing is.
HostUntouched == hostMounts = {}

\* A container that reaches its command has left the host's tree behind, has
\* all its volumes, and is read-only if it was to be (the error checks of
\* namespace_setup_mounts and namespace_pivot_root).
RootSwitched ==
    \A c \in Containers : pc[c] = "ready" =>
        /\ c \in pivoted \ old
        /\ ToSet(Volumes[c]) \subseteq mounted[c]
        /\ c \in ReadOnly => c \in readonly

\* No step of a read-only run changes the image, not even the mkdir calls of
\* the setup: the remount comes before them.
ReadOnlyImage ==
    [][\A c \in ReadOnly : <<pc[c], n[c]>>' # <<pc[c], n[c]>> => dirs' = dirs]_vars

\* The inits that nothing from outside disturbs.
Reliable == {c \in Containers \ MayDie : Faults[c] = {}}

Writers(m) == {c \in Containers \ ReadOnly : ImageOf[c] = m}

\* When every init of an image that may write to it has ended its setup, and
\* none of them was disturbed from outside or has a volume at /.oldroot, .oldroot
\* is gone from the image, however the runs of the image got in each other's
\* way (mkdir, pivot_root, umount2 and rmdir of namespace_pivot_root).
NoOldRootLeft ==
    \A m \in Images :
        (\A c \in Writers(m) :
            c \in Reliable /\ OldRoot \notin ToSet(Volumes[c]) /\ pc[c] \in Ended)
        => OldRoot \notin dirs[m] \ InImage[m]

\* The directory of each volume target is "/", in the image or mounted before;
\* below proc and sys only what the kernel has there can be a target, unless a
\* volume has been mounted over them.
ParentsExist(c) ==
    \A i \in DOMAIN Volumes[c] : LET p == Volumes[c][i] IN
        \/ Parent[p] \in ({Root} \cup InImage[ImageOf[c]] \cup ToSet(Standard)) \ Pseudo
        \/ Parent[p] \in {Volumes[c][j] : j \in 1 .. i - 1}
        \/ p \in KernelDirs

\* Where no system call fails by itself and the parents of volume targets
\* exist, a writable run of an image that no other run uses is always set up,
\* whatever goes on with other images.
AloneSucceeds ==
    \A c \in Reliable \ ReadOnly :
        /\ \A d \in Containers \ {c} : ImageOf[d] # ImageOf[c]
        /\ ParentsExist(c)
        => pc[c] # "failed"

\* If no system call fails by itself, no setup fails, whether or not other
\* runs use the image ("Creates isolated filesystem view",
\* docs/ARCHITECTURE.md:108).
SetupSucceeds == \A c \in Containers : pc[c] # "failed"
=============================================================================
