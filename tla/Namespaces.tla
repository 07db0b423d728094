------------------------------ MODULE Namespaces ------------------------------
(***************************************************************************)
(* The namespaces of containers (src/namespace/namespace.c), without the   *)
(* root filesystem: the flags of the clone, the user mapping and hostname  *)
(* that an init sets up, the file through which the runtime keeps its      *)
(* network namespace alive, and the processes that join it there.          *)
(*                                                                         *)
(* The runtime and the init of a run, other runs and the joiners all run   *)
(* at the same time.                                                       *)
(***************************************************************************)
EXTENDS FiniteSets

CONSTANTS
    Runs,
    Joiners,
    Host,          \* the namespaces of the host
    Paths,         \* files that namespaces are bound to
    PathOf,        \* persist_path of each run
    JoinAt,        \* ns_path of each joiner
    Types,         \* the namespaces asked for, of those of namespace_config_t
    MapsSelf,      \* runs that map the uid and gid they run with
    Faults,        \* system calls that may fail although the kernel allows them
    MayCrash       \* runs whose runtime process may be killed

None == "none"
Plain == "plain"   \* a file without a namespace on it

ASSUME NamespaceAssumption ==
    /\ Host \notin Runs /\ {None, Plain} \cap (Runs \cup {Host}) = {}
    /\ PathOf \in [Runs -> Paths] /\ JoinAt \in [Joiners -> Paths]
    /\ Types \in [Runs -> SUBSET {"uts", "net", "user"}]
    /\ MapsSelf \subseteq Runs

VARIABLES
    pc,        \* next call of each runtime process
    init,      \* next call of each init process
    flags,     \* the namespaces each init was cloned with
    maps,      \* what each init has written for its user namespace
    hostname,  \* the run whose hostname each uts namespace has
    file,      \* what is at each path: None, Plain or a namespace
    join,      \* next call of each joiner
    fd,        \* what each joiner has opened
    netns      \* the network namespace of each joiner

vars == <<pc, init, flags, maps, hostname, file, join, fd, netns>>
initVars == <<init, flags, maps, hostname>>
joinVars == <<join, fd, netns>>

RuntimeLabels == {"clone", "mkdir", "open", "mount", "unlink", "ok", "error", "left", "killed"}
InitLabels == {"none", "setgroups", "uid_map", "gid_map", "sethostname", "ready", "failed", "gone"}
Spaces == Runs \cup {Host}

TypeOK ==
    /\ pc \in [Runs -> RuntimeLabels]
    /\ init \in [Runs -> InitLabels]
    /\ \A r \in Runs : flags[r] \subseteq Types[r]
    /\ maps \in [Runs -> SUBSET {"deny", "uid", "gid"}]
    /\ hostname \in [Spaces -> Spaces]
    /\ file \in [Paths -> Spaces \cup {None, Plain}]
    /\ join \in [Joiners -> {"open", "setns", "joined", "failed"}]
    /\ fd \in [Joiners -> Spaces \cup {None, Plain}]
    /\ netns \in [Joiners -> Spaces]

Init ==
    /\ pc = [r \in Runs |-> "clone"]
    /\ init = [r \in Runs |-> "none"]
    /\ flags = [r \in Runs |-> {}]
    /\ maps = [r \in Runs |-> {}]
    /\ hostname = [s \in Spaces |-> Host]
    /\ file = [p \in Paths |-> None]
    /\ join = [j \in Joiners |-> "open"]
    /\ fd = [j \in Joiners |-> None]
    /\ netns = [j \in Joiners |-> Host]

Fails(call, possible) == ~possible \/ call \in Faults
RunStep(r, call, next) == pc[r] = call /\ pc' = [pc EXCEPT ![r] = next]
InitStep(r, call, next) == init[r] = call /\ init' = [init EXCEPT ![r] = next]

\* The namespace of a type that the init of r is in.
Space(r, type) == IF type \in flags[r] THEN r ELSE Host

----------------------------------------------------------------------------
(* The init process *)

\* Wrong: forgets CLONE_NEWUTS.
CloneFlagsNoUts(r) == Types[r] \ {"uts"}

\* Wrong: all of them, whatever is configured.
CloneFlagsAll(r) == {"uts", "net", "user"}

\* namespace_get_clone_flags
CloneFlags(r) == Types[r]

\* The clone, in container_start: a new uts namespace begins with the hostname that
\* the runtime's has at that moment.  The init maps its user first if it has to.
Clone(r) ==
    /\ RunStep(r, "clone", "mkdir")
    /\ flags' = [flags EXCEPT ![r] = CloneFlags(r)]
    /\ init' = [init EXCEPT ![r] = IF "user" \in Types[r] THEN "setgroups" ELSE "sethostname"]
    /\ hostname' = IF "uts" \in CloneFlags(r)
                   THEN [hostname EXCEPT ![r] = hostname[Host]] ELSE hostname
    /\ UNCHANGED <<maps, file, joinVars>>

\* namespace_setup_user: the result of the first write is ignored.
DenySetgroups(r) ==
    /\ InitStep(r, "setgroups", "uid_map")
    /\ \/ maps' = [maps EXCEPT ![r] = @ \cup {"deny"}]
       \/ Fails("setgroups", TRUE) /\ UNCHANGED maps
    /\ UNCHANGED <<pc, flags, hostname, file, joinVars>>

\* The kernel takes one line that maps the writer itself; a gid only after
\* setgroups has been denied.
MapId(r, label, id, possible, next) ==
    /\ \/ possible /\ InitStep(r, label, next) /\ maps' = [maps EXCEPT ![r] = @ \cup {id}]
       \/ Fails(label, possible) /\ InitStep(r, label, "failed") /\ UNCHANGED maps
    /\ UNCHANGED <<pc, flags, hostname, file, joinVars>>

MapUid(r) == MapId(r, "uid_map", "uid", "user" \in flags[r] /\ r \in MapsSelf, "gid_map")

\* Wrong: goes on when the gid cannot be mapped.
MapGidUnchecked(r) ==
    /\ InitStep(r, "gid_map", "sethostname")
    /\ \/ r \in MapsSelf /\ "deny" \in maps[r] /\ maps' = [maps EXCEPT ![r] = @ \cup {"gid"}]
       \/ Fails("gid_map", r \in MapsSelf /\ "deny" \in maps[r]) /\ UNCHANGED maps
    /\ UNCHANGED <<pc, flags, hostname, file, joinVars>>

MapGid(r) ==
    MapId(r, "gid_map", "gid",
          "user" \in flags[r] /\ r \in MapsSelf /\ "deny" \in maps[r], "sethostname")

\* The kernel only lets who is privileged in the user namespace that the uts
\* namespace belongs to.
MaySetHostname(r) == "user" \in flags[r] => "uts" \in flags[r]

\* namespace_setup_uts: the name of the uts namespace the init is in.  A name of more
\* than 64 bytes is one of its failures.
SetHostname(r) ==
    /\ \/ /\ MaySetHostname(r)
          /\ InitStep(r, "sethostname", "ready")
          /\ hostname' = [hostname EXCEPT ![Space(r, "uts")] = r]
       \/ /\ Fails("sethostname", MaySetHostname(r))
          /\ InitStep(r, "sethostname", "failed")
          /\ UNCHANGED hostname
    /\ UNCHANGED <<pc, flags, maps, file, joinVars>>

\* A failed init returns; one that is ready ends some time, or never.
InitExit(r) ==
    /\ InitStep(r, "failed", "gone") \/ InitStep(r, "ready", "gone")
    /\ UNCHANGED <<pc, flags, maps, hostname, file, joinVars>>

(* namespace_persist *)

\* mkdir of the directory of the path, whose result is ignored.
MkdirParent(r) ==
    /\ RunStep(r, "mkdir", "open")
    /\ UNCHANGED <<initVars, file, joinVars>>

\* Wrong: without O_EXCL.
CreateFileShared(r) ==
    /\ \/ /\ RunStep(r, "open", "mount")
          /\ file' = [file EXCEPT ![PathOf[r]] = IF @ = None THEN Plain ELSE @]
       \/ Fails("open", TRUE) /\ RunStep(r, "open", "error") /\ UNCHANGED file
    /\ UNCHANGED <<initVars, joinVars>>

\* open with O_CREAT | O_EXCL: the path must be free.
CreateFile(r) ==
    LET p == PathOf[r] IN
    /\ \/ /\ file[p] = None
          /\ RunStep(r, "open", "mount")
          /\ file' = [file EXCEPT ![p] = Plain]
       \/ /\ Fails("open", file[p] = None)
          /\ RunStep(r, "open", "error")
          /\ UNCHANGED file
    /\ UNCHANGED <<initVars, joinVars>>

\* Bind mount of /proc/<pid>/ns/net, which is there while the init lives.
BindNamespace(r) ==
    /\ \/ /\ init[r] # "gone"
          /\ RunStep(r, "mount", "ok")
          /\ file' = [file EXCEPT ![PathOf[r]] = Space(r, "net")]
       \/ /\ Fails("mount", init[r] # "gone")
          /\ RunStep(r, "mount", "unlink")
          /\ UNCHANGED file
    /\ UNCHANGED <<initVars, joinVars>>

\* Wrong: leaves the file.
UnlinkNot(r) ==
    /\ RunStep(r, "unlink", "error")
    /\ UNCHANGED <<initVars, file, joinVars>>

\* unlink after the failed mount; a mount point cannot be unlinked.  Its result is
\* ignored; "left" are the runs where it failed.
Unlink(r) ==
    /\ \/ /\ RunStep(r, "unlink", "error")
          /\ file' = [file EXCEPT ![PathOf[r]] = IF @ = Plain THEN None ELSE @]
       \/ Fails("unlink", TRUE) /\ RunStep(r, "unlink", "left") /\ UNCHANGED file
    /\ UNCHANGED <<initVars, joinVars>>

Crash(r) ==
    /\ r \in MayCrash /\ pc[r] \notin {"clone", "ok", "error", "left", "killed"}
    /\ pc' = [pc EXCEPT ![r] = "killed"]
    /\ UNCHANGED <<initVars, file, joinVars>>

(* namespace_join *)

JoinOpen(j) ==
    /\ join[j] = "open"
    /\ \/ /\ file[JoinAt[j]] # None
          /\ fd' = [fd EXCEPT ![j] = file[JoinAt[j]]]
          /\ join' = [join EXCEPT ![j] = "setns"]
       \/ /\ Fails("join", file[JoinAt[j]] # None)
          /\ join' = [join EXCEPT ![j] = "failed"]
          /\ UNCHANGED fd
    /\ UNCHANGED <<pc, initVars, file, netns>>

\* Wrong: takes any failure of setns for success.
SetnsUnchecked(j) ==
    /\ join[j] = "setns"
    /\ join' = [join EXCEPT ![j] = "joined"]
    /\ netns' = [netns EXCEPT ![j] = IF fd[j] \in Spaces THEN fd[j] ELSE @]
    /\ fd' = [fd EXCEPT ![j] = None]
    /\ UNCHANGED <<pc, initVars, file>>

\* setns refuses a file that is no namespace, such as one not yet mounted upon.
Setns(j) ==
    /\ join[j] = "setns"
    /\ \/ /\ fd[j] \in Spaces
          /\ netns' = [netns EXCEPT ![j] = fd[j]]
          /\ join' = [join EXCEPT ![j] = "joined"]
       \/ /\ Fails("setns", fd[j] \in Spaces)
          /\ join' = [join EXCEPT ![j] = "failed"]
          /\ UNCHANGED netns
    /\ fd' = [fd EXCEPT ![j] = None]
    /\ UNCHANGED <<pc, initVars, file>>

Terminated ==
    /\ \A r \in Runs : pc[r] \in {"ok", "error", "left", "killed"} /\ init[r] \in {"none", "gone"}
    /\ \A j \in Joiners : join[j] \in {"joined", "failed"}
    /\ UNCHANGED vars

RuntimeNext(r) ==
    Clone(r) \/ MkdirParent(r) \/ CreateFile(r) \/ BindNamespace(r) \/ Unlink(r) \/ Crash(r)
InitNext(r) == DenySetgroups(r) \/ MapUid(r) \/ MapGid(r) \/ SetHostname(r) \/ InitExit(r)

Next ==
    \/ \E r \in Runs : RuntimeNext(r) \/ InitNext(r)
    \/ \E j \in Joiners : JoinOpen(j) \/ Setns(j)

Spec == Init /\ [][Next \/ Terminated]_vars

----------------------------------------------------------------------------
(* What the functions promise.                                             *)

\* A namespace that namespace_persist has reported persisted stays at its path,
\* and no two runs are told so of one path, however they race (O_EXCL).
PersistedForGood ==
    /\ \A r \in Runs : pc[r] = "ok" => file[PathOf[r]] = Space(r, "net")
    /\ \A r, s \in Runs : pc[r] = "ok" /\ pc[s] = "ok" /\ r # s => PathOf[r] # PathOf[s]

\* A file that holds no namespace is the work of a runtime that is still at it, was
\* killed or could not unlink it: a failed namespace_persist removes its own file and
\* no other.
NothingLeftBehind ==
    \A p \in Paths : file[p] = Plain =>
        \E r \in Runs : PathOf[r] = p /\ pc[r] \in {"mount", "unlink", "left", "killed"}

\* Who has joined is in the namespace that was persisted at the path, also when
\* it opened the file while it was being set up.
JoinedPersisted ==
    \A j \in Joiners : join[j] = "joined" =>
        /\ netns[j] = file[JoinAt[j]]
        /\ \E r \in Runs : PathOf[r] = JoinAt[j] /\ pc[r] = "ok" /\ netns[j] = Space(r, "net")

\* The hostname of a container with a uts namespace of its own is never that of the
\* host or, by way of the host, of another container; and it is in place when the
\* container gets to its command, whatever name the namespace began with.
HostnamesApart ==
    \A r \in Runs : "uts" \in Types[r] =>
        /\ \A s \in Spaces : hostname[s] = r => s = r
        /\ init[r] = "ready" => hostname[r] = r

\* A container with a user namespace that gets to its command is mapped, uid and
\* gid, and cannot change its groups (the error checks of namespace_setup_user).
FullyMapped ==
    \A r \in Runs : init[r] = "ready" /\ "user" \in Types[r] => maps[r] = {"deny", "uid", "gid"}
=============================================================================
