# A verification project for CRuntime

CRuntime is a container runtime: `cruntime run` builds a network connection, a
cgroup and a root filesystem for one container and runs a command in it. There
is no daemon and no lock. Every `cruntime run` is a process of its own, and the
processes meet only in the kernel: in its link table, its iptables chains, its
cgroup tree and the directories of an image. What is hard about the program is
therefore what several runs do to each other between two system calls, and what
is left when one of the many commands fails half way.

The specifications here are translated from the code in `src/`. Paths below are
relative to the repository.

## 1. The system

| component | source | state it keeps | operations |
|---|---|---|---|
| command line, life of a run | `src/main.c` | the configuration, the exit status; the container it creates | parse options, create, start, wait, delete |
| container networking | `src/network/network.c` | bridges, veth pairs, network namespaces, iptables chains, `ip_forward` | create and delete a bridge, allocate an address, set up a veth pair, add and remove port forwarding, clean up |
| resource limits | `src/cgroup/cgroup.c` | `/sys/fs/cgroup/cruntime`, one cgroup per container, controllers enabled, limits, frozen, members | create, apply limits, add process, freeze, unfreeze, kill all, destroy, read statistics |
| root filesystem | `src/namespace/namespace.c` | mount namespace of each init, directories of the image | set up mounts, pivot root |
| namespaces | `src/namespace/namespace.c` | namespaces of each init, their user mapping and hostname, files that namespaces are bound to | clone flags, user mapping, hostname, persist, join |
| overlay storage | `src/storage/storage.c` | overlay workspaces, layers, archives | mount, unmount, remove; create, commit, diff, export and import a layer |
| utilities | `src/utils/utils.c` | log level | ids, sizes, logging, strings, files |
| runtime API | `include/cruntime.h` | | `runtime_*`, `container_*`: declared, called by `main.c`, **not in the repository** |

### How they interact

`cmd_run` fills a configuration, calls `container_create` and
`container_start`, and when the start fails `container_delete`. An attached run
waits for the init process and, with `--rm`, calls `container_delete`; a
detached run returns at once. The functions of the runtime API are missing from
the repository, so three assumptions are made about them, each the plainest
reading of the call sites and the signatures:

* `container_create` makes the cgroup and applies the limits; `container_start`
  clones init with the configured namespaces, adds it to the cgroup and calls
  `network_setup_container`, and fails when that fails;
* init calls the setup functions of `namespace.c`: user mapping, hostname,
  mounts, root;
* `container_delete` ends init and calls `network_cleanup_container` and
  `cgroup_destroy`.

Nothing in the repository calls `storage.c`, `namespace_persist` or
`namespace_join`. They are modelled as a library: their callers are processes
that may call them at any time (`Namespaces`) or follow a script that an instance
chooses (`Storage`).

Definitions that rest on these assumptions, or on the kernel and the programs
the code runs (`cp`, `rsync`, `tar`, `rm`), are marked external in
`PROJECT.json`.

### Hard behaviours and what makes the components correct

*Networking.* The container's end of every veth pair is created in the host's
namespace under its final name `eth0`, and then moved by that name. The name is
thus a lock that nobody calls a lock: it is taken by `ip link add`, given back by
`ip link set eth0 netns` or by the deletion of the pair, and never waited for.
Correct means: no container receives another's interface; a started run is
connected; a deleted run leaves nothing; runs do not all fail because of each
other; a bridge is configured exactly once although its existence is tested and
then acted upon; published ports reach the container that published them,
although rules are deleted by description.

*Resource limits.* Results of writes are mostly ignored; the host may lack a
controller, or provide it while runs are setting up; the processes of a container
fork and exit while the runtime works. Correct means: nobody runs in a cgroup
before its limits are there; limits do not go missing in the middle; a destroyed
cgroup leaves no process behind; what is killed ends, paused or not.

*Root filesystem.* All runs of an image work in one directory. Correct means:
the host sees no mount; a container that gets to its command has left the host's
tree and has its volumes; inits of one image do not disturb each other.

*Namespaces.* A file is made, mounted upon, and unlinked again when the mount
fails, in separate calls; a joiner may open it in between. Correct means: a
namespace that was reported persisted stays and is the only one at its path; a
failure takes back its own file and no other; a joiner is in the persisted
namespace or has failed. An init that gets to its command is fully mapped, and its
hostname is in no other container, although a new namespace begins with the
hostname that the host has at that moment.

*Storage.* A layer is copied name by name by a program, while containers write
into their upper directory and other calls make layers; files of layers are hard
links to one another. Correct means: layers change only by calls that name them;
a mounted overlay shows the whole image in the right order; what a call copied
undisturbed is complete; failed calls leave nothing that stands in the way of
later ones.

*Command line.* Options fill tables of fixed size and narrow integers, and a run
has a dozen ways out. Correct means: tables and limits are what the options say;
every container that a run has created is started or an attempt is made to delete
it.

The full list of hazards, with the line where each bites and the property that
watches it, is in `PROJECT.json`.

## 2. The modules

| module | models | kind |
|---|---|---|
| `Network` | `network.c`, and `cmd_run` after `container_create` | specification and properties |
| `VethHandoff` | what `network_setup_veth` owes all processes together | abstract specification |
| `Cgroup` | `cgroup.c` and the processes of a container | specification and properties |
| `MountNamespace` | `namespace_setup_mounts`, `namespace_pivot_root` | specification and properties |
| `Namespaces` | the rest of `namespace.c` | specification and properties |
| `Storage` | `storage.c` and the containers on its overlays | specification and properties |
| `CommandLine` | `main` and `cmd_run`, `parse_size`, conversions of limits and addresses | specification, properties, operators |
| `MCNetwork`, `MCCgroup`, `MCMountNamespace`, `MCNamespaces`, `MCStorage`, `MCCommandLine` | values of constants | instances for TLC |
| `NetworkProofs` | `Network`: types, links, connected runs, the refinement of `VethHandoff` | proofs |
| `BridgeProofs` | `Network`: the rules of a bridge | proofs |
| `PortProofs` | `Network`: the rules of published ports, what a deleted run leaves | proofs |
| `CgroupProofs`, `MountNamespaceProofs`, `NamespacesProofs`, `StorageProofs`, `CommandLineProofs` | the module of that name | proofs |

An operator preceded by a comment "Wrong: ..." is a plausible bug: it stands
before the definition it would replace, and each property of each passing run is
violated by one of them.

### Failure

The same three constants recur. `Faults` names the calls that may fail although
the kernel would allow them, per process: `Faults[c]` in `Network`, `Cgroup`,
`MountNamespace` and `Storage`, one set for all in `Namespaces`. `Fails(...)` is
the branch of a call that fails, because the kernel must refuse it or because it
is in `Faults`. `MayCrash` (`MayDie` for an init) are the processes that may be
killed between two calls. So one instance can hold a process whose every step may
go wrong beside one that only meets what the first has left. What a property
promises to the second is then a claim about containment: `AloneSucceeds`,
`MountSucceeds` and `LimitedInside` are of this kind.

### Network

One action per `system()` call; `pc[c]` names the next command of the process
that runs container `c`, so any other process may act between two commands.
`Abort` is `if (exec_cmd(cmd) != CR_OK) return CR_ERROR`, `Ignore` a call whose
result is not used.

| variable | in the code or the kernel |
|---|---|
| `pc`, `i` | next command; index of the loops over ports |
| `ip` | `config.network.ip_address` |
| `alive` | the init process of the container runs |
| `bridge`, `deleting` | bridges with address and state; bridges `network_delete_bridge` is at |
| `rules`, `ipForward` | iptables rules of a bridge; the sysctl |
| `hostEth0` | whose interface the name `eth0` denotes on the host |
| `veth`, `ns` | host end of each pair; namespace of each container |
| `prerouting`, `forward` | rules of published ports, in the order of the chains |

Addresses are values: `OnLink` are those, with their prefix, from which the
gateway is on the link. The host ends of two pairs have different names: `veth`
and eight digits of a random id.

### VethHandoff

An interface appears under the name, moves into the namespace of its container,
or is dropped; an interface leaves with its namespace. `Network` implements this
with `holder <- hostEth0` and `inside` the containers whose namespace has an
`eth0`.

### Cgroup

Each write, `mkdir` and `rmdir` is a step. `available` are the controllers that
the host delegates, at first `Delegated` and after `Delegate` all: what another run
writes to `cgroup.subtree_control` then also serves a run whose own write was
refused. `refused` remembers those runs. A container has an init and one more
process, which init may fork at any time, also before it has been added to the
cgroup; a forked process is in the cgroup of its parent. A killed process is
`dying` for an arbitrary time: the pause of 100 ms in `cgroup_destroy` is not
long enough for anything in particular. With a PID namespace (`cmd_run` always
asks for one) the end of init kills the other process, and init goes last.

### MountNamespace

Each step is a `mount`, `mkdir` + `mount`, `pivot_root`, `umount2` or `rmdir`.
The directories of an image are shared, the mounts are not. A path has one or
two components, enough for a target whose parent is missing and for one below a
tmpfs. Three facts of the kernel matter: nothing can be made on a read-only mount;
nothing can be made in procfs or sysfs, below which only the kernel's own
directories (`KernelDirs`) can be mount points and the image's are hidden
(`InPseudo`); and the removal of a directory detaches what other mount namespaces
have mounted on it.

### Namespaces

`pc` is the runtime process of a run, from `clone` through `namespace_persist`;
`init` is the process it cloned, from `namespace_setup_user` through
`namespace_setup_uts` to the command; `join` is a process in `namespace_join`.
A namespace is named by the run whose clone made it, or is the host's; `file[p]`
is what is at a path: nothing, a plain file, or a namespace bound there. A bind
mount of `/proc/<pid>/ns/net` works while the init lives. Facts of the kernel are
the guards of `MapUid` and `MapGid` (a process maps its own ids only, and its gid
only when it has given up `setgroups`), `MaySetHostname` (a process with a new user
namespace cannot rename the host's uts namespace) and the copy in `Clone`: a new uts
namespace begins with the hostname of the runtime's, which a run that shares it may
have changed. The label `left` is an error with the file still there, because the
`unlink` of `namespace_persist`, whose result is ignored, has failed.

### Storage

A user is a process that makes the calls of `Script[u]` one after the other. A
function is one action for each system call, and for its external program one that
reads the names (`List`), one for each name it deals with (`CopyName`, `RmName`)
and one for its end (`Finish`, `RmDirs`): between two names others may act.
`Transfer` is what each program does with a name. A tree is one directory of
names with contents; `links` says which names of different places are one file,
since `rsync --link-dest` makes hard links and writing in place goes through
them. `CopyFile` is what `cp -a` does with one name: it replaces a file that shares
its inode and any target of a whiteout, writes into the others, and cannot open a
whiteout in the target; the last is hidden by `|| true`, so the file is lost and the
call reports success. `mounts[c]` is the stack of overlays on a merged directory, `inside[c]` the
overlay that a running container keeps although it was detached.

`disturbed` is history: the users whose call in progress had one of its places
changed by somebody else. What is promised to a call only if nobody interferes
is stated for the calls outside it. `Seen` is the lookup of overlayfs from the top;
`Applied` the reference, the layers of the image applied from the base upwards.

### CommandLine

An option is a record of the pieces that the code looks for in its text: has `-p`
a colon, which integers do `atoi` and `strtod` find, which unit follows. `given`
remembers the options read so far, so that properties can relate the configuration
to all of them. The number of a size is the double that `strtod` returns, as an
integer of `Fraction`ths; its product with a power of two is exact, and what C makes
of it is in `ToInt64`: cut off towards zero, and where it does not fit, which is
undefined, `INT64_MIN` (x86-64) or the nearest integer (AArch64). The rounding of
`strtod` itself is outside the model, and so is NaN. `Kilo`, `Fraction` and
`INT64_MAX` are constants, since TLC has 32-bit integers. `deletion` remembers what
`container_delete` returned, which the program ignores; the result of `waitpid` is
ignored too, so `Wait` may go on while the container runs. `Weight`, `Address` and
`Gateway` are pure operators that only the proofs use.

## 3. What is checked

Passing runs:

| run | question | instance |
|---|---|---|
| `net_setup` | do ports stay published, is a deleted run gone, is a bridge configured once, does it become complete, is `eth0` given back, does someone start? | two runs, one bridge, own addresses, the same container port, nothing fails by itself, fair |
| `net_faults` | is a started run connected, does every interface reach its container, is the handing over implemented? | two bridges, one deletable; every command of the first run may fail and its process be killed, it publishes two ports; the second has an address off the subnet |
| `cg_runs` | are limits complete before a process is inside, does a destroyed cgroup leave no process, do limits go missing in the middle when a controller is missing at first, does everything killed end? | two containers, every call of the second may fail and the start of the first; no io controller until the host delegates it, at any time or never; fair |
| `mnt_runs` | is the host untouched, the root switched, `.oldroot` gone, an image left alone by a read-only run, a run of its own image unharmed? | three inits on one image, two alike (symmetry) and the third read-only, with volumes on a tmpfs and below `sys`, failing anywhere and killed; a fourth on another image with volumes on the image, over `proc`, on that volume, and in sysfs |
| `storage` | does an overlay show its image, do layers change only by name, is a copy complete, do leftovers of failed calls stand in the way? | two users, the calls of the second may fail; three overlays, one with a container that writes and deletes; three layers, one of them committed into and then created again over the whiteouts of the commit; a list of layers too long by one; a visible and a hidden name |
| `cmd` | are tables and limits what the options say, is the container accounted for? | all sequences of up to four options out of seventeen, tables of two ports and one mount; sizes 2M, 1.5, 0.75, 8T and two that are not understood, with `Kilo = 8`, `Fraction = 4` and 16-bit integers, so that 8T is 2^15 as 8388608T is 2^63; `container_delete` and `waitpid` may fail |
| `ns` | does a persisted namespace stay, is a failure taken back, where is a joiner, are hostnames and mappings right? | three runs, two with one path, the third sharing all namespaces with the host, whose hostname it may change before or after the others are cloned; a joiner; any call may fail, one runtime may be killed |

Runs that find a violation, each a disagreement between the code and what the
repository says of it (the quotations are in `PROJECT.json`):

| run | what it shows |
|---|---|
| `net_gateway` | a bridge whose creation failed half way is taken as ready by every later run: no gateway, no NAT |
| `net_detached` | nobody cleans up after a detached run with `--rm` |
| `mnt_race` | two inits of one image remove `.oldroot` under each other |
| `storage_commit` | a commit loses the files whose names begin with a dot, and reports success |
| `cmd_env` | `-e` stores through a null pointer |

Other behaviour that modelling brought to light, visible in the specifications but
without a run of its own:

* a run that fails with the address and port of a running one deletes that one's
  forwarding: rules are deleted by description (`RmDnat`, network.c:207);
* init, and what it forks, runs without limits until `cgroup_add_process`; what was
  forked before stays outside the cgroup (`AddProcess`, cgroup.c:164), and
  `LimitedInside` speaks of the processes inside only;
* a process that outlives the pause of 100 ms leaves its cgroup for ever: `rmdir`
  is tried once (`Rmdir`, cgroup.c:268);
* a first run fails when another creates the bridge between `ip link show` and
  `ip link add` (`BridgeAdd`, network.c:33 and 40);
* no run starts on a host with an interface of its own called `eth0`
  (`HostNic = TRUE`, network.c:117);
* two containers may draw one address (`Allocate`, network.c:238);
* without the io controller none of the limits is in force (`SubtreeControl`,
  cgroup.c:83), and the container is started all the same; if the host has the
  controller by then and another run's write succeeds in the middle of
  `cgroup_apply_limits`, the later limits are in force and the earlier are not;
* a read-only run of an image without `.oldroot` cannot pivot, because the
  directory is to be made after the remount (`MkdirOldRoot`, namespace.c:46, 122);
* a volume whose target has a missing parent, or lies below `/proc` or `/sys` where
  the kernel has no such directory, ends the setup (`Mount`, namespace.c:102);
* since `cmd_run` uses the image as root filesystem (main.c:177), mount points
  made for a run stay in the image;
* a runtime killed between the `open` and the `mount` of `namespace_persist` leaves
  a file that makes every later attempt at that path fail (`CreateFile`,
  namespace.c:243);
* a hostname of more than 64 bytes ends the setup (`SetHostname`,
  namespace.c:150);
* the comment above the loop that writes `lowerdir` (storage.c:103),
  docs/ARCHITECTURE.md:298 and IMPLEMENTATION_GUIDE.md:299 give the opposite of the
  order of overlayfs; the loop itself is right (`Lower`, storage.c:104);
* a layer that an earlier commit has left a whiteout in keeps it: `cp` cannot open
  it, `|| true` hides that, and a later create of, or commit into, that layer loses
  the file and reports success (`CopyFile`, storage.c:72 and 258);
* a list of layers that does not fit in a page of mount options can give a
  read-only overlay of its topmost layers, reported as success (`MountOverlay`,
  storage.c:114);
* an option `-m` with a value that is not understood lifts the limit that an
  earlier `-m` has set (`ParseSize`, utils.c:129), and so does one of less than a
  byte (`-m 0.5`) or of 2^63 bytes and more (`-m 8388608T`, utils.c:133);
* when `container_delete` fails, the program reports what it would have reported
  otherwise, and the container stays (`Delete`, main.c:200 and 210);
* the 129th `-p` and the 65th `-v` are dropped silently (`AddPort`, `AddVolume`).

### Bounds

*Number of processes.* The interference of runs is pairwise: two processes race
for a bridge, a name, a rule, a path or a directory, and two with all interleavings
show it. Where a third could matter, a bridge observed by one while another
fails or a path created again after a failure, the proofs cover any number; a
third init on one image and a third run in `ns` are in the instances.

*Data.* Two ports in one run exercise the loops and the `continue`, two runs with
one port each the shared chains. In `Cgroup` one forked process suffices, because
processes differ only in whether they were forked before or after init was added.
In `Storage` a visible and a hidden name, two data values and three layers let a
layer be made over another, linked to a third and committed into; `Room = 2`
stands for the layers that fit in one page. In `CommandLine` tables of two and one
entries are full after at most three options, and `MaxOptions` leaves one more.

*Counters.* No counter is bounded artificially: each run is executed once and each
script is finite. `MaxOptions` is the only bound of a sequence. The failing of
calls is bounded by `Faults`, crashes by `MayCrash` and `MayDie`, deletion of
bridges by `Deletable`.

### Fairness

`Network!FairSpec` is weak fairness of each runtime process and of the kernel's
destruction of dead namespaces. A runtime process never waits for another: each
command succeeds or fails, so a scheduled process makes a step, and weak fairness
is what the scheduler gives. The one thing a process waits for is the exit of its
own init, and there no fairness is assumed: a container may run for ever.
Starting runs, crashes and the administrator are not fair either.
`SomeoneStarts` assumes that init processes outlive the setup, since a container
that exits at once may legitimately fail it. `Cgroup!FairSpec` is weak fairness
of the runtime and of the end of killed processes. The other modules state no
liveness: each of their functions is a finite sequence of calls, none of which
waits.

## 4. What is proved

The proofs hold for every set of runs, bridges, images and paths, all addresses,
port lists, volumes, flags and every set of failing calls and killed processes.
They rest on the named assumptions on the constants in the modules, which TLC
evaluates in every run.

| module | theorem | states |
|---|---|---|
| `NetworkProofs` | `TypeCorrect` | types, valid port indices and the ownership of `eth0` are invariant |
| | `OwnPeerHolds` | no container ever has an interface but its own |
| | `ConnectedHolds` | a started run whose init lives is fully connected |
| | `NetworkImplementsHandoff` | `Network` implements `VethHandoff` |
| `BridgeProofs` | `BridgeRulesOnceHolds` | each rule of a bridge that nobody deletes is added at most once |
| `PortProofs` | `PublishedPortsHolds` | host ports that one run publishes, from an address of its own, lead to it |
| | `RemovedCleanHolds` | a deleted run leaves no rule for its own address and no end of its pair |
| `CgroupProofs` | `TypeCorrect` | types are invariant |
| | `NoLimitMissedLaterHolds` | no run has an earlier limit in force and a later one missing |
| | `LimitedInsideHolds` | unless its controllers were refused, limits are complete before a process is inside |
| | `NoSurvivorsHolds` | in a PID namespace, a destroyed cgroup leaves no live process behind |
| `MountNamespaceProofs` | `TypeCorrect` | types are invariant |
| | `HostUntouchedHolds` | the host never sees a mount |
| | `RootSwitchedHolds` | a container at its command has left the host's tree and has its volumes |
| | `ReadOnlyImageHolds` | no step of a read-only run changes the image |
| | `NoOldRootLeftHolds` | `.oldroot` is gone when all undisturbed inits of an image have ended |
| | `AloneSucceedsHolds` | an undisturbed init that has its image for itself is never refused |
| `NamespacesProofs` | `TypeCorrect` | types are invariant |
| | `PersistedForGoodHolds` | a persisted namespace stays, alone at its path |
| | `NothingLeftBehindHolds` | a plain file belongs to a runtime that is at work, was killed or could not unlink it |
| | `JoinedPersistedHolds` | a joiner is in the namespace persisted at its path |
| | `HostnamesApartHolds` | the hostname of a container never leaves its uts namespace, and is set at its command |
| | `FullyMappedHolds` | a container at its command is fully mapped |
| `StorageProofs` | `TypeCorrect` | types are invariant |
| | `LayersKeptHolds` | a layer changes only by a call that has it as its target |
| | `WholeImageHolds` | a writable overlay shows the whole image under its changes |
| | `MountSucceedsHolds` | mounting succeeds in whatever earlier calls have left |
| | `CopyCompleteHolds` | what an undisturbed call copied is complete, but for hidden names and whiteouts of the target |
| | `RemovedGoneHolds` | a workspace that was removed is gone |
| `CommandLineProofs` | `TypeCorrect` | types are invariant |
| | `MemoryAsGivenHolds` | the limit is the last `-m`, less a fraction of a byte; none exactly when that is not understood, less than a byte or too large |
| | `TablesAsGivenHolds` | the tables are the options, in order, as far as there is room |
| | `AccountedHolds` | a container is started, deleted, or its deletion has failed |
| | `WeightRange`, `WeightMonotone` | `cpu.weight` is in range and grows with the shares |
| | `AddressInSubnet` | a drawn address is in the subnet and not the gateway |

### Why these invariants

*Network.* `OwnPeer` is not inductive: `ip link set eth0 netns` moves whatever has
the name. `NameInv` says that a process between `ip link add` and that command is
the one whose interface has the name, that the interface under the name is in no
namespace, and that both ends belong to a pair that exists. It holds because the
kernel refuses a second `eth0`, and because only the owner of a pair, or the
kernel once the pair is in a dead namespace, deletes it. Even `TypeOK` needs it
(the host's own interface must not move), and needs `PortLoop`, since the port
loops index the list of ports.

`ConnectedWhenStarted` is proved through `LinkInv`, which follows
`network_setup_veth` command by command: after the command that sets the route
the route is there, after the one before it the interface is up, and so on, and no
step of another process, not even the deletion of another bridge or the end of
another container, takes any of it away.

`BridgeRulesOnce` needs a chain of three facts (`CreatedOnce`): a process that has
yet to add a rule must know that the rule is absent; so it must be the only one
that configures the bridge; so the bridge must not have existed, and must have
had no rules, when that process created it. For a bridge an administrator deletes
all three fail, because `network_delete_bridge` leaves the rules.

`PublishedPorts` and `RemovedClean` are about two lists that all runs append to and
delete from by description. Both name what they depend on: that no other run has
the address of the run (`SoleOwner`; the code may draw one address twice), that no
other `-p` names its host port (`OwnHostPorts`; a second one is added behind the
first and never reached), and that its own iptables commands do not fail by
themselves. Nothing is asked of the other runs: any of their commands may fail
and any of them be killed or share addresses and ports among themselves.
`RuleSource` traces every rule to the address of a run and every DNAT rule to one
of its ports, which is why a foreign rule can neither stand in front of a run's
own nor be mistaken for it; it needs that a run keeps its address (`AddressInv`,
`AddressStays`). `Present` follows the loop over the ports: the rules of the ports
behind the index are there.

For `RemovedClean` presence is not enough. Two `-p` options of one run may ask for
one ACCEPT rule, `iptables -A` then adds it twice, and `-D` deletes one of the two
each time. So `Accounts` counts: for each rule with the run's address, the chain
has it at most as often as there are ports whose rule is due for deletion
(`DnatDue`, `AcceptDue`, from `pc` and `i`). An addition makes one port due
(`OwedAdd`), a deletion one less (`OwedRemove`), a failed addition or a killed
setup leave a port due for nothing, which does no harm; at the end none is due.
That `-D` deletes exactly one is `CountRemoved`, by a bijection between the places
in the chain before and after. `PairGone` adds that nobody but the run makes its
pair.

The refinement maps `VethAdd` to `Create`, `VethNetns` to `Move`, the deletion of a
pair to `Drop` or `Leave`, everything else to a stutter.

*Cgroup.* `Inv` locates each container in the sequence of the runtime's calls:
before the clone nobody is inside (`Inside`), after `cgroup_apply_limits` the
limits are complete unless the controllers were refused to that run or the write of
a limit failed (`Limited`), a run with one limit in force has those after it as well,
since controllers once enabled stay enabled (`Gapless`), and in a PID namespace init
is the last to go (`InitLast`). `LimitedInside` then says that the two halves of the sequence do not
overlap; `NoSurvivors` that an empty cgroup which init was in means a gone init,
hence nobody.

*MountNamespace.* `HostUntouched` rests on `PrivateFirst`: whoever mounts has made
its tree private, which is so because a failed remount ends the setup.
`RootSwitched` needs `Progress`, an account of what each position in the list of
mounts has brought about: the volumes before the current one are mounted, the
read-only remount is done, and what was mounted stays mounted.

`NoOldRootLeft` rests on `OldRootHeld`: while `.oldroot` is in an image that did not
bring it, some init is at a call that will remove it. Inits of one image take
it away under each other, and then `mkdir`, `pivot_root` or `rmdir` of one fails,
but the one that made the directory anew, or still has its old root on it, is such
an init. The property leaves out images with an init that may be killed or fail
by itself, since that one keeps its directory, and images with a volume at
`/.oldroot`, which would be made in the image and belongs to nobody.
`AloneSucceeds` is proved through `OnItsWay`, what each call of the setup needs and
finds: the directories of the image are still there, the mounts so far are made,
so the parent of every mount point exists. That the parent of a volume's target
exists, outside of procfs and sysfs or as a directory of the kernel, is a hypothesis
of the property (`ParentsExist`): the code makes one directory, not a path.

*Namespaces.* `IInv` contains the fact that makes `O_EXCL` a lock: two runs that
hold one path are one run (`OneHolder`), where holding begins with the creation of
the file and ends with its `unlink`. `AtPath` says what a holder finds at its path,
and that nothing but a killed runtime or a failed `unlink` leaves something there
without a holder;
`Opened` that a namespace a joiner has open is still the one at the path, because
only a plain file is ever replaced. `InitInv` follows the inits, whose flags are
what the configuration asked for from the clone on. For the hostnames it is enough
that no container's name gets out of its namespace (`Named`): then the host never
has one that a clone could copy.

*Storage.* Two facts carry all proofs. Only layers share files (`LayersShare`): a
hard link joins a name of a layer to the same name of another, never to a
container's upper directory. Hence a write in place of a container stays in its
own place, and copying programs, which replace files, change their target only.
And every operation has a frame (`Frame`): apart from its user it touches the target
of the call, the workspace of it and nothing else, and a call that uses what it
touches becomes disturbed. So a step of another user either disturbs a call or leaves
all it uses as it was (`Untouched`), and each remaining property is an invariant of
the calls that nobody disturbed: `CopiedSoFar`, all names but those left to do are
equal; `MountReady`, the workspace is made; `Removing`, the mount is off and all
names but those left to do are gone. `RemovedGone` also needs `OneMount`: a
container that one call mounts has one mount, since `umount` takes off one.
`WholeImage` is reduced to `OverlaysWhole`, an overlay with an upper directory has
the whole list of layers below it; that looking up from the top finds what
applying from the base leaves is then a fact about lists: both are the last
place that has the name. `Applied` is defined by that last place, so the proof needs
no induction over layers.

*CommandLine.* `Stage` says for each place in the program what the container and
the runtime are. `TypeCorrect` rests on the types of the options
(`OptionAssumption`). `MemoryAsGiven` does not mention the division of `ToInt64`:
`ToInt64Fits` shows that its result is within a byte below what was asked or that
this is out of range, by cases on the sign and on the two ends of the range.
For `TablesAsGiven` an option's place in its table is the number of options of its
kind up to it (`Place`), a cardinality of a set of indices: so an option read last
moves none of the earlier ones (`NextPlace`), and `TableGrows` gives both halves of
the property, the length of the table and its entries, at once for ports and mounts.

*Only model-checked:* all liveness (`GatewayEventually`, `NameReleased`,
`SomeoneStarts`, `KilledEventually`), which is out of the reach of the proof
system. Every invariant and every action property that a passing run checks, and
the refinement, are theorems. What the runs with a violation check is not true and
has no proof.

What the proofs take for granted are the assumptions on constants in the modules.
Those that say something about the host rather than about types: in
`MountNamespace` the parents of the standard mounts (`PathAssumption`: `/dev/pts` is
in `/dev`, the others are in the root); in `Storage` that the base directories
differ (`PathAssumption`) and that no image is an empty list of layers
(`TreeAssumption`); in `Network` that the addresses to be drawn are among those
from which the gateway is reachable (`AddressAssumption`).

## 5. What is not modelled

* The runtime API, because it is not in the repository (section 1), and with it
  `stop`, `pause`, `exec`, `logs` and persistence, which `main.c` does not offer.
* `cgroup_get_stats`, `get_directory_size`, `storage_get_stats`, `cmd_ps`: they
  read and print.
* `utils.c` but for `parse_size`: logging, formatting, trimming, splitting and
  files keep no state of the runtime. `generate_id` is taken to give distinct ids.
* The routing table of the host, hence the conflict of two bridges with the one
  subnet that `cmd_run` always uses; a record of addresses in use, which the code
  does not have either.
* A crash of a user of `Storage`: it leaves the states that a failing program
  leaves as well, and nothing in the code recovers from either.
* Subdirectories of layers, and owners and modes of files.
* Build scripts, `setup.sh`, `windows/`, `examples/`.

## 6. What is left to prove

1. `MountNamespace`: what a run leaves on an image that it may write, besides
   `.oldroot`, as an action property.
2. `Cgroup`: `NoSurvivors` without a PID namespace, under the hypothesis that every
   process of the container was in the cgroup when it was killed.
3. A refinement for `Storage`: the layers with the calls as atomic steps, for calls
   that nobody disturbs.
