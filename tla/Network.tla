------------------------------ MODULE Network ------------------------------
(***************************************************************************)
(* The network side of `cruntime run` (src/network/network.c), as executed *)
(* by several runtime processes at once on one host.                       *)
(*                                                                         *)
(* The runtime has no daemon and takes no lock: each `cruntime run` is a   *)
(* process of its own, and what the processes share is the host kernel:    *)
(* its link table, its iptables chains and the name "eth0".  Every         *)
(* system() of network.c is one atomic step here, because between two of   *)
(* them any other process may run.  pc[c] is the next command of the       *)
(* process that runs container c.                                          *)
(*                                                                         *)
(* A container is one run: generate_id gives each run a fresh id.  Names   *)
(* of host veth ends ("veth" and eight characters of the id) are taken to  *)
(* be distinct.                                                            *)
(***************************************************************************)
EXTENDS Integers, Sequences, FiniteSets, SequencesExt

CONSTANTS
    Containers,   \* the runs
    Bridges,      \* bridge names
    BridgeOf,     \* --network of each run
    Ips,          \* addresses in play
    NoIp,         \* an empty ip_address
    Pool,         \* what network_allocate_ip may return
    ManualIp,     \* --ip of each run, or NoIp
    OnLink,       \* the addresses from which the gateway is reachable
    HostPorts,    \* host ports, each with its protocol
    ContPorts,    \* container ports, each with its protocol
    Ports,        \* -p options of each run, in order
    Detach,       \* the runs given --detach
    AutoRemove,   \* the runs given --rm
    Deletable,    \* bridges an administrator may delete
    Faults,       \* commands of each run that may fail although the kernel allows them
    MayCrash,     \* the runs whose process may be killed between two commands
    HostNic,      \* has the host an interface of its own called eth0?
    None, Nic     \* nobody; the host's own interface

\* The iptables rules of a bridge, in the order network_create_bridge adds them.
BridgeRules == {"masquerade", "accept_intra", "accept_established"}

NextCommand == [masquerade |-> "accept_intra",
                accept_intra |-> "accept_established",
                accept_established |-> "allocate"]

PortMappings == [host : HostPorts, cont : ContPorts]
DnatRules == [host : HostPorts, ip : Ips \cup {NoIp}, cont : ContPorts]
AcceptRules == [ip : Ips \cup {NoIp}, cont : ContPorts]

ASSUME ContainersAssumption ==
    /\ IsFiniteSet(Containers)
    /\ None \notin Containers /\ Nic \notin Containers /\ None # Nic
ASSUME BridgeAssumption == BridgeOf \in [Containers -> Bridges] /\ Deletable \subseteq Bridges
ASSUME AddressAssumption ==
    /\ NoIp \notin Ips
    /\ ManualIp \in [Containers -> Ips \cup {NoIp}]
    /\ Pool \subseteq OnLink /\ OnLink \subseteq Ips
ASSUME PortAssumption == Ports \in [Containers -> Seq(PortMappings)]
ASSUME FlagAssumption == HostNic \in BOOLEAN

VARIABLES
    pc,          \* next command of each runtime process
    i,           \* loop index of the port-forwarding loops
    ip,          \* config.network.ip_address
    alive,       \* containers whose init process runs
    bridge,      \* per bridge name: {} or a subset of {"link", "gateway", "up"}
    deleting,    \* bridges network_delete_bridge has taken down, not yet deleted
    rules,       \* per bridge: how often each of its rules is in iptables
    ipForward,   \* net.ipv4.ip_forward
    hostEth0,    \* whose interface the name "eth0" denotes in the host namespace
    veth,        \* host end of each pair: {} or a subset of {"link", "master", "up"}
    ns,          \* network namespace of each container: its eth0 and what is set up
    prerouting,  \* DNAT rules, in the order of the nat PREROUTING chain
    forward      \* ACCEPT rules of published ports in the FORWARD chain

linkVars == <<bridge, hostEth0, veth, ns>>
chainVars == <<rules, ipForward, prerouting, forward>>
runVars == <<i, ip, alive>>
vars == <<pc, runVars, deleting, linkVars, chainVars>>

SetupCommands ==
    {"bridge_show", "bridge_add", "bridge_addr", "bridge_up", "ip_forward"}
      \cup BridgeRules
      \cup {"allocate", "veth_add", "veth_master", "veth_up", "veth_netns",
            "ns_addr", "ns_up", "ns_route", "ns_lo", "dnat", "accept"}
CleanupCommands == {"rm_dnat", "rm_accept", "rm_veth"}
Final == {"exited", "removed", "crashed"}
Labels == {"idle", "started", "failed", "delete"} \cup SetupCommands
            \cup CleanupCommands \cup Final

EmptyNs == [eth0 |-> None, set |-> {}]

ControlOK ==
    /\ pc \in [Containers -> Labels]
    /\ i \in [Containers -> Nat]
    /\ \A c \in Containers : i[c] = 1 \/ i[c] \in DOMAIN Ports[c]
    /\ ip \in [Containers -> Ips \cup {NoIp}]
    /\ alive \subseteq Containers
LinksOK ==
    /\ bridge \in [Bridges -> SUBSET {"link", "gateway", "up"}]
    /\ deleting \subseteq Deletable
    /\ hostEth0 \in Containers \cup {None, Nic}
    /\ veth \in [Containers -> SUBSET {"link", "master", "up"}]
    /\ ns \in [Containers -> [eth0 : Containers \cup {None},
                              set : SUBSET {"addr", "up", "route", "lo"}]]
ChainsOK ==
    /\ rules \in [Bridges -> [BridgeRules -> Nat]]
    /\ ipForward \in BOOLEAN
    /\ prerouting \in Seq(DnatRules)
    /\ forward \in Seq(AcceptRules)
TypeOK == ControlOK /\ LinksOK /\ ChainsOK

Init ==
    /\ pc = [c \in Containers |-> "idle"]
    /\ i = [c \in Containers |-> 1]
    /\ ip = [c \in Containers |-> NoIp]
    /\ alive = {}
    /\ bridge = [b \in Bridges |-> {}]
    /\ deleting = {}
    /\ rules = [b \in Bridges |-> [r \in BridgeRules |-> 0]]
    /\ ipForward = FALSE
    /\ hostEth0 = IF HostNic THEN Nic ELSE None
    /\ veth = [c \in Containers |-> {}]
    /\ ns = [c \in Containers |-> EmptyNs]
    /\ prerouting = <<>>
    /\ forward = <<>>

----------------------------------------------------------------------------
(* Control flow shared by the commands.                                    *)

\* Process c executes cmd and continues with next.
Step(c, cmd, next) == pc[c] = cmd /\ pc' = [pc EXCEPT ![c] = next]

\* The command exits with a non-zero status: the kernel refuses it, or it
\* fails for a reason of its own (no memory, the xtables lock is held, ...).
Fails(c, cmd, possible) == ~possible \/ cmd \in Faults[c]

\* A checked command that fails: "if (exec_cmd(cmd) != CR_OK) return CR_ERROR".
Abort(c, cmd, possible) ==
    /\ Step(c, cmd, "failed")
    /\ Fails(c, cmd, possible)
    /\ UNCHANGED <<runVars, deleting, linkVars, chainVars>>

\* A command whose result is ignored, and which fails.
Ignore(c, cmd, possible, next) ==
    /\ Step(c, cmd, next)
    /\ Fails(c, cmd, possible)
    /\ UNCHANGED <<runVars, deleting, linkVars, chainVars>>

\* The first command of setup_port_forwarding, or none when num_ports is 0.
FirstPort(c) == IF Ports[c] = <<>> THEN "started" ELSE "dnat"

\* Wrong: only the pair is deleted.
FirstCleanupNoPorts(c) == "rm_veth"

\* The first command of network_cleanup_container.
FirstCleanup(c) == IF Ports[c] = <<>> THEN "rm_veth" ELSE "rm_dnat"

\* Wrong: tests i <= num_ports.
NextPortOneTooFar(c, cmd, again, done) ==
    IF i[c] <= Len(Ports[c])
    THEN Step(c, cmd, again) /\ i' = [i EXCEPT ![c] = @ + 1]
    ELSE Step(c, cmd, done) /\ i' = [i EXCEPT ![c] = 1]

\* End of one iteration of a loop over ports: i++ and test i < num_ports.
NextPort(c, cmd, again, done) ==
    IF i[c] < Len(Ports[c])
    THEN Step(c, cmd, again) /\ i' = [i EXCEPT ![c] = @ + 1]
    ELSE Step(c, cmd, done) /\ i' = [i EXCEPT ![c] = 1]

DnatRule(c) == [host |-> Ports[c][i[c]].host, ip |-> ip[c], cont |-> Ports[c][i[c]].cont]

\* Wrong: accepts the host port, which DNAT has already replaced.
AcceptRuleHostPort(c) == [ip |-> ip[c], cont |-> Ports[c][i[c]].host]

AcceptRule(c) == [ip |-> ip[c], cont |-> Ports[c][i[c]].cont]

----------------------------------------------------------------------------
(* container_create and the clone of container_start succeed; the rest of  *)
(* container_start is network_setup_container.                             *)
Start(c) ==
    /\ Step(c, "idle", "bridge_show")
    /\ alive' = alive \cup {c}
    /\ ip' = [ip EXCEPT ![c] = ManualIp[c]]
    /\ UNCHANGED <<i, deleting, linkVars, chainVars>>

(* network_create_bridge *)

\* Wrong: sets the rules up again for a bridge that exists.
BridgeShowThenRules(c) ==
    /\ Step(c, "bridge_show", IF bridge[BridgeOf[c]] # {} THEN "ip_forward" ELSE "bridge_add")
    /\ UNCHANGED <<runVars, deleting, linkVars, chainVars>>

\* `ip link show`: an existing bridge is taken as it is.
BridgeShow(c) ==
    /\ Step(c, "bridge_show", IF bridge[BridgeOf[c]] # {} THEN "allocate" ELSE "bridge_add")
    /\ UNCHANGED <<runVars, deleting, linkVars, chainVars>>

\* Wrong: forgets the gateway address.
BridgeAddNoGateway(c) ==
    LET b == BridgeOf[c]  possible == bridge[b] = {} IN
    \/ /\ Step(c, "bridge_add", "bridge_up")
       /\ possible
       /\ bridge' = [bridge EXCEPT ![b] = {"link"}]
       /\ UNCHANGED <<runVars, deleting, hostEth0, veth, ns, chainVars>>
    \/ Abort(c, "bridge_add", possible)

BridgeAdd(c) ==
    LET b == BridgeOf[c]  possible == bridge[b] = {} IN
    \/ /\ Step(c, "bridge_add", "bridge_addr")
       /\ possible
       /\ bridge' = [bridge EXCEPT ![b] = {"link"}]
       /\ UNCHANGED <<runVars, deleting, hostEth0, veth, ns, chainVars>>
    \/ Abort(c, "bridge_add", possible)

BridgeAddr(c) ==
    LET b == BridgeOf[c]  possible == "link" \in bridge[b] /\ "gateway" \notin bridge[b] IN
    \/ /\ Step(c, "bridge_addr", "bridge_up")
       /\ possible
       /\ bridge' = [bridge EXCEPT ![b] = @ \cup {"gateway"}]
       /\ UNCHANGED <<runVars, deleting, hostEth0, veth, ns, chainVars>>
    \/ Abort(c, "bridge_addr", possible)

BridgeUp(c) ==
    LET b == BridgeOf[c]  possible == "link" \in bridge[b] IN
    \/ /\ Step(c, "bridge_up", "ip_forward")
       /\ possible
       /\ bridge' = [bridge EXCEPT ![b] = @ \cup {"up"}]
       /\ UNCHANGED <<runVars, deleting, hostEth0, veth, ns, chainVars>>
    \/ Abort(c, "bridge_up", possible)

IpForward(c) ==
    \/ /\ Step(c, "ip_forward", "masquerade")
       /\ ipForward' = TRUE
       /\ UNCHANGED <<runVars, deleting, linkVars, rules, prerouting, forward>>
    \/ Ignore(c, "ip_forward", TRUE, "masquerade")

\* The three `iptables -A` of a bridge; -A never looks for an equal rule.
AddBridgeRule(c, r) ==
    \/ /\ Step(c, r, NextCommand[r])
       /\ rules' = [rules EXCEPT ![BridgeOf[c]][r] = @ + 1]
       /\ UNCHANGED <<runVars, deleting, linkVars, ipForward, prerouting, forward>>
    \/ Ignore(c, r, TRUE, NextCommand[r])

(* network_allocate_ip, when no address was given: a random offset into    *)
(* the subnet, without a record of the addresses in use.                   *)
Allocate(c) ==
    /\ Step(c, "allocate", "veth_add")
    /\ IF ip[c] = NoIp THEN \E a \in Pool : ip' = [ip EXCEPT ![c] = a]
                       ELSE ip' = ip
    /\ UNCHANGED <<i, alive, deleting, linkVars, chainVars>>

(* network_setup_veth *)

\* Wrong: takes no notice of the name being in use.
VethAddNoCheck(c) ==
    /\ Step(c, "veth_add", "veth_master")
    /\ hostEth0' = c
    /\ veth' = [veth EXCEPT ![c] = {"link"}]
    /\ UNCHANGED <<runVars, deleting, bridge, ns, chainVars>>

\* Wrong: deletes a pair that is in the way.
VethAddTakeOver(c) ==
    /\ Step(c, "veth_add", "veth_master")
    /\ hostEth0' = c
    /\ veth' = [d \in Containers |->
                  IF d = c THEN {"link"} ELSE IF d = hostEth0 THEN {} ELSE veth[d]]
    /\ UNCHANGED <<runVars, deleting, bridge, ns, chainVars>>

\* Both ends are created in the host's namespace, the container's end under
\* its final name: the kernel refuses the pair while that name is taken.
VethAdd(c) ==
    LET possible == hostEth0 = None /\ veth[c] = {} IN
    \/ /\ Step(c, "veth_add", "veth_master")
       /\ possible
       /\ hostEth0' = c
       /\ veth' = [veth EXCEPT ![c] = {"link"}]
       /\ UNCHANGED <<runVars, deleting, bridge, ns, chainVars>>
    \/ Abort(c, "veth_add", possible)

VethMaster(c) ==
    LET possible == "link" \in veth[c] /\ bridge[BridgeOf[c]] # {} IN
    \/ /\ Step(c, "veth_master", "veth_up")
       /\ possible
       /\ veth' = [veth EXCEPT ![c] = @ \cup {"master"}]
       /\ UNCHANGED <<runVars, deleting, bridge, hostEth0, ns, chainVars>>
    \/ Abort(c, "veth_master", possible)

VethUp(c) ==
    LET possible == "link" \in veth[c] IN
    \/ /\ Step(c, "veth_up", "veth_netns")
       /\ possible
       /\ veth' = [veth EXCEPT ![c] = @ \cup {"up"}]
       /\ UNCHANGED <<runVars, deleting, bridge, hostEth0, ns, chainVars>>
    \/ Abort(c, "veth_up", possible)

\* `ip link set eth0 netns <pid>` moves whatever the host calls eth0; the
\* namespace of a process is gone as soon as the process has exited.
VethNetns(c) ==
    LET possible == hostEth0 # None /\ c \in alive /\ ns[c].eth0 = None IN
    \/ /\ Step(c, "veth_netns", "ns_addr")
       /\ possible
       /\ ns' = [ns EXCEPT ![c].eth0 = hostEth0]
       /\ hostEth0' = None
       /\ UNCHANGED <<runVars, deleting, bridge, veth, chainVars>>
    \/ Abort(c, "veth_netns", possible)

\* A command that nsenter runs in the namespace of c, marking mark.
NsSet(c, cmd, possible, next, mark) ==
    /\ Step(c, cmd, next)
    /\ possible
    /\ ns' = [ns EXCEPT ![c].set = @ \cup {mark}]
    /\ UNCHANGED <<runVars, deleting, bridge, hostEth0, veth, chainVars>>

\* Wrong: adds the route before it brings the interface up.
NsAddrThenRoute(c) ==
    LET possible == c \in alive /\ ns[c].eth0 # None IN
    NsSet(c, "ns_addr", possible, "ns_route", "addr") \/ Abort(c, "ns_addr", possible)

NsAddr(c) ==
    LET possible == c \in alive /\ ns[c].eth0 # None IN
    NsSet(c, "ns_addr", possible, "ns_up", "addr") \/ Abort(c, "ns_addr", possible)

NsUp(c) ==
    LET possible == c \in alive /\ ns[c].eth0 # None IN
    NsSet(c, "ns_up", possible, "ns_route", "up") \/ Abort(c, "ns_up", possible)

\* Wrong: ignores the result.
NsRouteUnchecked(c) ==
    LET possible == c \in alive /\ {"addr", "up"} \subseteq ns[c].set /\ ip[c] \in OnLink IN
    \/ NsSet(c, "ns_route", possible, "ns_lo", "route")
    \/ Ignore(c, "ns_route", possible, "ns_lo")

\* A default route needs a gateway that is on the link of an interface that is up.
NsRoute(c) ==
    LET possible == c \in alive /\ {"addr", "up"} \subseteq ns[c].set /\ ip[c] \in OnLink IN
    NsSet(c, "ns_route", possible, "ns_lo", "route") \/ Abort(c, "ns_route", possible)

NsLo(c) ==
    LET possible == c \in alive IN
    \/ NsSet(c, "ns_lo", possible, FirstPort(c), "lo")
    \/ Ignore(c, "ns_lo", possible, FirstPort(c))

(* network_setup_port_forwarding: a failed DNAT rule skips the ACCEPT rule *)
(* of its port, and the result of the loop is CR_OK whatever happened.     *)
Dnat(c) ==
    \/ /\ Step(c, "dnat", "accept")
       /\ prerouting' = Append(prerouting, DnatRule(c))
       /\ UNCHANGED <<runVars, deleting, linkVars, rules, ipForward, forward>>
    \/ /\ Fails(c, "dnat", TRUE)
       /\ NextPort(c, "dnat", "dnat", "started")
       /\ UNCHANGED <<ip, alive, deleting, linkVars, chainVars>>

Accept(c) ==
    /\ NextPort(c, "accept", "dnat", "started")
    /\ \/ forward' = Append(forward, AcceptRule(c))
       \/ Fails(c, "accept", TRUE) /\ forward' = forward
    /\ UNCHANGED <<ip, alive, deleting, linkVars, rules, ipForward, prerouting>>

----------------------------------------------------------------------------
(* cmd_run after container_start.                                          *)

\* Wrong: leaves a failed start as it is.
StartFailedNoDelete(c) ==
    /\ Step(c, "failed", "exited")
    /\ UNCHANGED <<runVars, deleting, linkVars, chainVars>>

\* container_start failed: container_delete, whether or not --rm was given.
StartFailed(c) ==
    /\ Step(c, "failed", "delete")
    /\ UNCHANGED <<runVars, deleting, linkVars, chainVars>>

\* A detached run returns at once; an attached one when init has exited.
Return(c) ==
    /\ c \notin Detach => c \notin alive
    /\ Step(c, "started", IF c \in AutoRemove \ Detach THEN "delete" ELSE "exited")
    /\ UNCHANGED <<runVars, deleting, linkVars, chainVars>>

\* container_delete ends the init process and calls network_cleanup_container.
Delete(c) ==
    /\ Step(c, "delete", FirstCleanup(c))
    /\ alive' = alive \ {c}
    /\ i' = [i EXCEPT ![c] = 1]
    /\ UNCHANGED <<ip, deleting, linkVars, chainVars>>

(* network_cleanup_container and network_remove_port_forwarding: -D removes *)
(* the first rule equal to the one described, and fails if there is none.  *)
RmDnat(c) ==
    /\ Step(c, "rm_dnat", "rm_accept")
    /\ \/ prerouting' = RemoveFirst(prerouting, DnatRule(c))
       \/ Fails(c, "rm_dnat", TRUE) /\ prerouting' = prerouting
    /\ UNCHANGED <<runVars, deleting, linkVars, rules, ipForward, forward>>

RmAccept(c) ==
    /\ NextPort(c, "rm_accept", "rm_dnat", "rm_veth")
    /\ \/ forward' = RemoveFirst(forward, AcceptRule(c))
       \/ Fails(c, "rm_accept", TRUE) /\ forward' = forward
    /\ UNCHANGED <<ip, alive, deleting, linkVars, rules, ipForward, prerouting>>

\* The pair of c disappears, both ends, wherever its container end is.
DropPair(c) ==
    /\ veth' = [veth EXCEPT ![c] = {}]
    /\ hostEth0' = IF hostEth0 = c THEN None ELSE hostEth0
    /\ ns' = [d \in Containers |->
                IF ns[d].eth0 = c THEN [eth0 |-> None, set |-> ns[d].set \cap {"lo"}]
                                  ELSE ns[d]]

RmVeth(c) ==
    /\ Step(c, "rm_veth", "removed")
    /\ \/ DropPair(c)
       \/ Fails(c, "rm_veth", TRUE) /\ UNCHANGED <<veth, hostEth0, ns>>
    /\ UNCHANGED <<runVars, deleting, bridge, chainVars>>

----------------------------------------------------------------------------
(* network_delete_bridge, called by an administrator's tool.  The rules of *)
(* the bridge stay in iptables.                                            *)
DeleteBridgeDown(b) ==
    /\ b \in Deletable \ deleting
    /\ bridge[b] # {}
    /\ deleting' = deleting \cup {b}
    /\ bridge' = [bridge EXCEPT ![b] = @ \ {"up"}]
    /\ UNCHANGED <<pc, runVars, hostEth0, veth, ns, chainVars>>

DeleteBridgeLink(b) ==
    /\ b \in deleting
    /\ deleting' = deleting \ {b}
    /\ \/ /\ bridge' = [bridge EXCEPT ![b] = {}]
          /\ veth' = [c \in Containers |->
                        IF BridgeOf[c] = b THEN veth[c] \ {"master"} ELSE veth[c]]
       \/ UNCHANGED <<bridge, veth>>
    /\ UNCHANGED <<pc, runVars, hostEth0, ns, chainVars>>

(* The environment of the runtime. *)

\* The init process of a container exits, at any time.
Exit(c) ==
    /\ c \in alive
    /\ alive' = alive \ {c}
    /\ UNCHANGED <<pc, i, ip, deleting, linkVars, chainVars>>

\* Some time after init has exited the kernel destroys its network namespace,
\* and with the interface in it the other end of the pair.
DestroyNetns(c) ==
    /\ c \notin alive
    /\ ns[c].eth0 \in Containers
    /\ DropPair(ns[c].eth0)
    /\ UNCHANGED <<pc, runVars, deleting, bridge, chainVars>>

\* A runtime process is killed between two commands.
Crash(c) ==
    /\ c \in MayCrash
    /\ pc[c] \notin Final \cup {"idle"}
    /\ pc' = [pc EXCEPT ![c] = "crashed"]
    /\ UNCHANGED <<runVars, deleting, linkVars, chainVars>>

\* Every run has ended and the host is at rest.
Terminated ==
    /\ \A c \in Containers : pc[c] \in Final
    /\ UNCHANGED vars

Process(c) ==
    \/ BridgeShow(c) \/ BridgeAdd(c) \/ BridgeAddr(c) \/ BridgeUp(c) \/ IpForward(c)
    \/ \E r \in BridgeRules : AddBridgeRule(c, r)
    \/ Allocate(c)
    \/ VethAdd(c) \/ VethMaster(c) \/ VethUp(c) \/ VethNetns(c)
    \/ NsAddr(c) \/ NsUp(c) \/ NsRoute(c) \/ NsLo(c)
    \/ Dnat(c) \/ Accept(c)
    \/ StartFailed(c) \/ Return(c) \/ Delete(c)
    \/ RmDnat(c) \/ RmAccept(c) \/ RmVeth(c)

Next ==
    \/ \E c \in Containers : Start(c) \/ Process(c) \/ Exit(c) \/ DestroyNetns(c) \/ Crash(c)
    \/ \E b \in Bridges : DeleteBridgeDown(b) \/ DeleteBridgeLink(b)
    \/ Terminated

Spec == Init /\ [][Next]_vars

\* The host schedules a runtime process that can run, and the kernel does
\* not put off the destruction of a namespace for ever.  Nothing obliges an
\* init process to exit, a user to start a run or a process to crash.
FairSpec ==
    /\ Spec
    /\ \A c \in Containers : WF_vars(Process(c)) /\ WF_vars(DestroyNetns(c))

----------------------------------------------------------------------------
(* What the commands promise.                                              *)

InSetup(c) == pc[c] \in SetupCommands
BridgeReady(b) ==
    {"link", "gateway", "up"} \subseteq bridge[b] /\ rules[b]["masquerade"] > 0

\* The name "eth0" is the only thing that ties the end created by
\* `ip link add` to the end that `ip link set eth0 netns` moves, and every
\* process uses it at once: still no container ever receives the interface of
\* another, or the host's own (network_setup_veth).
OwnPeer == \A c \in Containers : ns[c].eth0 \in {None, c}

\* A run whose container_start has returned CR_OK, and whose init still runs,
\* has its own eth0 with an address, up, with a default route, and the other
\* end is up; on a bridge that nobody deletes it is also a port of the bridge
\* (the error checks of network_setup_veth).
ConnectedWhenStarted ==
    \A c \in Containers : pc[c] = "started" /\ c \in alive =>
        /\ ns[c].eth0 = c
        /\ {"addr", "up", "route"} \subseteq ns[c].set
        /\ {"link", "up"} \subseteq veth[c]
        /\ BridgeOf[c] \notin Deletable =>
              "master" \in veth[c] /\ "link" \in bridge[BridgeOf[c]]

\* `iptables -A` does not look for an equal rule, so a second execution of the
\* tail of network_create_bridge would double the rules: on a bridge that
\* nobody deletes, at most one process ever gets there.
BridgeRulesOnce ==
    \A b \in Bridges \ Deletable : \A r \in BridgeRules : rules[b][r] <= 1

\* No other run has the address of c, if c has one.
SoleOwner(c) == ip[c] = NoIp \/ \A d \in Containers \ {c} : ip[d] # ip[c]

\* No second -p option, of c or of another run, names a host port of c.
OwnHostPorts(c) ==
    \A d \in Containers : \A a \in DOMAIN Ports[c], b \in DOMAIN Ports[d] :
        Ports[c][a].host = Ports[d][b].host => d = c /\ b = a

\* The first DNAT rule for a host port is the one that counts: for a run with
\* an address and host ports of its own, whose iptables commands do not fail
\* by themselves, it leads to the container, and the FORWARD chain accepts it,
\* as long as the run lasts (network_setup_port_forwarding and the -D commands
\* of other runs).
PublishedPorts ==
    \A c \in Containers :
        /\ pc[c] = "started" /\ {"dnat", "accept"} \cap Faults[c] = {}
        /\ SoleOwner(c) /\ OwnHostPorts(c)
        => \A m \in ToSet(Ports[c]) :
            /\ [ip |-> ip[c], cont |-> m.cont] \in ToSet(forward)
            /\ \E k \in DOMAIN prerouting :
                  /\ prerouting[k] = [host |-> m.host, ip |-> ip[c], cont |-> m.cont]
                  /\ \A j \in 1 .. k - 1 : prerouting[j].host # m.host

\* After container_delete nothing of the run is left on the host, wherever its
\* setup had stopped: no rule for its address, if it is its own, and no end of
\* its pair (network_cleanup_container, whose commands are all unchecked; here
\* none of them fails by itself).
RemovedClean ==
    \A c \in Containers :
        pc[c] = "removed" /\ CleanupCommands \cap Faults[c] = {} /\ SoleOwner(c) =>
        /\ \A r \in ToSet(prerouting) \cup ToSet(forward) : r.ip # ip[c]
        /\ veth[c] = {} /\ hostEth0 # c
        /\ \A d \in Containers : ns[d].eth0 # c

\* A run may start on a bridge that another process is still configuring;
\* the gateway and the NAT rule are there in the end (network_create_bridge
\* returns CR_OK for any bridge that exists).
GatewayEventually ==
    \A c \in Containers : pc[c] = "started" ~> BridgeReady(BridgeOf[c])

\* The name "eth0" is a lock on the host that network_setup_veth takes and
\* that only the move into a namespace or container_delete gives back: it is
\* always given back.
NameReleased == \A c \in Containers : hostEth0 = c ~> hostEth0 # c

\* Runs make each other fail, at `ip link add` of the bridge and of the pair;
\* but if every init process outlives its setup, they do not all fail.
SomeoneStarts ==
    /\ \A c \in Containers : [](InSetup(c) => c \in alive)
    /\ <>(\E c \in Containers : pc[c] # "idle")
    => <>(\E c \in Containers : pc[c] = "started")

\* A run with --detach and --rm is cleaned up after its init has exited: its
\* port forwarding disappears (cmd_run).
DetachedCleanup ==
    \A c \in Detach \cap AutoRemove :
        (pc[c] \in {"started", "exited"} /\ c \notin alive)
            ~> (\A r \in ToSet(prerouting) \cup ToSet(forward) : r.ip # ip[c])

\* network_setup_veth implements the handing over of interfaces by name.
Handoff == INSTANCE VethHandoff
              WITH holder <- hostEth0, inside <- {c \in Containers : ns[c].eth0 # None}
ImplementsHandoff == Handoff!Spec
=============================================================================
