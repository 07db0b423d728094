---------------------------- MODULE NetworkProofs ----------------------------
(***************************************************************************)
(* Proofs about Network for every set of runs, bridges, addresses, ports   *)
(* and faults.                                                             *)
(*                                                                         *)
(* The inductive invariant has four parts: TypeOK, PortLoop, NameInv and   *)
(* LinkInv.  TypeOK is not inductive alone: the port loops index Ports     *)
(* (PortLoop), and `ip link set eth0 netns` would move the host's own      *)
(* interface into a container as readily as the container's (NameInv).     *)
(* LinkInv carries what each checked command has achieved to the end of    *)
(* network_setup_veth.  With TypeOK and NameInv every step is a step of    *)
(* VethHandoff, or none.                                                   *)
(***************************************************************************)
EXTENDS Network, SequenceTheorems, WellFoundedInduction, TLAPS

\* The loops over ports are only entered and repeated with a valid index.
PortLoop ==
    \A c \in Containers :
        pc[c] \in {"dnat", "accept", "rm_dnat", "rm_accept"} => i[c] \in DOMAIN Ports[c]

\* The end of a pair called eth0 on the host, and one in a namespace, belong to
\* a pair that exists; a process that is about to use the name owns it.
NameInv ==
    \A c \in Containers :
        /\ ns[c].eth0 \in {None, c}
        /\ hostEth0 = c => "link" \in veth[c] /\ ns[c].eth0 = None
        /\ ns[c].eth0 = c => "link" \in veth[c]
        /\ pc[c] \in {"veth_master", "veth_up", "veth_netns"} => hostEth0 = c

\* Every non-empty set of naturals has a least element.
LEMMA LeastElement ==
    ASSUME NEW T, T \subseteq Nat, T # {}
    PROVE  Min(T) \in T /\ \A y \in T : Min(T) =< y
<1>1. PICK x \in T : \A y \in T : <<y, x>> \notin OpToRel(<, Nat)
  BY NatLessThanWellFounded, WFMin
<1>2. ASSUME NEW y \in T PROVE x =< y
  <2>1. CASE y < x
    <3>1. <<y, x>> \in Nat \X Nat /\ <<y, x>>[1] < <<y, x>>[2]
      BY <2>1
    <3>2. <<y, x>> \in OpToRel(<, Nat)
      BY <3>1 DEF OpToRel
    <3> QED
      BY <3>2, <1>1
  <2> QED
    BY <2>1
<1> QED
  BY <1>2 DEF Min

\* Deleting a rule from a chain leaves a chain of rules of the same kind.
LEMMA RemoveFirstType ==
    ASSUME NEW S, NEW s \in Seq(S), NEW e
    PROVE  RemoveFirst(s, e) \in Seq(S)
<1>1. CASE ~\E k \in 1 .. Len(s) : s[k] = e
  BY <1>1 DEF RemoveFirst
<1>2. CASE \E k \in 1 .. Len(s) : s[k] = e
  <2> DEFINE I == {k \in 1 .. Len(s) : s[k] = e}
             m == Min(I)
  <2>1. I # {} /\ I \subseteq Nat /\ Len(s) \in Nat
    BY <1>2
  <2>2. m \in 1 .. Len(s)
    BY <2>1, LeastElement
  <2>3. RemoveFirst(s, e) = RemoveAt(s, m)
    BY <1>2 DEF RemoveFirst, SelectInSeq
  <2> HIDE DEF m
  <2>4. \A k \in 1 .. Len(s) : s[k] \in S
    OBVIOUS
  <2>5. SubSeq(s, 1, m - 1) \in Seq(S)
    BY <2>1, <2>2, <2>4, SubSeqProperties
  <2>6. SubSeq(s, m + 1, Len(s)) \in Seq(S)
    BY <2>1, <2>2, <2>4, SubSeqProperties
  <2> QED
    BY <2>3, <2>5, <2>6, ConcatProperties DEF RemoveAt
<1> QED
  BY <1>1, <1>2

----------------------------------------------------------------------------
(* Type correctness and the port loops.                                    *)

\* The rules a process writes or deletes have their types.
LEMMA RuleTypes ==
    ASSUME TypeOK, PortLoop, NEW c \in Containers,
           pc[c] \in {"dnat", "accept", "rm_dnat", "rm_accept"}
    PROVE  DnatRule(c) \in DnatRules /\ AcceptRule(c) \in AcceptRules
<1>1. Ports[c] \in Seq(PortMappings) /\ i[c] \in DOMAIN Ports[c]
  BY PortAssumption DEF PortLoop
<1>2. Ports[c][i[c]] \in PortMappings
  BY <1>1
<1> QED
  BY <1>2 DEF DnatRule, AcceptRule, DnatRules, AcceptRules, PortMappings, TypeOK, ControlOK

\* One iteration of a loop over the ports: the next command, and an index that
\* is valid whenever the loop goes on.
LEMMA NextPortType ==
    ASSUME TypeOK, PortLoop, NEW c \in Containers,
           NEW cmd \in {"dnat", "accept", "rm_dnat", "rm_accept"},
           NEW again \in Labels, NEW done \in Labels \ {"dnat", "accept", "rm_dnat", "rm_accept"},
           NextPort(c, cmd, again, done)
    PROVE  /\ pc' \in [Containers -> Labels]
           /\ i' \in [Containers -> Nat]
           /\ \A d \in Containers : i'[d] = 1 \/ i'[d] \in DOMAIN Ports[d]
           /\ PortLoop'
<1>1. Ports[c] \in Seq(PortMappings) /\ i[c] \in DOMAIN Ports[c]
  BY PortAssumption DEF PortLoop, NextPort, Step
<1>2. DOMAIN Ports[c] = 1 .. Len(Ports[c]) /\ Len(Ports[c]) \in Nat
  BY <1>1
<1>3. CASE i[c] < Len(Ports[c])
  <2>1. pc' = [pc EXCEPT ![c] = again] /\ i' = [i EXCEPT ![c] = i[c] + 1]
    BY <1>3 DEF NextPort, Step
  <2>2. i[c] + 1 \in DOMAIN Ports[c]
    BY <1>1, <1>2, <1>3
  <2> QED
    BY <2>1, <2>2, <1>2 DEF TypeOK, ControlOK, PortLoop
<1>4. CASE ~(i[c] < Len(Ports[c]))
  <2>1. pc' = [pc EXCEPT ![c] = done] /\ i' = [i EXCEPT ![c] = 1]
    BY <1>4 DEF NextPort, Step
  <2> QED
    BY <2>1 DEF TypeOK, ControlOK, PortLoop
<1> QED
  BY <1>3, <1>4

\* The entry to a loop over the ports.
LEMMA FirstPortType ==
    ASSUME NEW c \in Containers
    PROVE  /\ FirstPort(c) \in {"started", "dnat"} /\ FirstCleanup(c) \in {"rm_veth", "rm_dnat"}
           /\ FirstPort(c) = "dnat" => 1 \in DOMAIN Ports[c]
           /\ FirstCleanup(c) = "rm_dnat" => 1 \in DOMAIN Ports[c]
<1>1. Ports[c] \in Seq(PortMappings)
  BY PortAssumption
<1>2. Ports[c] # <<>> => 1 \in DOMAIN Ports[c]
  BY <1>1
<1> QED
  BY <1>2 DEF FirstPort, FirstCleanup

\* A step from one command to the next keeps the types of the control state.
LEMMA StepType ==
    ASSUME ControlOK, PortLoop, NEW c \in Containers, NEW cmd, NEW next \in Labels,
           next \in {"dnat", "accept", "rm_dnat", "rm_accept"} => i[c] \in DOMAIN Ports[c],
           Step(c, cmd, next), UNCHANGED runVars
    PROVE  ControlOK' /\ PortLoop'
BY DEF ControlOK, PortLoop, Step, runVars

\* The control state after each step.
LEMMA ControlStep ==
    ASSUME TypeOK, PortLoop, [Next]_vars
    PROVE  ControlOK' /\ PortLoop'
<1> USE DEF Labels, SetupCommands, CleanupCommands, Final, BridgeRules, runVars
<1>1. ASSUME NEW c \in Containers, Process(c) PROVE ControlOK' /\ PortLoop'
  <2> USE DEF TypeOK
  <2>1. CASE BridgeShow(c)
    BY <2>1, StepType DEF BridgeShow
  <2>2. CASE BridgeAdd(c)
    BY <2>2, StepType DEF BridgeAdd, Abort
  <2>3. CASE BridgeAddr(c)
    BY <2>3, StepType DEF BridgeAddr, Abort
  <2>4. CASE BridgeUp(c)
    BY <2>4, StepType DEF BridgeUp, Abort
  <2>5. CASE IpForward(c)
    BY <2>5, StepType DEF IpForward, Ignore
  <2>6. ASSUME NEW r \in BridgeRules, AddBridgeRule(c, r) PROVE ControlOK' /\ PortLoop'
    <3>1. NextCommand[r] \in {"accept_intra", "accept_established", "allocate"}
      BY DEF NextCommand
    <3>2. Step(c, r, NextCommand[r]) /\ UNCHANGED runVars
      BY <2>6 DEF AddBridgeRule, Ignore
    <3> QED
      BY <3>1, <3>2, StepType
  <2>7. CASE Allocate(c)
    BY <2>7, AddressAssumption DEF Allocate, Step, ControlOK, PortLoop
  <2>8. CASE VethAdd(c)
    BY <2>8, StepType DEF VethAdd, Abort
  <2>9. CASE VethMaster(c)
    BY <2>9, StepType DEF VethMaster, Abort
  <2>10. CASE VethUp(c)
    BY <2>10, StepType DEF VethUp, Abort
  <2>11. CASE VethNetns(c)
    BY <2>11, StepType DEF VethNetns, Abort
  <2>12. CASE NsAddr(c)
    BY <2>12, StepType DEF NsAddr, NsSet, Abort
  <2>13. CASE NsUp(c)
    BY <2>13, StepType DEF NsUp, NsSet, Abort
  <2>14. CASE NsRoute(c)
    BY <2>14, StepType DEF NsRoute, NsSet, Abort
  <2>15. CASE NsLo(c)
    <3>1. Step(c, "ns_lo", FirstPort(c)) /\ UNCHANGED runVars
      BY <2>15 DEF NsLo, NsSet, Ignore
    <3>2. FirstPort(c) \in {"dnat", "accept", "rm_dnat", "rm_accept"} => i[c] \in DOMAIN Ports[c]
      BY FirstPortType DEF ControlOK
    <3> QED
      BY <3>1, <3>2, StepType, FirstPortType
  <2>16. CASE Dnat(c)
    <3>1. CASE Step(c, "dnat", "accept") /\ UNCHANGED runVars
      <4>1. i[c] \in DOMAIN Ports[c]
        BY <3>1 DEF PortLoop, Step
      <4> QED
        BY <3>1, <4>1, StepType
    <3>2. CASE NextPort(c, "dnat", "dnat", "started") /\ UNCHANGED <<ip, alive>>
      BY <3>2, NextPortType DEF ControlOK
    <3> QED
      BY <2>16, <3>1, <3>2 DEF Dnat
  <2>17. CASE Accept(c)
    BY <2>17, NextPortType DEF Accept, ControlOK
  <2>18. CASE StartFailed(c)
    BY <2>18, StepType DEF StartFailed
  <2>19. CASE Return(c)
    BY <2>19, StepType DEF Return
  <2>20. CASE Delete(c)
    BY <2>20, FirstPortType DEF Delete, Step, ControlOK, PortLoop
  <2>21. CASE RmDnat(c)
    <3>1. Step(c, "rm_dnat", "rm_accept") /\ UNCHANGED runVars
      BY <2>21 DEF RmDnat
    <3>2. i[c] \in DOMAIN Ports[c]
      BY <3>1 DEF PortLoop, Step
    <3> QED
      BY <3>1, <3>2, StepType
  <2>22. CASE RmAccept(c)
    BY <2>22, NextPortType DEF RmAccept, ControlOK
  <2>23. CASE RmVeth(c)
    BY <2>23, StepType DEF RmVeth
  <2> QED
    BY <1>1, <2>1, <2>2, <2>3, <2>4, <2>5, <2>6, <2>7, <2>8, <2>9, <2>10, <2>11,
       <2>12, <2>13, <2>14, <2>15, <2>16, <2>17, <2>18, <2>19, <2>20, <2>21, <2>22,
       <2>23 DEF Process
<1>2. ASSUME NEW c \in Containers, Start(c) PROVE ControlOK' /\ PortLoop'
  BY <1>2, AddressAssumption DEF Start, Step, TypeOK, ControlOK, PortLoop
<1>3. ASSUME NEW c \in Containers, Exit(c) PROVE ControlOK' /\ PortLoop'
  BY <1>3 DEF Exit, TypeOK, ControlOK, PortLoop
<1>4. ASSUME NEW c \in Containers, Crash(c) PROVE ControlOK' /\ PortLoop'
  BY <1>4 DEF Crash, TypeOK, ControlOK, PortLoop
<1>5. ASSUME UNCHANGED <<pc, runVars>> PROVE ControlOK' /\ PortLoop'
  BY <1>5 DEF TypeOK, ControlOK, PortLoop
<1> QED
  BY <1>1, <1>2, <1>3, <1>4, <1>5
     DEF Next, Terminated, DestroyNetns, DeleteBridgeDown, DeleteBridgeLink, vars

\* The disappearance of a pair keeps the types of the links.
LEMMA DropPairType ==
    ASSUME LinksOK, NEW c \in Containers, DropPair(c), UNCHANGED <<deleting, bridge>>
    PROVE  LinksOK'
<1>1. ASSUME NEW d \in Containers
      PROVE  ns'[d] \in [eth0 : Containers \cup {None}, set : SUBSET {"addr", "up", "route", "lo"}]
  <2>1. ns[d].set \in SUBSET {"addr", "up", "route", "lo"}
    BY DEF LinksOK
  <2>2. CASE ns[d].eth0 = c
    BY <2>1, <2>2 DEF DropPair
  <2>3. CASE ns[d].eth0 # c
    BY <2>3 DEF DropPair, LinksOK
  <2> QED
    BY <2>2, <2>3
<1>2. ns' \in [Containers -> [eth0 : Containers \cup {None},
                               set : SUBSET {"addr", "up", "route", "lo"}]]
  BY <1>1 DEF DropPair
<1> QED
  BY <1>2 DEF DropPair, LinksOK

\* The links after each step.
LEMMA LinksStep ==
    ASSUME TypeOK, NameInv, [Next]_vars
    PROVE  LinksOK'
<1> USE DEF TypeOK, LinksOK
<1>1. ASSUME UNCHANGED <<deleting, linkVars>> PROVE LinksOK'
  BY <1>1 DEF linkVars
<1>2. ASSUME NEW c \in Containers, Process(c) PROVE LinksOK'
  <2>1. CASE BridgeAdd(c)
    BY <2>1, <1>1, BridgeAssumption DEF BridgeAdd, Abort
  <2>2. CASE BridgeAddr(c)
    BY <2>2, <1>1, BridgeAssumption DEF BridgeAddr, Abort
  <2>3. CASE BridgeUp(c)
    BY <2>3, <1>1, BridgeAssumption DEF BridgeUp, Abort
  <2>4. CASE VethAdd(c)
    BY <2>4, <1>1 DEF VethAdd, Abort
  <2>5. CASE VethMaster(c)
    BY <2>5, <1>1 DEF VethMaster, Abort
  <2>6. CASE VethUp(c)
    BY <2>6, <1>1 DEF VethUp, Abort
  <2>7. CASE VethNetns(c)
    <3>1. CASE Abort(c, "veth_netns", hostEth0 # None /\ c \in alive /\ ns[c].eth0 = None)
      BY <3>1, <1>1 DEF Abort
    <3>2. CASE pc[c] = "veth_netns" /\ ns' = [ns EXCEPT ![c].eth0 = hostEth0] /\ hostEth0' = None
                 /\ UNCHANGED <<deleting, bridge, veth>>
      <4>1. hostEth0 = c
        BY <3>2 DEF NameInv
      <4>2. [ns[c] EXCEPT !.eth0 = c] \in [eth0 : Containers \cup {None},
                                          set : SUBSET {"addr", "up", "route", "lo"}]
        OBVIOUS
      <4>3. ns' = [ns EXCEPT ![c] = [ns[c] EXCEPT !.eth0 = c]]
        BY <3>2, <4>1
      <4> QED
        BY <3>2, <4>2, <4>3
    <3> QED
      BY <2>7, <3>1, <3>2 DEF VethNetns, Step
  <2>8. CASE NsAddr(c)
    BY <2>8, <1>1 DEF NsAddr, NsSet, Abort
  <2>9. CASE NsUp(c)
    BY <2>9, <1>1 DEF NsUp, NsSet, Abort
  <2>10. CASE NsRoute(c)
    BY <2>10, <1>1 DEF NsRoute, NsSet, Abort
  <2>11. CASE NsLo(c)
    BY <2>11, <1>1 DEF NsLo, NsSet, Ignore
  <2>12. CASE RmVeth(c)
    <3>1. CASE DropPair(c)
      BY <2>12, <3>1, DropPairType DEF RmVeth
    <3>2. CASE UNCHANGED <<veth, hostEth0, ns>>
      BY <2>12, <3>2, <1>1 DEF RmVeth
    <3> QED
      BY <2>12, <3>1, <3>2 DEF RmVeth
  <2>13. CASE \/ BridgeShow(c) \/ IpForward(c)
              \/ (\E r \in BridgeRules : AddBridgeRule(c, r)) \/ Allocate(c)
              \/ Dnat(c) \/ Accept(c) \/ StartFailed(c) \/ Return(c) \/ Delete(c)
              \/ RmDnat(c) \/ RmAccept(c)
    BY <2>13, <1>1 DEF BridgeShow, IpForward, AddBridgeRule, Allocate, Dnat, Accept,
       StartFailed, Return, Delete, RmDnat, RmAccept, Ignore
  <2> QED
    BY <1>2, <2>1, <2>2, <2>3, <2>4, <2>5, <2>6, <2>7, <2>8, <2>9, <2>10, <2>11,
       <2>12, <2>13 DEF Process
<1>3. ASSUME NEW c \in Containers, DestroyNetns(c) PROVE LinksOK'
  BY <1>3, DropPairType DEF DestroyNetns
<1>4. ASSUME NEW b \in Bridges, DeleteBridgeDown(b) PROVE LinksOK'
  BY <1>4 DEF DeleteBridgeDown
<1>5. ASSUME NEW b \in Bridges, DeleteBridgeLink(b) PROVE LinksOK'
  BY <1>5 DEF DeleteBridgeLink
<1> QED
  BY <1>1, <1>2, <1>3, <1>4, <1>5 DEF Next, Terminated, Start, Exit, Crash, vars

\* The iptables chains after each step.
LEMMA ChainsStep ==
    ASSUME TypeOK, PortLoop, [Next]_vars
    PROVE  ChainsOK'
<1> USE DEF TypeOK, ChainsOK
<1>1. ASSUME UNCHANGED chainVars PROVE ChainsOK'
  BY <1>1 DEF chainVars
<1>2. ASSUME NEW c \in Containers, Process(c) PROVE ChainsOK'
  <2>1. CASE IpForward(c)
    BY <2>1, <1>1 DEF IpForward, Ignore
  <2>2. ASSUME NEW r \in BridgeRules, AddBridgeRule(c, r) PROVE ChainsOK'
    <3>1. CASE rules' = [rules EXCEPT ![BridgeOf[c]][r] = @ + 1]
                 /\ UNCHANGED <<ipForward, prerouting, forward>>
      <4>1. BridgeOf[c] \in Bridges
        BY BridgeAssumption
      <4>2. rules[BridgeOf[c]] \in [BridgeRules -> Nat]
        BY <4>1
      <4>3. [rules[BridgeOf[c]] EXCEPT ![r] = @ + 1] \in [BridgeRules -> Nat]
        BY <4>2
      <4>4. rules' = [rules EXCEPT ![BridgeOf[c]] = [rules[BridgeOf[c]] EXCEPT ![r] = @ + 1]]
        BY <3>1
      <4> QED
        BY <3>1, <4>1, <4>3, <4>4
    <3> QED
      BY <2>2, <3>1, <1>1 DEF AddBridgeRule, Ignore
  <2>3. CASE Dnat(c)
    <3>1. CASE pc[c] = "dnat" /\ prerouting' = Append(prerouting, DnatRule(c))
      <4>1. DnatRule(c) \in DnatRules
        BY <3>1, RuleTypes
      <4>2. prerouting' \in Seq(DnatRules)
        BY <3>1, <4>1, AppendProperties
      <4>3. UNCHANGED <<rules, ipForward, forward>>
        BY <2>3 DEF Dnat, chainVars
      <4> QED
        BY <4>2, <4>3
    <3> QED
      BY <2>3, <3>1, <1>1 DEF Dnat, Step
  <2>4. CASE Accept(c)
    <3>1. AcceptRule(c) \in AcceptRules
      BY <2>4, RuleTypes DEF Accept, NextPort, Step
    <3>2. forward' \in Seq(AcceptRules)
      <4>1. CASE forward' = Append(forward, AcceptRule(c))
        BY <3>1, <4>1, AppendProperties
      <4> QED
        BY <2>4, <4>1 DEF Accept
    <3> QED
      BY <2>4, <3>2 DEF Accept
  <2>5. CASE RmDnat(c)
    <3>1. prerouting' \in Seq(DnatRules)
      BY <2>5, RemoveFirstType DEF RmDnat
    <3> QED
      BY <2>5, <3>1 DEF RmDnat
  <2>6. CASE RmAccept(c)
    <3>1. forward' \in Seq(AcceptRules)
      BY <2>6, RemoveFirstType DEF RmAccept
    <3> QED
      BY <2>6, <3>1 DEF RmAccept
  <2>7. CASE \/ BridgeShow(c) \/ BridgeAdd(c) \/ BridgeAddr(c) \/ BridgeUp(c)
             \/ Allocate(c) \/ VethAdd(c) \/ VethMaster(c) \/ VethUp(c)
             \/ VethNetns(c) \/ NsAddr(c) \/ NsUp(c) \/ NsRoute(c) \/ NsLo(c)
             \/ StartFailed(c) \/ Return(c) \/ Delete(c) \/ RmVeth(c)
    BY <2>7, <1>1 DEF BridgeShow, BridgeAdd, BridgeAddr, BridgeUp, Allocate,
       VethAdd, VethMaster, VethUp, VethNetns, NsAddr, NsUp, NsRoute, NsLo,
       StartFailed, Return, Delete, RmVeth, NsSet, Abort, Ignore
  <2> QED
    BY <1>2, <2>1, <2>2, <2>3, <2>4, <2>5, <2>6, <2>7 DEF Process
<1> QED
  BY <1>1, <1>2 DEF Next, Terminated, Start, Exit, DestroyNetns, Crash, DeleteBridgeDown,
     DeleteBridgeLink, vars

----------------------------------------------------------------------------
(* The name eth0.                                                          *)

UsesName == {"veth_master", "veth_up", "veth_netns"}

\* A step that changes no interface, and brings no process to a command that
\* uses the name, keeps NameInv.
LEMMA NameFrame ==
    ASSUME NameInv, UNCHANGED <<hostEth0, veth, ns>>,
           \A d \in Containers : pc'[d] \in UsesName => pc[d] \in UsesName
    PROVE  NameInv'
BY DEF NameInv, UsesName

\* When the pair of c disappears nothing refers to it any more; c must not be
\* about to use the name.
LEMMA NameDropPair ==
    ASSUME TypeOK, NameInv, NEW c \in Containers, DropPair(c),
           pc'[c] \notin UsesName,
           \A d \in Containers : pc'[d] \in UsesName => pc[d] \in UsesName
    PROVE  NameInv'
<1>1. ASSUME NEW d \in Containers, d # c
      PROVE  veth'[d] = veth[d] /\ ns'[d] = ns[d] /\ (hostEth0' = d <=> hostEth0 = d)
  BY <1>1, ContainersAssumption DEF DropPair, NameInv, TypeOK, LinksOK
<1>2. ns'[c].eth0 = None /\ hostEth0' # c
  BY ContainersAssumption DEF DropPair, NameInv, TypeOK, LinksOK
<1>3. c # None
  BY ContainersAssumption
<1> QED
  BY <1>1, <1>2, <1>3 DEF NameInv, UsesName

\* Every step keeps NameInv: only `ip link add` of the pair gives the name to a
\* process, and only when nobody has it.
LEMMA NameStep ==
    ASSUME TypeOK, NameInv, [Next]_vars
    PROVE  NameInv'
<1> USE DEF TypeOK, ControlOK
<1>1. ASSUME NEW c \in Containers, Process(c) PROVE NameInv'
  <2>1. CASE \/ BridgeShow(c) \/ BridgeAdd(c) \/ BridgeAddr(c) \/ BridgeUp(c)
             \/ IpForward(c) \/ (\E r \in BridgeRules : AddBridgeRule(c, r)) \/ Dnat(c)
             \/ Accept(c) \/ StartFailed(c) \/ Return(c) \/ Delete(c) \/ RmDnat(c)
             \/ RmAccept(c)
    <3>1. UNCHANGED <<hostEth0, veth, ns>>
      BY <2>1 DEF BridgeShow, BridgeAdd, BridgeAddr, BridgeUp, IpForward,
         AddBridgeRule, Dnat, Accept, StartFailed, Return, Delete, RmDnat, RmAccept,
         Abort, Ignore, linkVars
    <3>2. \A d \in Containers : pc'[d] \in UsesName => pc[d] \in UsesName
      <4>1. CASE \/ BridgeShow(c) \/ BridgeAdd(c) \/ BridgeAddr(c) \/ BridgeUp(c)
                 \/ IpForward(c)
        BY <4>1 DEF BridgeShow, BridgeAdd, BridgeAddr, BridgeUp, IpForward, Step,
           Abort, Ignore, UsesName
      <4>2. ASSUME NEW r \in BridgeRules, AddBridgeRule(c, r)
            PROVE  \A d \in Containers : pc'[d] \in UsesName => pc[d] \in UsesName
        <5>1. NextCommand[r] \notin UsesName
          BY DEF NextCommand, BridgeRules, UsesName
        <5> QED
          BY <4>2, <5>1 DEF AddBridgeRule, Step, Ignore
      <4>3. CASE \/ Dnat(c) \/ Accept(c) \/ RmDnat(c) \/ RmAccept(c)
        BY <4>3 DEF Dnat, Accept, RmDnat, RmAccept, Step, NextPort, UsesName
      <4>4. CASE \/ StartFailed(c) \/ Return(c) \/ Delete(c)
        BY <4>4 DEF StartFailed, Return, Delete, Step, FirstCleanup, UsesName
      <4> QED
        BY <2>1, <4>1, <4>2, <4>3, <4>4
    <3> QED
      BY <3>1, <3>2, NameFrame
  <2>2. CASE Allocate(c)
    BY <2>2, NameFrame DEF Allocate, Step, UsesName, linkVars
  <2>3. CASE VethAdd(c)
    <3>1. CASE Step(c, "veth_add", "failed") /\ UNCHANGED linkVars
      BY <3>1, NameFrame DEF Step, UsesName, linkVars
    <3>2. CASE /\ Step(c, "veth_add", "veth_master") /\ hostEth0 = None /\ veth[c] = {}
               /\ hostEth0' = c /\ veth' = [veth EXCEPT ![c] = {"link"}] /\ UNCHANGED ns
      <4>1. \A d \in Containers : pc[d] \notin UsesName
        BY <3>2, ContainersAssumption DEF NameInv, UsesName
      <4>2. ns[c].eth0 = None
        BY <3>2 DEF NameInv
      <4> QED
        BY <3>2, <4>1, <4>2 DEF NameInv, Step, LinksOK, UsesName
    <3> QED
      BY <2>3, <3>1, <3>2 DEF VethAdd, Abort
  <2>4. CASE VethMaster(c)
    BY <2>4 DEF VethMaster, Abort, Step, NameInv, LinksOK, linkVars
  <2>5. CASE VethUp(c)
    BY <2>5 DEF VethUp, Abort, Step, NameInv, LinksOK, linkVars
  <2>6. CASE VethNetns(c)
    <3>1. CASE Step(c, "veth_netns", "failed") /\ UNCHANGED linkVars
      BY <3>1, NameFrame DEF Step, UsesName, linkVars
    <3>2. CASE /\ Step(c, "veth_netns", "ns_addr") /\ ns' = [ns EXCEPT ![c].eth0 = hostEth0]
               /\ hostEth0' = None /\ UNCHANGED veth
      <4>1. hostEth0 = c /\ "link" \in veth[c]
        BY <3>2 DEF NameInv, Step
      <4>2. \A d \in Containers \ {c} : pc[d] \notin UsesName
        BY <4>1 DEF NameInv, UsesName
      <4>3. ns'[c].eth0 = c /\ \A d \in Containers \ {c} : ns'[d] = ns[d]
        BY <3>2, <4>1 DEF LinksOK
      <4> QED
        BY <3>2, <4>1, <4>2, <4>3, ContainersAssumption DEF NameInv, Step, UsesName
    <3> QED
      BY <2>6, <3>1, <3>2 DEF VethNetns, Abort
  <2>7. CASE NsAddr(c) \/ NsUp(c) \/ NsRoute(c) \/ NsLo(c)
    <3>1. UNCHANGED <<hostEth0, veth>> /\ \A d \in Containers : ns'[d].eth0 = ns[d].eth0
      BY <2>7 DEF NsAddr, NsUp, NsRoute, NsLo, NsSet, Abort, Ignore, LinksOK, linkVars
    <3>2. \A d \in Containers : pc'[d] \in UsesName => pc[d] \in UsesName
      BY <2>7, FirstPortType
         DEF NsAddr, NsUp, NsRoute, NsLo, NsSet, Abort, Ignore, Step, UsesName
    <3> QED
      BY <3>1, <3>2 DEF NameInv, UsesName
  <2>8. CASE RmVeth(c)
    <3>1. \A d \in Containers : pc'[d] \in UsesName => pc[d] \in UsesName
      BY <2>8 DEF RmVeth, Step, UsesName
    <3>2. pc'[c] \notin UsesName
      BY <2>8 DEF RmVeth, Step, UsesName
    <3> QED
      BY <2>8, <3>1, <3>2, NameFrame, NameDropPair DEF RmVeth
  <2> QED
    BY <1>1, <2>1, <2>2, <2>3, <2>4, <2>5, <2>6, <2>7, <2>8 DEF Process
<1>2. ASSUME NEW c \in Containers, DestroyNetns(c) PROVE NameInv'
  <2>1. ns[c].eth0 = c
    BY <1>2, ContainersAssumption DEF DestroyNetns, NameInv
  <2>2. pc[c] \notin UsesName
    BY <2>1, ContainersAssumption DEF NameInv, UsesName
  <2> QED
    BY <1>2, <2>1, <2>2, NameDropPair DEF DestroyNetns
<1>3. ASSUME NEW c \in Containers, Start(c) \/ Exit(c) \/ Crash(c) PROVE NameInv'
  BY <1>3, NameFrame DEF Start, Exit, Crash, Step, UsesName, linkVars
<1>4. ASSUME NEW b \in Bridges, DeleteBridgeDown(b) PROVE NameInv'
  BY <1>4, NameFrame DEF DeleteBridgeDown
<1>5. ASSUME NEW b \in Bridges, DeleteBridgeLink(b) PROVE NameInv'
  BY <1>5 DEF DeleteBridgeLink, NameInv
<1>6. CASE UNCHANGED vars
  BY <1>6, NameFrame DEF vars, linkVars
<1> QED
  BY <1>1, <1>2, <1>3, <1>4, <1>5, <1>6 DEF Next, Terminated

----------------------------------------------------------------------------

\* Before the first run the host has no bridge, no pair and no rule of ours.
LEMMA InitInv == Init => TypeOK /\ PortLoop /\ NameInv
<1> SUFFICES ASSUME Init PROVE TypeOK /\ PortLoop /\ NameInv
  OBVIOUS
<1> USE DEF Init
<1>1. ControlOK /\ PortLoop
  BY AddressAssumption DEF ControlOK, PortLoop, Labels
<1>2. LinksOK
  BY DEF LinksOK, EmptyNs
<1>3. ChainsOK
  <2>1. <<>> \in Seq(DnatRules) /\ <<>> \in Seq(AcceptRules)
    OBVIOUS
  <2>2. rules \in [Bridges -> [BridgeRules -> Nat]]
    OBVIOUS
  <2> QED
    BY <2>1, <2>2 DEF ChainsOK
<1>4. NameInv
  BY ContainersAssumption DEF NameInv, EmptyNs
<1> QED
  BY <1>1, <1>2, <1>3, <1>4 DEF TypeOK

\* Every variable keeps its type.  Neither the index of the port loops nor the
\* owner of an interface could be typed without the other invariants:
\* `ip link set eth0 netns` moves the interface that has the name.
THEOREM TypeCorrect == Spec => [](TypeOK /\ PortLoop /\ NameInv)
<1>1. TypeOK /\ PortLoop /\ NameInv /\ [Next]_vars => (TypeOK /\ PortLoop /\ NameInv)'
  BY ControlStep, LinksStep, ChainsStep, NameStep DEF TypeOK
<1> QED
  BY InitInv, <1>1, PTL DEF Spec

\* No container ever receives the interface of another container or of the
\* host (network_setup_veth run by any number of processes at once).
THEOREM OwnPeerHolds == Spec => []OwnPeer
<1>1. NameInv => OwnPeer
  BY DEF NameInv, OwnPeer
<1> QED
  BY TypeCorrect, <1>1, PTL

----------------------------------------------------------------------------
(* Connected containers.                                                   *)

\* The commands that follow the move of eth0 into the namespace, and those
\* that follow the commands setting the address, the state and the route.
AfterMove == {"ns_addr", "ns_up", "ns_route", "ns_lo", "dnat", "accept", "started"}
AfterAddr == {"ns_up", "ns_route", "ns_lo", "dnat", "accept", "started"}
AfterUp == {"ns_route", "ns_lo", "dnat", "accept", "started"}
AfterRoute == {"ns_lo", "dnat", "accept", "started"}
AfterMaster == {"veth_up", "veth_netns"} \cup AfterMove

\* What each command of network_setup_veth has achieved for c stays so: the
\* bridge if nobody deletes it, the pair as long as the process still holds
\* the name or the container, with its namespace, is alive.
Connected(c) ==
    /\ pc[c] \in AfterMaster /\ BridgeOf[c] \notin Deletable =>
          "link" \in bridge[BridgeOf[c]]
    /\ pc[c] \in AfterMaster /\ (pc[c] \in AfterMove => c \in alive)
         /\ BridgeOf[c] \notin Deletable => "master" \in veth[c]
    /\ pc[c] = "veth_netns" => "up" \in veth[c]
    /\ pc[c] \in AfterMove /\ c \in alive => ns[c].eth0 = c /\ "up" \in veth[c]
    /\ pc[c] \in AfterAddr /\ c \in alive => "addr" \in ns[c].set
    /\ pc[c] \in AfterUp /\ c \in alive => "up" \in ns[c].set
    /\ pc[c] \in AfterRoute /\ c \in alive => "route" \in ns[c].set

BridgesExist == \A b \in Bridges : bridge[b] # {} => "link" \in bridge[b]

LinkInv == BridgesExist /\ \A c \in Containers : Connected(c)

\* A container stays connected through the steps of others.
LEMMA ConnectedOthers ==
    ASSUME NEW d \in Containers, Connected(d),
           "link" \in bridge[BridgeOf[d]] /\ BridgeOf[d] \notin Deletable
              => "link" \in bridge'[BridgeOf[d]],
           pc'[d] = pc[d], d \in alive' => d \in alive, ns'[d] = ns[d],
           veth'[d] = veth[d] \/ (BridgeOf[d] \in Deletable /\ veth'[d] = veth[d] \ {"master"})
    PROVE  Connected(d)'
BY DEF Connected, AfterMaster, AfterMove

\* A process that is not past the attachment to the bridge needs nothing.
LEMMA ConnectedEarly ==
    ASSUME NEW c \in Containers, pc'[c] \notin AfterMaster
    PROVE  Connected(c)'
BY DEF Connected, AfterMaster, AfterMove, AfterAddr, AfterUp, AfterRoute

\* A process leaves the pairs of other runs alone, and gives none of them the name.
LEMMA PairsOfOthers ==
    ASSUME TypeOK, NameInv, NEW c \in Containers, Process(c), NEW d \in Containers \ {c}
    PROVE  veth'[d] = veth[d] /\ ns'[d] = ns[d] /\ (hostEth0' = d => hostEth0 = d)
<1> USE DEF TypeOK, LinksOK
<1>1. d # None
  BY ContainersAssumption
<1>2. CASE VethAdd(c) \/ VethMaster(c) \/ VethUp(c) \/ VethNetns(c)
  BY <1>1, <1>2 DEF VethAdd, VethMaster, VethUp, VethNetns, Abort, linkVars
<1>3. CASE NsAddr(c) \/ NsUp(c) \/ NsRoute(c) \/ NsLo(c)
  BY <1>3 DEF NsAddr, NsUp, NsRoute, NsLo, NsSet, Abort, Ignore, linkVars
<1>4. CASE RmVeth(c)
  <2>1. c # None
    BY ContainersAssumption
  <2>2. ns[d].eth0 # c
    BY <2>1 DEF NameInv
  <2> QED
    BY <1>1, <1>4, <2>2 DEF RmVeth, DropPair
<1>5. CASE \/ BridgeShow(c) \/ BridgeAdd(c) \/ BridgeAddr(c) \/ BridgeUp(c)
           \/ IpForward(c) \/ (\E r \in BridgeRules : AddBridgeRule(c, r)) \/ Allocate(c)
  BY <1>5 DEF BridgeShow, BridgeAdd, BridgeAddr, BridgeUp, IpForward, AddBridgeRule,
              Allocate, Abort, Ignore, linkVars
<1>6. CASE \/ Dnat(c) \/ Accept(c) \/ StartFailed(c) \/ Return(c) \/ Delete(c)
           \/ RmDnat(c) \/ RmAccept(c)
  BY <1>6 DEF Dnat, Accept, StartFailed, Return, Delete, RmDnat, RmAccept, linkVars
<1> QED
  BY <1>2, <1>3, <1>4, <1>5, <1>6 DEF Process

\* Every step keeps LinkInv: a checked command that succeeds adds what it has
\* set up, and no step of another process takes it away again.
LEMMA LinkStep ==
    ASSUME TypeOK, NameInv, LinkInv, [Next]_vars
    PROVE  LinkInv'
<1> USE DEF TypeOK, ControlOK
<1>1. ASSUME NEW c \in Containers, Process(c) PROVE LinkInv'
  <2>1. \A d \in Containers \ {c} : pc'[d] = pc[d]
    BY <1>1 DEF Process, BridgeShow, BridgeAdd, BridgeAddr, BridgeUp, IpForward,
       AddBridgeRule, Allocate, VethAdd, VethMaster, VethUp, VethNetns, NsAddr, NsUp,
       NsRoute, NsLo, Dnat, Accept, StartFailed, Return, Delete, RmDnat, RmAccept,
       RmVeth, Step, NsSet, NextPort, Abort, Ignore
  <2>2. alive' \subseteq alive
    BY <1>1 DEF Process, BridgeShow, BridgeAdd, BridgeAddr, BridgeUp, IpForward,
       AddBridgeRule, Allocate, VethAdd, VethMaster, VethUp, VethNetns, NsAddr, NsUp,
       NsRoute, NsLo, Dnat, Accept, StartFailed, Return, Delete, RmDnat, RmAccept,
       RmVeth, NsSet, Abort, Ignore, runVars
  <2>3. BridgesExist' /\ \A b \in Bridges : "link" \in bridge[b] => "link" \in bridge'[b]
    <3>1. CASE UNCHANGED bridge
      BY <3>1 DEF LinkInv, BridgesExist
    <3>2. CASE BridgeAdd(c) \/ BridgeAddr(c) \/ BridgeUp(c)
      BY <3>2, BridgeAssumption
         DEF BridgeAdd, BridgeAddr, BridgeUp, Abort, linkVars, LinkInv, BridgesExist, LinksOK
    <3> QED
      BY <1>1, <3>1, <3>2 DEF Process, BridgeShow, IpForward, AddBridgeRule,
         Allocate, VethAdd, VethMaster, VethUp, VethNetns, NsAddr, NsUp, NsRoute,
         NsLo, Dnat, Accept, StartFailed, Return, Delete, RmDnat, RmAccept, RmVeth,
         NsSet, Abort, Ignore, linkVars
  <2>4. \A d \in Containers \ {c} : veth'[d] = veth[d] /\ ns'[d] = ns[d]
    BY <1>1, PairsOfOthers
  <2>5. \A d \in Containers \ {c} : Connected(d)'
    BY <2>1, <2>2, <2>3, <2>4, ConnectedOthers, BridgeAssumption DEF LinkInv
  <2>6. Connected(c)'
    <3>1. CASE pc'[c] \notin AfterMaster
      BY <3>1, ConnectedEarly
    <3>2. CASE VethMaster(c) /\ pc'[c] = "veth_up"
      <4>1. "link" \in bridge[BridgeOf[c]] /\ "master" \in veth'[c] /\ UNCHANGED bridge
        BY <3>2, BridgeAssumption DEF VethMaster, Abort, Step, LinkInv, BridgesExist, LinksOK
      <4> QED
        BY <3>2, <4>1 DEF Connected, AfterMove, AfterAddr, AfterUp, AfterRoute
    <3>3. CASE VethUp(c) /\ pc'[c] = "veth_netns"
      <4>1. pc[c] = "veth_up" /\ veth'[c] = veth[c] \cup {"up"} /\ UNCHANGED bridge
        BY <3>3 DEF VethUp, Abort, Step, LinksOK
      <4>2. Connected(c)
        BY DEF LinkInv
      <4> QED
        BY <3>3, <4>1, <4>2 DEF Connected, AfterMaster, AfterMove, AfterAddr, AfterUp, AfterRoute
    <3>4. CASE VethNetns(c) /\ pc'[c] = "ns_addr"
      <4>1. pc[c] = "veth_netns" /\ hostEth0 = c /\ UNCHANGED <<bridge, veth>>
        BY <3>4 DEF VethNetns, Abort, Step, NameInv
      <4>2. ns'[c].eth0 = c
        BY <3>4, <4>1 DEF VethNetns, Abort, Step, LinksOK
      <4>3. Connected(c)
        BY DEF LinkInv
      <4> QED
        BY <3>4, <4>1, <4>2, <4>3
           DEF Connected, AfterMaster, AfterMove, AfterAddr, AfterUp, AfterRoute
    <3>5. CASE /\ NsAddr(c) \/ NsUp(c) \/ NsRoute(c) \/ NsLo(c)
               /\ pc'[c] \in AfterMaster
      <4>1. UNCHANGED <<bridge, veth, alive>>
        BY <3>5 DEF NsAddr, NsUp, NsRoute, NsLo, NsSet, Abort, Ignore, linkVars, runVars
      <4>2. ns'[c].eth0 = ns[c].eth0 /\ ns[c].set \subseteq ns'[c].set
        BY <3>5 DEF NsAddr, NsUp, NsRoute, NsLo, NsSet, Abort, Ignore, linkVars, LinksOK
      <4>3. \/ pc[c] = "ns_addr" /\ pc'[c] = "ns_up" /\ "addr" \in ns'[c].set
            \/ pc[c] = "ns_up" /\ pc'[c] = "ns_route" /\ "up" \in ns'[c].set
            \/ pc[c] = "ns_route" /\ pc'[c] = "ns_lo" /\ "route" \in ns'[c].set
            \/ pc[c] = "ns_lo" /\ pc'[c] \in {"dnat", "started"}
        BY <3>5, FirstPortType
           DEF NsAddr, NsUp, NsRoute, NsLo, NsSet, Abort, Ignore, Step, LinksOK, AfterMaster,
               AfterMove
      <4>4. Connected(c)
        BY DEF LinkInv
      <4> QED
        BY <4>1, <4>2, <4>3, <4>4
           DEF Connected, AfterMaster, AfterMove, AfterAddr, AfterUp, AfterRoute
    <3>6. CASE Dnat(c) \/ Accept(c)
      <4>1. UNCHANGED <<bridge, veth, ns, alive>>
        BY <3>6 DEF Dnat, Accept, linkVars, runVars
      <4>2. pc[c] \in {"dnat", "accept"} /\ pc'[c] \in {"dnat", "accept", "started"}
        BY <3>6 DEF Dnat, Accept, NextPort, Step
      <4>3. Connected(c)
        BY DEF LinkInv
      <4> QED
        BY <4>1, <4>2, <4>3
           DEF Connected, AfterMaster, AfterMove, AfterAddr, AfterUp, AfterRoute
    <3>7. CASE BridgeShow(c) \/ BridgeAdd(c) \/ BridgeAddr(c) \/ BridgeUp(c) \/ IpForward(c)
      <4>1. pc'[c] \notin AfterMaster
        BY <3>7 DEF BridgeShow, BridgeAdd, BridgeAddr, BridgeUp, IpForward, Step, Abort, Ignore,
                    AfterMaster, AfterMove
      <4> QED
        BY <4>1, <3>1
    <3>8. ASSUME NEW r \in BridgeRules, AddBridgeRule(c, r) PROVE Connected(c)'
      <4>1. NextCommand[r] \notin AfterMaster
        BY DEF NextCommand, BridgeRules, AfterMaster, AfterMove
      <4>2. pc'[c] = NextCommand[r]
        BY <3>8 DEF AddBridgeRule, Step, Ignore
      <4> QED
        BY <4>1, <4>2, <3>1
    <3>9. CASE Allocate(c) \/ VethAdd(c) \/ StartFailed(c) \/ Return(c) \/ Delete(c)
      <4>1. pc'[c] \notin AfterMaster
        BY <3>9 DEF Allocate, VethAdd, StartFailed, Return, Delete, FirstCleanup, Step, Abort,
                    AfterMaster, AfterMove
      <4> QED
        BY <4>1, <3>1
    <3>10. CASE RmDnat(c) \/ RmAccept(c) \/ RmVeth(c)
      <4>1. pc'[c] \notin AfterMaster
        BY <3>10 DEF RmDnat, RmAccept, RmVeth, NextPort, Step, AfterMaster, AfterMove
      <4> QED
        BY <4>1, <3>1
    <3>11. CASE VethMaster(c) \/ VethUp(c) \/ VethNetns(c)
      <4>1. \/ VethMaster(c) /\ pc'[c] = "veth_up"
            \/ VethUp(c) /\ pc'[c] = "veth_netns"
            \/ VethNetns(c) /\ pc'[c] = "ns_addr"
            \/ pc'[c] = "failed"
        BY <3>11 DEF VethMaster, VethUp, VethNetns, Step, Abort
      <4>2. "failed" \notin AfterMaster
        BY DEF AfterMaster, AfterMove
      <4> QED
        BY <4>1, <4>2, <3>1, <3>2, <3>3, <3>4
    <3> QED
      BY <1>1, <3>1, <3>5, <3>6, <3>7, <3>8, <3>9, <3>10, <3>11 DEF Process
  <2> QED
    BY <2>3, <2>5, <2>6 DEF LinkInv
<1>2. ASSUME NEW c \in Containers, Start(c) PROVE LinkInv'
  <2>1. pc'[c] \notin AfterMaster /\ UNCHANGED linkVars
    BY <1>2 DEF Start, Step, AfterMaster, AfterMove
  <2>2. \A d \in Containers \ {c} : pc'[d] = pc[d] /\ (d \in alive' => d \in alive)
    BY <1>2 DEF Start, Step
  <2> QED
    BY <2>1, <2>2, ConnectedEarly, ConnectedOthers DEF LinkInv, BridgesExist, linkVars
<1>3. ASSUME NEW c \in Containers, Crash(c) PROVE LinkInv'
  <2>1. pc'[c] \notin AfterMaster /\ UNCHANGED <<linkVars, alive>>
    BY <1>3 DEF Crash, AfterMaster, AfterMove, runVars
  <2>2. \A d \in Containers \ {c} : pc'[d] = pc[d]
    BY <1>3 DEF Crash
  <2> QED
    BY <2>1, <2>2, ConnectedEarly, ConnectedOthers DEF LinkInv, BridgesExist, linkVars
<1>4. ASSUME NEW c \in Containers, Exit(c) PROVE LinkInv'
  <2>1. alive' \subseteq alive /\ UNCHANGED <<pc, linkVars>>
    BY <1>4 DEF Exit
  <2> QED
    BY <2>1, ConnectedOthers DEF LinkInv, BridgesExist, linkVars
<1>5. ASSUME NEW c \in Containers, DestroyNetns(c) PROVE LinkInv'
  <2>1. ns[c].eth0 = c /\ DropPair(c) /\ c \notin alive /\ UNCHANGED <<pc, alive, bridge>>
    BY <1>5, ContainersAssumption DEF DestroyNetns, NameInv, runVars
  <2>2. pc[c] \notin UsesName
    BY <2>1, ContainersAssumption DEF NameInv, UsesName
  <2>3. \A d \in Containers \ {c} : veth'[d] = veth[d] /\ ns'[d] = ns[d]
    BY <2>1, ContainersAssumption DEF DropPair, NameInv, LinksOK
  <2>4. \A d \in Containers \ {c} : Connected(d)'
    BY <2>1, <2>3, ConnectedOthers DEF LinkInv
  <2>5. Connected(c)'
    BY <2>1, <2>2 DEF LinkInv, Connected, UsesName, AfterMaster, AfterMove, AfterAddr, AfterUp,
                      AfterRoute
  <2> QED
    BY <2>1, <2>4, <2>5 DEF LinkInv, BridgesExist
<1>6. ASSUME NEW b \in Bridges, DeleteBridgeDown(b) PROVE LinkInv'
  <2>1. BridgesExist' /\ \A e \in Bridges : "link" \in bridge[e] => "link" \in bridge'[e]
    BY <1>6 DEF DeleteBridgeDown, LinkInv, BridgesExist, LinksOK
  <2>2. UNCHANGED <<pc, alive, veth, ns>>
    BY <1>6 DEF DeleteBridgeDown, runVars
  <2> QED
    BY <2>1, <2>2, ConnectedOthers, BridgeAssumption DEF LinkInv
<1>7. ASSUME NEW b \in Bridges, DeleteBridgeLink(b) PROVE LinkInv'
  <2>1. b \in Deletable /\ UNCHANGED <<pc, alive, ns>>
    BY <1>7 DEF DeleteBridgeLink, LinksOK, runVars
  <2>2. BridgesExist' /\ \A e \in Bridges \ {b} : bridge'[e] = bridge[e]
    BY <1>7 DEF DeleteBridgeLink, LinkInv, BridgesExist, LinksOK
  <2>3. \A d \in Containers :
           veth'[d] = veth[d] \/ (BridgeOf[d] = b /\ veth'[d] = veth[d] \ {"master"})
    BY <1>7 DEF DeleteBridgeLink
  <2> QED
    BY <2>1, <2>2, <2>3, ConnectedOthers, BridgeAssumption DEF LinkInv
<1>8. CASE UNCHANGED vars
  BY <1>8, ConnectedOthers DEF vars, runVars, linkVars, LinkInv, BridgesExist
<1> QED
  BY <1>1, <1>2, <1>3, <1>4, <1>5, <1>6, <1>7, <1>8 DEF Next, Terminated

\* No run has a connection yet.
LEMMA LinkInit == Init => LinkInv
BY DEF Init, LinkInv, BridgesExist, Connected, AfterMaster, AfterMove, AfterAddr, AfterUp,
       AfterRoute

\* A container whose start has returned CR_OK has a complete connection for as
\* long as its init runs, whatever the other runs, failing commands, crashes
\* and deletions of bridges do in the meantime (network_setup_veth).
THEOREM ConnectedHolds == Spec => []ConnectedWhenStarted
<1>1. (TypeOK /\ NameInv /\ LinkInv) /\ [Next]_vars => LinkInv'
  BY LinkStep
<1>2. NameInv /\ LinkInv => ConnectedWhenStarted
  BY DEF NameInv, LinkInv, Connected, ConnectedWhenStarted, AfterMaster, AfterMove, AfterAddr,
         AfterUp, AfterRoute
<1> QED
  BY TypeCorrect, LinkInit, <1>1, <1>2, PTL DEF Spec

----------------------------------------------------------------------------
(* Network implements VethHandoff.                                         *)

\* The containers that have their interface, as VethHandoff sees them.
Inside == {c \in Containers : ns[c].eth0 # None}

\* A step that moves no interface is a stutter of the abstract specification.
LEMMA HandoffStutter ==
    ASSUME hostEth0' = hostEth0, \A d \in Containers : ns'[d].eth0 = ns[d].eth0
    PROVE  UNCHANGED Handoff!vars
BY DEF Handoff!vars

\* The disappearance of a pair drops the interface, or takes it from its
\* container, or changes nothing when the pair was gone already.
LEMMA HandoffDropPair ==
    ASSUME TypeOK, NameInv, NEW c \in Containers, DropPair(c)
    PROVE  [Handoff!Next]_Handoff!vars
<1> USE ContainersAssumption DEF TypeOK, LinksOK
<1>1. \A d \in Containers \ {c} : ns'[d].eth0 = ns[d].eth0
  BY DEF NameInv, DropPair
<1>2. ns'[c].eth0 = None
  BY DEF NameInv, DropPair
<1>3. CASE hostEth0 = c
  <2>1. Inside' = Inside /\ hostEth0' = None
    BY <1>1, <1>2, <1>3 DEF Inside, NameInv, DropPair
  <2> QED
    BY <1>3, <2>1 DEF Inside, Handoff!Next, Handoff!Drop
<1>4. CASE hostEth0 # c /\ ns[c].eth0 # None
  <2>1. Inside' = Inside \ {c} /\ c \in Inside /\ hostEth0' = hostEth0
    BY <1>1, <1>2, <1>4 DEF Inside, DropPair
  <2> QED
    BY <2>1 DEF Inside, Handoff!Next, Handoff!Leave
<1>5. CASE hostEth0 # c /\ ns[c].eth0 = None
  BY <1>1, <1>2, <1>5, HandoffStutter DEF DropPair
<1> QED
  BY <1>3, <1>4, <1>5

\* Every step of the runtime processes, of the kernel and of the administrator
\* is a step of the abstract specification or leaves its variables alone.
LEMMA HandoffStep ==
    ASSUME TypeOK, NameInv, [Next]_vars
    PROVE  [Handoff!Next]_Handoff!vars
<1> USE DEF TypeOK, ControlOK, LinksOK
<1>1. ASSUME NEW c \in Containers, Process(c) PROVE [Handoff!Next]_Handoff!vars
  <2>1. CASE \/ BridgeShow(c) \/ BridgeAdd(c) \/ BridgeAddr(c) \/ BridgeUp(c)
             \/ IpForward(c) \/ (\E r \in BridgeRules : AddBridgeRule(c, r)) \/ Allocate(c)
    BY <2>1, HandoffStutter DEF BridgeShow, BridgeAdd, BridgeAddr, BridgeUp, IpForward,
       AddBridgeRule, Allocate, Abort, Ignore, linkVars
  <2>2. CASE \/ Dnat(c) \/ Accept(c) \/ StartFailed(c) \/ Return(c) \/ Delete(c)
             \/ RmDnat(c) \/ RmAccept(c)
    BY <2>2, HandoffStutter
       DEF Dnat, Accept, StartFailed, Return, Delete, RmDnat, RmAccept, linkVars
  <2>3. CASE VethMaster(c) \/ VethUp(c)
    BY <2>3, HandoffStutter DEF VethMaster, VethUp, Abort, linkVars
  <2>4. CASE NsAddr(c) \/ NsUp(c) \/ NsRoute(c) \/ NsLo(c)
    <3>1. hostEth0' = hostEth0 /\ \A d \in Containers : ns'[d].eth0 = ns[d].eth0
      BY <2>4 DEF NsAddr, NsUp, NsRoute, NsLo, NsSet, Abort, Ignore, linkVars
    <3> QED
      BY <3>1, HandoffStutter
  <2>5. CASE VethAdd(c)
    <3>1. CASE UNCHANGED linkVars
      BY <3>1, HandoffStutter DEF linkVars
    <3>2. CASE hostEth0 = None /\ veth[c] = {} /\ hostEth0' = c /\ UNCHANGED ns
      <4>1. ns[c].eth0 = None
        BY <3>2, ContainersAssumption DEF NameInv
      <4> QED
        BY <3>2, <4>1 DEF Handoff!Next, Handoff!Create
    <3> QED
      BY <2>5, <3>1, <3>2 DEF VethAdd, Abort
  <2>6. CASE VethNetns(c)
    <3>1. CASE UNCHANGED linkVars
      BY <3>1, HandoffStutter DEF linkVars
    <3>2. CASE /\ Step(c, "veth_netns", "ns_addr") /\ ns' = [ns EXCEPT ![c].eth0 = hostEth0]
               /\ hostEth0' = None
      <4>1. hostEth0 = c
        BY <3>2 DEF NameInv, Step
      <4>2. ns'[c].eth0 = c /\ \A d \in Containers \ {c} : ns'[d] = ns[d]
        BY <3>2, <4>1
      <4>3. Inside' = Inside \cup {c}
        BY <4>2, ContainersAssumption DEF Inside
      <4> QED
        BY <3>2, <4>1, <4>3 DEF Inside, Handoff!Next, Handoff!Move
    <3> QED
      BY <2>6, <3>1, <3>2 DEF VethNetns, Abort
  <2>7. CASE RmVeth(c)
    BY <2>7, HandoffStutter, HandoffDropPair DEF RmVeth
  <2> QED
    BY <1>1, <2>1, <2>2, <2>3, <2>4, <2>5, <2>6, <2>7 DEF Process
<1>2. ASSUME NEW c \in Containers, DestroyNetns(c) PROVE [Handoff!Next]_Handoff!vars
  <2>1. ns[c].eth0 = c
    BY <1>2, ContainersAssumption DEF DestroyNetns, NameInv
  <2> QED
    BY <1>2, <2>1, HandoffDropPair DEF DestroyNetns
<1>3. ASSUME NEW c \in Containers, Start(c) \/ Exit(c) \/ Crash(c)
      PROVE  [Handoff!Next]_Handoff!vars
  BY <1>3, HandoffStutter DEF Start, Exit, Crash, linkVars
<1>4. ASSUME NEW b \in Bridges, DeleteBridgeDown(b) \/ DeleteBridgeLink(b)
      PROVE  [Handoff!Next]_Handoff!vars
  BY <1>4, HandoffStutter DEF DeleteBridgeDown, DeleteBridgeLink
<1>5. CASE UNCHANGED vars
  BY <1>5, HandoffStutter DEF vars, linkVars
<1> QED
  BY <1>1, <1>2, <1>3, <1>4, <1>5 DEF Next, Terminated

\* The interface that a run makes enters the container of that run or
\* disappears, through the one name that all runs use (network_setup_veth).
THEOREM NetworkImplementsHandoff == Spec => ImplementsHandoff
<1>1. Init => Handoff!Init
  BY DEF Init, EmptyNs, Handoff!Init
<1>2. TypeOK /\ NameInv /\ [Next]_vars => [Handoff!Next]_Handoff!vars
  BY HandoffStep
<1> QED
  BY TypeCorrect, <1>1, <1>2, PTL DEF Spec, ImplementsHandoff, Handoff!Spec
=============================================================================
