----------------------------- MODULE BridgeProofs -----------------------------
(***************************************************************************)
(* network_create_bridge, executed by any number of processes at once,     *)
(* adds each iptables rule of a bridge at most once, as long as nobody     *)
(* deletes the bridge.                                                     *)
(*                                                                         *)
(* That no rule is there twice is not inductive: a process that is still   *)
(* to add a rule must know that the rule is not there yet, hence that it   *)
(* is the only one that configures the bridge, hence that the bridge did   *)
(* not exist, and so had no rules, when it created it.                     *)
(***************************************************************************)
EXTENDS NetworkProofs

\* The commands at which a process has not yet added rule r.
Before(r) ==
    {"bridge_addr", "bridge_up", "ip_forward"} \cup
    (CASE r = "masquerade" -> {"masquerade"}
       [] r = "accept_intra" -> {"masquerade", "accept_intra"}
       [] OTHER -> BridgeRules)

\* The commands of a process that has created its bridge and sets it up.
Configuring == {"bridge_addr", "bridge_up", "ip_forward"} \cup BridgeRules

Configures(c, b) == BridgeOf[c] = b /\ pc[c] \in Configuring

CreatedOnce(b) ==
    /\ \A c, d \in Containers : Configures(c, b) /\ Configures(d, b) => c = d
    /\ \A c \in Containers : Configures(c, b) => bridge[b] # {}
    /\ \A r \in BridgeRules : rules[b][r] =< 1 /\ (bridge[b] = {} => rules[b][r] = 0)
    /\ \A c \in Containers, r \in BridgeRules :
          BridgeOf[c] = b /\ pc[c] \in Before(r) => rules[b][r] = 0

RulesInv == \A b \in Bridges \ Deletable : CreatedOnce(b)

\* A process that has yet to add a rule configures the bridge.
LEMMA BeforeConfiguring == \A r \in BridgeRules : Before(r) \subseteq Configuring
BY DEF Before, Configuring, BridgeRules

\* RulesInv survives a step that adds no rule, creates or deletes no bridge
\* that counts, and brings no process nearer to the head of the sequence.
LEMMA RulesFrame ==
    ASSUME RulesInv, UNCHANGED rules,
           \A b \in Bridges \ Deletable : bridge'[b] = {} <=> bridge[b] = {},
           \A d \in Containers : pc'[d] \in Configuring => pc[d] \in Configuring,
           \A d \in Containers, r \in BridgeRules : pc'[d] \in Before(r) => pc[d] \in Before(r)
    PROVE  RulesInv'
BY DEF RulesInv, CreatedOnce, Configures

\* The usual case of RulesFrame: c leaves network_create_bridge, or is not in it.
LEMMA RulesLeave ==
    ASSUME TypeOK, RulesInv, UNCHANGED rules,
           \A b \in Bridges \ Deletable : bridge'[b] = {} <=> bridge[b] = {},
           NEW c \in Containers, pc'[c] \notin Configuring,
           \A d \in Containers \ {c} : pc'[d] = pc[d]
    PROVE  RulesInv'
<1>1. \A r \in BridgeRules : pc'[c] \notin Before(r)
  BY BeforeConfiguring
<1> QED
  BY <1>1, RulesFrame

\* The whole transition relation keeps RulesInv.
LEMMA RulesStep ==
    ASSUME TypeOK, RulesInv, [Next]_vars
    PROVE  RulesInv'
<1> USE DEF TypeOK, ControlOK
<1>1. ASSUME NEW c \in Containers, Process(c) PROVE RulesInv'
  <2>1. CASE \/ BridgeShow(c) \/ Allocate(c) \/ VethAdd(c)
             \/ VethMaster(c) \/ VethUp(c) \/ VethNetns(c)
    <3>1. UNCHANGED <<rules, bridge>> /\ \A d \in Containers \ {c} : pc'[d] = pc[d]
      BY <2>1 DEF BridgeShow, Allocate, VethAdd, VethMaster, VethUp, VethNetns, Step, Abort,
                  linkVars, chainVars
    <3>2. pc'[c] \notin Configuring
      BY <2>1 DEF BridgeShow, Allocate, VethAdd, VethMaster, VethUp, VethNetns, Step, Abort,
                  Configuring, BridgeRules
    <3> QED
      BY <3>1, <3>2, RulesLeave
  <2>2. CASE NsAddr(c) \/ NsUp(c) \/ NsRoute(c) \/ NsLo(c)
    <3>1. UNCHANGED <<rules, bridge>> /\ \A d \in Containers \ {c} : pc'[d] = pc[d]
      BY <2>2 DEF NsAddr, NsUp, NsRoute, NsLo, NsSet, Step, Abort, Ignore, linkVars, chainVars
    <3>2. pc'[c] \notin Configuring
      BY <2>2 DEF NsAddr, NsUp, NsRoute, NsLo, NsSet, Step, Abort, Ignore, FirstPort,
                  Configuring, BridgeRules
    <3> QED
      BY <3>1, <3>2, RulesLeave
  <2>3. CASE \/ Dnat(c) \/ Accept(c) \/ StartFailed(c) \/ Return(c) \/ Delete(c)
             \/ RmDnat(c) \/ RmAccept(c) \/ RmVeth(c)
    <3>1. UNCHANGED <<rules, bridge>> /\ \A d \in Containers \ {c} : pc'[d] = pc[d]
      BY <2>3 DEF Dnat, Accept, StartFailed, Return, Delete, RmDnat, RmAccept, RmVeth,
                  NextPort, Step, linkVars, chainVars
    <3>2. pc'[c] \notin Configuring
      BY <2>3 DEF Dnat, Accept, StartFailed, Return, Delete, RmDnat, RmAccept, RmVeth,
                  NextPort, FirstCleanup, Step, Configuring, BridgeRules
    <3> QED
      BY <3>1, <3>2, RulesLeave
  <2>4. CASE BridgeAdd(c)
    <3>1. CASE Abort(c, "bridge_add", bridge[BridgeOf[c]] = {})
      <4>1. pc'[c] = "failed" /\ "failed" \notin Configuring
        BY <3>1 DEF Abort, Step, Configuring, BridgeRules
      <4> QED
        BY <3>1, <4>1, RulesLeave DEF Abort, Step, linkVars, chainVars
    <3>2. CASE /\ Step(c, "bridge_add", "bridge_addr") /\ bridge[BridgeOf[c]] = {}
               /\ bridge' = [bridge EXCEPT ![BridgeOf[c]] = {"link"}] /\ UNCHANGED rules
      <4>1. ASSUME NEW b \in Bridges \ Deletable, b = BridgeOf[c] PROVE CreatedOnce(b)'
        <5>1. \A d \in Containers : ~Configures(d, b)
          BY <3>2, <4>1 DEF RulesInv, CreatedOnce
        <5>2. \A d \in Containers : Configures(d, b)' => d = c
          BY <3>2, <5>1 DEF Step, Configures
        <5>3. bridge'[b] # {} /\ \A r \in BridgeRules : rules'[b][r] = 0
          BY <3>2, <4>1 DEF RulesInv, CreatedOnce, LinksOK
        <5>4. \A d \in Containers, r \in BridgeRules : rules'[b][r] = 0 /\ rules'[b][r] =< 1
          BY <5>3
        <5> QED
          BY <5>2, <5>3, <5>4 DEF CreatedOnce
      <4>2. ASSUME NEW b \in Bridges \ Deletable, b # BridgeOf[c] PROVE CreatedOnce(b)'
        <5>1. bridge'[b] = bridge[b] /\ \A d \in Containers : BridgeOf[d] = b => pc'[d] = pc[d]
          BY <3>2, <4>2 DEF Step, LinksOK
        <5> QED
          BY <3>2, <5>1 DEF RulesInv, CreatedOnce, Configures
      <4> QED
        BY <4>1, <4>2 DEF RulesInv
    <3> QED
      BY <2>4, <3>1, <3>2 DEF BridgeAdd, chainVars
  <2>5. CASE BridgeAddr(c) \/ BridgeUp(c) \/ IpForward(c)
    <3>1. UNCHANGED rules /\ \A b \in Bridges : bridge'[b] = {} <=> bridge[b] = {}
      <4>1. CASE UNCHANGED bridge
        BY <2>5, <4>1 DEF BridgeAddr, BridgeUp, IpForward, Abort, Ignore, chainVars
      <4>2. CASE /\ "link" \in bridge[BridgeOf[c]] /\ UNCHANGED rules
                 /\ \/ bridge' = [bridge EXCEPT ![BridgeOf[c]] = @ \cup {"gateway"}]
                    \/ bridge' = [bridge EXCEPT ![BridgeOf[c]] = @ \cup {"up"}]
        <5>1. bridge'[BridgeOf[c]] # {} /\ bridge[BridgeOf[c]] # {}
          BY <4>2, BridgeAssumption DEF LinksOK
        <5>2. \A b \in Bridges \ {BridgeOf[c]} : bridge'[b] = bridge[b]
          BY <4>2 DEF LinksOK
        <5> QED
          BY <4>2, <5>1, <5>2
      <4> QED
        BY <2>5, <4>1, <4>2
           DEF BridgeAddr, BridgeUp, IpForward, Abort, Ignore, linkVars, chainVars
    <3>2. \A d \in Containers \ {c} : pc'[d] = pc[d]
      BY <2>5 DEF BridgeAddr, BridgeUp, IpForward, Abort, Ignore, Step
    <3>3. \/ pc[c] \in {"bridge_addr", "bridge_up", "ip_forward"}
             /\ pc'[c] \in {"bridge_up", "ip_forward", "masquerade"}
          \/ pc'[c] = "failed"
      BY <2>5 DEF BridgeAddr, BridgeUp, IpForward, Abort, Ignore, Step
    <3>4. CASE pc'[c] = "failed"
      <4>1. "failed" \notin Configuring
        BY DEF Configuring, BridgeRules
      <4> QED
        BY <3>1, <3>2, <3>4, <4>1, RulesLeave
    <3>5. CASE pc[c] \in {"bridge_addr", "bridge_up", "ip_forward"}
      <4>1. pc[c] \in Configuring /\ \A r \in BridgeRules : pc[c] \in Before(r)
        BY <3>5 DEF Before, Configuring
      <4> QED
        BY <3>1, <3>2, <4>1, RulesFrame
    <3> QED
      BY <3>3, <3>4, <3>5
  <2>6. ASSUME NEW r \in BridgeRules, AddBridgeRule(c, r) PROVE RulesInv'
    <3>1. UNCHANGED bridge /\ pc[c] = r /\ pc'[c] = NextCommand[r]
          /\ \A d \in Containers \ {c} : pc'[d] = pc[d]
      BY <2>6 DEF AddBridgeRule, Ignore, Step, linkVars
    <3>2. r \in Configuring /\ r \in Before(r)
      BY DEF Before, Configuring, BridgeRules
    <3>3. NextCommand[r] \notin Before(r)
      BY DEF NextCommand, Before, BridgeRules
    <3>4. \A s \in BridgeRules : NextCommand[r] \in Before(s) => r \in Before(s)
      BY DEF NextCommand, Before, BridgeRules
    <3>5. CASE UNCHANGED rules
      BY <3>1, <3>2, <3>4, <3>5, RulesFrame
    <3>6. CASE rules' = [rules EXCEPT ![BridgeOf[c]][r] = @ + 1]
      <4>1. ASSUME NEW b \in Bridges \ Deletable, b = BridgeOf[c] PROVE CreatedOnce(b)'
        <5>1. Configures(c, b) /\ rules[b][r] = 0 /\ bridge[b] # {}
          BY <3>1, <3>2, <4>1 DEF RulesInv, CreatedOnce, Configures
        <5>2. \A d \in Containers : Configures(d, b) => d = c
          BY <5>1 DEF RulesInv, CreatedOnce
        <5>3. rules'[b][r] = 1 /\ \A s \in BridgeRules \ {r} : rules'[b][s] = rules[b][s]
          BY <3>6, <4>1, <5>1 DEF ChainsOK
        <5>4. \A d \in Containers : Configures(d, b)' => d = c
          BY <3>1, <5>2 DEF Configures
        <5>5. \A s \in BridgeRules : rules'[b][s] =< 1
          BY <5>3 DEF RulesInv, CreatedOnce
        <5>6. \A d \in Containers, s \in BridgeRules :
                 BridgeOf[d] = b /\ pc'[d] \in Before(s) => rules'[b][s] = 0
          <6> SUFFICES ASSUME NEW d \in Containers, NEW s \in BridgeRules,
                              BridgeOf[d] = b, pc'[d] \in Before(s)
                       PROVE  rules'[b][s] = 0
            OBVIOUS
          <6>1. d = c
            BY <5>4, BeforeConfiguring DEF Configures
          <6>2. s # r /\ pc[c] \in Before(s)
            BY <3>1, <3>3, <3>4, <6>1
          <6> QED
            BY <5>3, <6>2, <4>1 DEF RulesInv, CreatedOnce
        <5> QED
          BY <3>1, <5>1, <5>4, <5>5, <5>6 DEF CreatedOnce
      <4>2. ASSUME NEW b \in Bridges \ Deletable, b # BridgeOf[c] PROVE CreatedOnce(b)'
        <5>1. rules'[b] = rules[b] /\ \A d \in Containers : BridgeOf[d] = b => pc'[d] = pc[d]
          BY <3>1, <3>6, <4>2 DEF ChainsOK
        <5> QED
          BY <3>1, <5>1 DEF RulesInv, CreatedOnce, Configures
      <4> QED
        BY <4>1, <4>2 DEF RulesInv
    <3> QED
      BY <2>6, <3>5, <3>6 DEF AddBridgeRule, Ignore, chainVars
  <2> QED
    BY <1>1, <2>1, <2>2, <2>3, <2>4, <2>5, <2>6 DEF Process
<1>2. ASSUME NEW c \in Containers, Start(c) \/ Crash(c) PROVE RulesInv'
  <2>1. pc'[c] \notin Configuring /\ \A d \in Containers \ {c} : pc'[d] = pc[d]
    BY <1>2 DEF Start, Crash, Step, Configuring, BridgeRules
  <2> QED
    BY <1>2, <2>1, RulesLeave DEF Start, Crash, linkVars, chainVars
<1>3. ASSUME NEW c \in Containers, Exit(c) \/ DestroyNetns(c) PROVE RulesInv'
  BY <1>3, RulesFrame DEF Exit, DestroyNetns, linkVars, chainVars
<1>4. ASSUME NEW b \in Bridges, DeleteBridgeDown(b) \/ DeleteBridgeLink(b) PROVE RulesInv'
  <2>1. b \in Deletable /\ UNCHANGED <<pc, rules>>
    BY <1>4 DEF DeleteBridgeDown, DeleteBridgeLink, LinksOK, chainVars
  <2>2. \A e \in Bridges \ {b} : bridge'[e] = bridge[e]
    BY <1>4 DEF DeleteBridgeDown, DeleteBridgeLink, LinksOK
  <2> QED
    BY <2>1, <2>2, RulesFrame
<1>5. CASE UNCHANGED vars
  BY <1>5, RulesFrame DEF vars, linkVars, chainVars
<1> QED
  BY <1>1, <1>2, <1>3, <1>4, <1>5 DEF Next, Terminated

\* At most one process ever adds the rules of a bridge: the one that created it.
\* Every later one finds the bridge at `ip link show` or fails at its creation
\* (network_create_bridge).
THEOREM BridgeRulesOnceHolds == Spec => []BridgeRulesOnce
<1>1. Init => RulesInv
  <2> SUFFICES ASSUME Init PROVE RulesInv
    OBVIOUS
  <2>1. \A c \in Containers : pc[c] \notin Configuring
    BY DEF Init, Configuring, BridgeRules
  <2>2. \A c \in Containers, r \in BridgeRules : pc[c] \notin Before(r)
    BY <2>1, BeforeConfiguring
  <2>3. \A b \in Bridges, r \in BridgeRules : rules[b][r] = 0
    BY DEF Init
  <2> QED
    BY <2>1, <2>2, <2>3 DEF RulesInv, CreatedOnce, Configures
<1>2. TypeOK /\ RulesInv /\ [Next]_vars => RulesInv'
  BY RulesStep
<1>3. RulesInv => BridgeRulesOnce
  BY DEF RulesInv, CreatedOnce, BridgeRulesOnce
<1> QED
  BY TypeCorrect, <1>1, <1>2, <1>3, PTL DEF Spec
=============================================================================
