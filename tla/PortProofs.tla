------------------------------ MODULE PortProofs ------------------------------
(***************************************************************************)
(* The rules of published ports, and what container_delete leaves behind,  *)
(* for any number of runs that add rules to the same chains and delete     *)
(* them again.                                                             *)
(*                                                                         *)
(* A chain is a list and `iptables -D` deletes the first rule that is      *)
(* equal to the one described, so what counts is how often a rule is in    *)
(* the chain: never more often than the loops over the ports of its run    *)
(* have yet to delete it.                                                  *)
(***************************************************************************)
EXTENDS NetworkProofs, FunctionTheorems, FiniteSetTheorems

----------------------------------------------------------------------------
(* How often a rule is in a chain                                          *)

Places(s, e) == {k \in 1 .. Len(s) : s[k] = e}
Count(s, e) == Cardinality(Places(s, e))

LEMMA PlacesFinite ==
    ASSUME NEW S, NEW s \in Seq(S), NEW e
    PROVE  IsFiniteSet(Places(s, e)) /\ Count(s, e) \in Nat
<1>1. Len(s) \in Nat /\ IsFiniteSet(1 .. Len(s))
  BY FS_Interval
<1>2. IsFiniteSet(Places(s, e))
  BY <1>1, FS_Subset DEF Places
<1> QED
  BY <1>2, FS_CardinalityType DEF Count

\* A rule is in the chain if it is there at least once.
LEMMA CountZero ==
    ASSUME NEW S, NEW s \in Seq(S), NEW e
    PROVE  Count(s, e) = 0 <=> e \notin ToSet(s)
<1>1. IsFiniteSet(Places(s, e))
  BY PlacesFinite
<1>2. Count(s, e) = 0 <=> Places(s, e) = {}
  BY <1>1, FS_EmptySet DEF Count
<1>3. DOMAIN s = 1 .. Len(s)
  OBVIOUS
<1> QED
  BY <1>2, <1>3 DEF Places, ToSet

\* -A adds one rule.
LEMMA CountAppend ==
    ASSUME NEW S, NEW s \in Seq(S), NEW x \in S, NEW e
    PROVE  /\ x = e => Count(Append(s, x), e) = Count(s, e) + 1
           /\ x # e => Count(Append(s, x), e) = Count(s, e)
<1>1. /\ Len(s) \in Nat /\ Len(Append(s, x)) = Len(s) + 1
      /\ \A k \in 1 .. Len(s) : Append(s, x)[k] = s[k]
      /\ Append(s, x)[Len(s) + 1] = x
  BY AppendProperties
<1>2. CASE x = e
  <2>1. Places(Append(s, x), e) = Places(s, e) \cup {Len(s) + 1}
    BY <1>1, <1>2 DEF Places
  <2>2. Len(s) + 1 \notin Places(s, e)
    BY <1>1 DEF Places
  <2> QED
    BY <1>2, <2>1, <2>2, PlacesFinite, FS_AddElement DEF Count
<1>3. CASE x # e
  <2>1. Places(Append(s, x), e) = Places(s, e)
    BY <1>1, <1>3 DEF Places
  <2> QED
    BY <1>3, <2>1 DEF Count
<1> QED
  BY <1>2, <1>3

\* What -D leaves: the chain without one place of the rule.
LEMMA RemoveFirstPlaces ==
    ASSUME NEW S, NEW s \in Seq(S), NEW x, x \in ToSet(s)
    PROVE  \E m \in 1 .. Len(s) :
              /\ s[m] = x
              /\ Len(RemoveFirst(s, x)) = Len(s) - 1
              /\ \A k \in 1 .. Len(s) - 1 :
                    RemoveFirst(s, x)[k] = IF k < m THEN s[k] ELSE s[k + 1]
<1> DEFINE I == {k \in 1 .. Len(s) : s[k] = x}
           m == Min(I)
<1>0. Len(s) \in Nat /\ DOMAIN s = 1 .. Len(s)
  OBVIOUS
<1>1. \E k \in 1 .. Len(s) : s[k] = x
  BY <1>0 DEF ToSet
<1>2. I # {} /\ I \subseteq Nat
  BY <1>0, <1>1
<1>3. m \in I
  BY <1>2, LeastElement
<1>4. RemoveFirst(s, x) = RemoveAt(s, m)
  BY <1>1 DEF RemoveFirst, SelectInSeq
<1> HIDE DEF m
<1>5. m \in 1 .. Len(s) /\ s[m] = x
  BY <1>3
<1> DEFINE A == SubSeq(s, 1, m - 1)
           B == SubSeq(s, m + 1, Len(s))
<1>6. \A k \in 1 .. Len(s) : s[k] \in S
  OBVIOUS
<1>7. /\ A \in Seq(S) /\ Len(A) = m - 1
      /\ \A k \in 1 .. m - 1 : A[k] = s[k]
  BY <1>0, <1>5, <1>6, SubSeqProperties
<1>8. /\ B \in Seq(S) /\ Len(B) = Len(s) - m
      /\ \A k \in 1 .. Len(s) - m : B[k] = s[m + k]
  <2>1. CASE m + 1 =< Len(s)
    BY <2>1, <1>0, <1>5, <1>6, SubSeqProperties
  <2>2. CASE m = Len(s)
    BY <2>2, <1>0, <1>5, <1>6, SubSeqProperties
  <2>3. m + 1 =< Len(s) \/ m = Len(s)
    <3>1. \A l \in Nat : \A k \in 1 .. l : k + 1 =< l \/ k = l
      OBVIOUS
    <3> HIDE DEF A, B
    <3> QED
      BY <1>0, <1>5, <3>1
  <2> HIDE DEF B
  <2> QED
    BY <2>1, <2>2, <2>3
<1>9. RemoveFirst(s, x) = A \o B
  BY <1>4 DEF RemoveAt
<1> HIDE DEF A, B
<1>10. /\ Len(A \o B) = Len(A) + Len(B)
       /\ \A k \in 1 .. Len(A) + Len(B) :
             (A \o B)[k] = IF k =< Len(A) THEN A[k] ELSE B[k - Len(A)]
  BY <1>7, <1>8, ConcatProperties
<1>11. Len(A \o B) = Len(s) - 1
  BY <1>0, <1>5, <1>7, <1>8, <1>10
<1>12. ASSUME NEW k \in 1 .. Len(s) - 1
       PROVE  (A \o B)[k] = IF k < m THEN s[k] ELSE s[k + 1]
  <2>1. CASE k < m
    BY <2>1, <1>0, <1>5, <1>7, <1>8, <1>10
  <2>2. CASE ~(k < m)
    <3>1. k - (m - 1) \in 1 .. Len(s) - m /\ m + (k - (m - 1)) = k + 1
      BY <2>2, <1>0, <1>5
    <3>2. (A \o B)[k] = B[k - (m - 1)]
      BY <2>2, <1>0, <1>5, <1>7, <1>8, <1>10
    <3> QED
      BY <2>2, <1>8, <3>1, <3>2
  <2> QED
    BY <2>1, <2>2
<1> QED
  BY <1>5, <1>9, <1>11, <1>12

\* -D of a rule that is there takes it away once, and no other rule.
LEMMA CountRemoved ==
    ASSUME NEW S, NEW s \in Seq(S), NEW x, x \in ToSet(s), NEW e
    PROVE  /\ x = e => Count(RemoveFirst(s, x), e) = Count(s, e) - 1
           /\ x # e => Count(RemoveFirst(s, x), e) = Count(s, e)
<1> DEFINE r == RemoveFirst(s, x)
<1>1. PICK m \in 1 .. Len(s) :
         /\ s[m] = x
         /\ Len(r) = Len(s) - 1
         /\ \A k \in 1 .. Len(s) - 1 : r[k] = IF k < m THEN s[k] ELSE s[k + 1]
  BY RemoveFirstPlaces
<1>2. Len(s) \in Nat
  OBVIOUS
<1> HIDE DEF r
<1> DEFINE P == Places(r, e)
           Q == Places(s, e) \ {m}
           g == [k \in P |-> IF k < m THEN k ELSE k + 1]
<1>3. P \subseteq 1 .. Len(s) - 1 /\ Q \subseteq 1 .. Len(s)
  BY <1>1 DEF Places
<1>4. g \in [P -> Q]
  <2>1. ASSUME NEW k \in P PROVE (IF k < m THEN k ELSE k + 1) \in Q
    BY <1>1, <1>2, <1>3 DEF Places
  <2> QED
    BY <2>1
<1>5. \A k, l \in P : g[k] = g[l] => k = l
  BY <1>1, <1>2, <1>3
<1>6. \A l \in Q : \E k \in P : g[k] = l
  <2> TAKE l \in Q
  <2>1. l \in 1 .. Len(s) /\ l # m /\ s[l] = e
    BY DEF Places
  <2>2. CASE l < m
    <3>1. l \in 1 .. Len(s) - 1 /\ r[l] = e
      BY <1>1, <1>2, <2>1, <2>2
    <3>2. l \in P /\ g[l] = l
      BY <1>1, <2>2, <3>1 DEF Places
    <3> QED
      BY <3>2
  <2>3. CASE l > m
    <3>1. l - 1 \in 1 .. Len(s) - 1 /\ ~(l - 1 < m) /\ (l - 1) + 1 = l
      BY <1>1, <1>2, <2>1, <2>3
    <3>2. r[l - 1] = e
      BY <1>1, <2>1, <3>1
    <3>3. l - 1 \in P /\ g[l - 1] = l
      BY <1>1, <3>1, <3>2 DEF Places
    <3> QED
      BY <3>3
  <2> QED
    BY <1>1, <2>1, <2>2, <2>3
<1>7. ExistsBijection(P, Q)
  <2>1. g \in Bijection(P, Q)
    BY <1>4, <1>5, <1>6, Fun_IsBij
  <2> QED
    BY <2>1 DEF ExistsBijection
<1>8. IsFiniteSet(Places(s, e)) /\ Count(s, e) \in Nat
  BY PlacesFinite
<1>9. IsFiniteSet(Q)
  BY <1>8, FS_RemoveElement
<1>10. Cardinality(P) = Cardinality(Q)
  <2>1. IsFiniteSet(P)
    <3>1. Len(s) - 1 \in Int /\ IsFiniteSet(1 .. Len(s) - 1)
      BY <1>2, FS_Interval
    <3> QED
      BY <1>3, <3>1, FS_Subset
  <2> QED
    BY <1>7, <2>1, FS_Bijection
<1>11. CASE x = e
  <2>1. m \in Places(s, e)
    BY <1>1, <1>11 DEF Places
  <2> QED
    BY <1>8, <1>10, <1>11, <2>1, FS_RemoveElement DEF Count, r
<1>12. CASE x # e
  <2>1. Q = Places(s, e)
    BY <1>1, <1>12 DEF Places
  <2> QED
    BY <1>10, <1>12, <2>1 DEF Count, r
<1> QED
  BY <1>11, <1>12

----------------------------------------------------------------------------
(* The account of one run in one chain                                     *)

\* No rule for address a is in chain s more often than f[j] is that rule for
\* j in J: the ports whose rules have been added and not yet deleted.
Owed(s, f, J, a) ==
    \A e : e.ip = a => Count(s, e) =< Cardinality({j \in J : f[j] = e})

LEMMA OwedMore ==
    ASSUME NEW s, NEW f, NEW a, NEW K, IsFiniteSet(K), NEW J \in SUBSET K,
           NEW S, s \in Seq(S), Owed(s, f, J, a)
    PROVE  Owed(s, f, K, a)
<1> SUFFICES ASSUME NEW e, e.ip = a PROVE Count(s, e) =< Cardinality({j \in K : f[j] = e})
  BY DEF Owed
<1> DEFINE P == {j \in J : f[j] = e}
           Q == {j \in K : f[j] = e}
<1>1. IsFiniteSet(Q) /\ P \in SUBSET Q
  BY FS_Subset
<1>2. /\ IsFiniteSet(P) /\ Cardinality(P) =< Cardinality(Q)
      /\ Cardinality(P) \in Nat /\ Cardinality(Q) \in Nat
  BY <1>1, FS_Subset, FS_CardinalityType
<1>3. Count(s, e) =< Cardinality(P) /\ Count(s, e) \in Nat
  BY PlacesFinite DEF Owed
<1> HIDE DEF P, Q
<1>4. Count(s, e) =< Cardinality(Q)
  BY <1>2, <1>3
<1> QED
  BY <1>4 DEF Q

\* -A for port x, whose rule is not in the chain yet.
LEMMA OwedAdd ==
    ASSUME NEW S, NEW s \in Seq(S), NEW f, NEW J, IsFiniteSet(J), NEW a, NEW x,
           x \notin J, f[x] \in S, Owed(s, f, J, a)
    PROVE  Owed(Append(s, f[x]), f, J \cup {x}, a)
<1> SUFFICES ASSUME NEW e, e.ip = a
             PROVE  Count(Append(s, f[x]), e) =< Cardinality({j \in J \cup {x} : f[j] = e})
  BY DEF Owed
<1> DEFINE P == {j \in J : f[j] = e}
           Q == {j \in J \cup {x} : f[j] = e}
<1>1. IsFiniteSet(P) /\ Cardinality(P) \in Nat
  BY FS_Subset, FS_CardinalityType
<1>2. Count(s, e) =< Cardinality(P) /\ Count(s, e) \in Nat
  BY PlacesFinite DEF Owed
<1>3. CASE f[x] = e
  <2>1. Q = P \cup {x} /\ x \notin P
    BY <1>3
  <2> HIDE DEF P, Q
  <2>2. Cardinality(Q) = Cardinality(P) + 1
    BY <1>1, <2>1, FS_AddElement
  <2>3. Count(Append(s, f[x]), e) = Count(s, e) + 1
    BY <1>3, CountAppend
  <2>4. Count(Append(s, f[x]), e) =< Cardinality(Q)
    BY <1>1, <1>2, <2>2, <2>3
  <2> QED
    BY <2>4 DEF Q
<1>4. CASE f[x] # e
  <2>1. Q = P
    BY <1>4
  <2>2. Count(Append(s, f[x]), e) = Count(s, e)
    BY <1>4, CountAppend
  <2> QED
    BY <1>2, <2>1, <2>2
<1> QED
  BY <1>3, <1>4

\* -D for port x, whose rule may be in the chain.
LEMMA OwedRemove ==
    ASSUME NEW S, NEW s \in Seq(S), NEW f, NEW J, IsFiniteSet(J), NEW a, NEW x \in J,
           Owed(s, f, J, a)
    PROVE  Owed(RemoveFirst(s, f[x]), f, J \ {x}, a)
<1> SUFFICES ASSUME NEW e, e.ip = a
             PROVE  Count(RemoveFirst(s, f[x]), e) =< Cardinality({j \in J \ {x} : f[j] = e})
  BY DEF Owed
<1> DEFINE P == {j \in J : f[j] = e}
           Q == {j \in J \ {x} : f[j] = e}
<1>1. IsFiniteSet(P) /\ Cardinality(P) \in Nat
  BY FS_Subset, FS_CardinalityType
<1>2. Count(s, e) =< Cardinality(P) /\ Count(s, e) \in Nat
  BY PlacesFinite DEF Owed
<1>3. f[x] \notin ToSet(s) => RemoveFirst(s, f[x]) = s
  BY DEF RemoveFirst, ToSet
<1>4. CASE f[x] = e
  <2>1. Q = P \ {x} /\ x \in P
    BY <1>4
  <2>2. IsFiniteSet(Q)
    BY <1>1, <2>1, FS_RemoveElement
  <2> HIDE DEF P, Q
  <2>3. Cardinality(Q) = Cardinality(P) - 1 /\ Cardinality(Q) \in Nat
    BY <1>1, <2>1, <2>2, FS_RemoveElement, FS_CardinalityType
  <2>4. CASE f[x] \in ToSet(s)
    <3>1. Count(RemoveFirst(s, f[x]), e) = Count(s, e) - 1
      BY <1>4, <2>4, CountRemoved
    <3>2. Count(RemoveFirst(s, f[x]), e) =< Cardinality(Q)
      BY <1>1, <1>2, <2>3, <3>1
    <3> QED
      BY <3>2 DEF Q
  <2>5. CASE f[x] \notin ToSet(s)
    <3>1. Count(RemoveFirst(s, f[x]), e) = 0
      BY <1>3, <1>4, <2>5, CountZero
    <3>2. Count(RemoveFirst(s, f[x]), e) =< Cardinality(Q)
      BY <2>3, <3>1
    <3> QED
      BY <3>2 DEF Q
  <2> QED
    BY <2>4, <2>5
<1>5. CASE f[x] # e
  <2>1. Q = P
    BY <1>5
  <2>2. Count(RemoveFirst(s, f[x]), e) = Count(s, e)
    BY <1>3, <1>5, CountRemoved
  <2> QED
    BY <1>2, <2>1, <2>2
<1> QED
  BY <1>4, <1>5

\* Rules for other addresses do not matter, and no -D makes it worse.
LEMMA OwedOthers ==
    ASSUME NEW S, NEW s \in Seq(S), NEW f, NEW J, IsFiniteSet(J), NEW a, NEW x \in S,
           Owed(s, f, J, a)
    PROVE  /\ x.ip # a => Owed(Append(s, x), f, J, a)
           /\ Owed(RemoveFirst(s, x), f, J, a)
<1>1. ASSUME x.ip # a, NEW e, e.ip = a
      PROVE  Count(Append(s, x), e) =< Cardinality({j \in J : f[j] = e})
  <2>1. x # e
    BY <1>1
  <2> QED
    BY <1>1, <2>1, CountAppend DEF Owed
<1>2. ASSUME NEW e, e.ip = a
      PROVE  Count(RemoveFirst(s, x), e) =< Cardinality({j \in J : f[j] = e})
  <2>1. Count(s, e) =< Cardinality({j \in J : f[j] = e}) /\ Count(s, e) \in Nat
    BY <1>2, PlacesFinite DEF Owed
  <2>2. IsFiniteSet({j \in J : f[j] = e})
    BY FS_Subset
  <2>3. Cardinality({j \in J : f[j] = e}) \in Nat
    BY <2>2, FS_CardinalityType
  <2>4. x \notin ToSet(s) => RemoveFirst(s, x) = s
    BY DEF RemoveFirst, ToSet
  <2>5. \/ Count(RemoveFirst(s, x), e) = Count(s, e) - 1
        \/ Count(RemoveFirst(s, x), e) = Count(s, e)
    BY <2>4, CountRemoved
  <2> QED
    BY <2>1, <2>3, <2>5
<1> QED
  BY <1>1, <1>2 DEF Owed

\* When nothing is owed there is no rule for the address, ...
LEMMA OwedNothing ==
    ASSUME NEW S, NEW s \in Seq(S), NEW f, NEW a, Owed(s, f, {}, a)
    PROVE  \A e \in ToSet(s) : e.ip # a
<1> SUFFICES ASSUME NEW e \in ToSet(s), e.ip = a PROVE FALSE
  OBVIOUS
<1>1. {j \in {} : f[j] = e} = {}
  OBVIOUS
<1>2. Count(s, e) =< 0
  BY <1>1, FS_EmptySet DEF Owed
<1>3. Count(s, e) \in Nat /\ Count(s, e) # 0
  BY CountZero, PlacesFinite
<1> QED
  BY <1>2, <1>3

\* ... and when there is none, every account is in order.
LEMMA NothingOwed ==
    ASSUME NEW S, NEW s \in Seq(S), NEW f, NEW a, NEW J, IsFiniteSet(J),
           \A e \in ToSet(s) : e.ip # a
    PROVE  Owed(s, f, J, a)
<1> SUFFICES ASSUME NEW e, e.ip = a PROVE Count(s, e) =< Cardinality({j \in J : f[j] = e})
  BY DEF Owed
<1>1. Count(s, e) = 0
  BY CountZero
<1>2. IsFiniteSet({j \in J : f[j] = e})
  BY FS_Subset
<1>3. Cardinality({j \in J : f[j] = e}) \in Nat
  BY <1>2, FS_CardinalityType
<1> QED
  BY <1>1, <1>3

\* What -A and -D do to the set of rules in a chain.
LEMMA ChainMembers ==
    ASSUME NEW S, NEW s \in Seq(S), NEW x \in S
    PROVE  /\ ToSet(Append(s, x)) = ToSet(s) \cup {x}
           /\ ToSet(RemoveFirst(s, x)) \subseteq ToSet(s)
           /\ ToSet(s) \ {x} \subseteq ToSet(RemoveFirst(s, x))
<1>1. Append(s, x) \in Seq(S) /\ RemoveFirst(s, x) \in Seq(S)
  BY RemoveFirstType, AppendProperties
<1>2. ASSUME NEW e PROVE e \in ToSet(Append(s, x)) <=> e \in ToSet(s) \cup {x}
  <2>1. Count(s, e) \in Nat
    BY PlacesFinite
  <2>2. Count(Append(s, x), e) = 0 <=> Count(s, e) = 0 /\ x # e
    BY <2>1, CountAppend
  <2> QED
    BY <1>1, <2>2, CountZero
<1>3. x \notin ToSet(s) => RemoveFirst(s, x) = s
  BY DEF RemoveFirst, ToSet
<1>4. ASSUME NEW e, e \in ToSet(RemoveFirst(s, x)) PROVE e \in ToSet(s)
  <2>1. CASE x \in ToSet(s) /\ x # e
    <3>1. Count(RemoveFirst(s, x), e) = Count(s, e)
      BY <2>1, CountRemoved
    <3> QED
      BY <1>1, <1>4, <3>1, CountZero
  <2> QED
    BY <1>3, <1>4, <2>1
<1>5. ASSUME NEW e, e \in ToSet(s) \ {x} PROVE e \in ToSet(RemoveFirst(s, x))
  <2>1. CASE x \in ToSet(s)
    <3>1. Count(RemoveFirst(s, x), e) = Count(s, e)
      BY <1>5, <2>1, CountRemoved
    <3> QED
      BY <1>1, <1>5, <3>1, CountZero
  <2> QED
    BY <1>3, <1>5, <2>1
<1> QED
  BY <1>2, <1>4, <1>5

----------------------------------------------------------------------------
(* Addresses, and where rules come from                                    *)

Addressless == {"bridge_show", "bridge_add", "bridge_addr", "bridge_up", "ip_forward",
                "allocate"} \cup BridgeRules
Connecting == {"veth_add", "veth_master", "veth_up", "veth_netns",
               "ns_addr", "ns_up", "ns_route", "ns_lo"}

\* A run has its address before it adds a rule, and enters the loop over its
\* ports at the first.
AddressInv ==
    \A c \in Containers :
        /\ pc[c] = "idle" => ip[c] = NoIp
        /\ pc[c] \in Connecting \cup {"dnat", "accept", "started"} => ip[c] # NoIp
        /\ pc[c] \in {"idle"} \cup Addressless \cup Connecting => i[c] = 1

\* Every rule is for the address of a run, and a DNAT rule for a port of it.
RuleSource ==
    /\ \A r \in ToSet(prerouting) :
          r.ip # NoIp /\ \E d \in Containers :
             /\ r.ip = ip[d]
             /\ \E j \in DOMAIN Ports[d] : r.host = Ports[d][j].host /\ r.cont = Ports[d][j].cont
    /\ \A r \in ToSet(forward) : r.ip # NoIp /\ \E d \in Containers : r.ip = ip[d]

\* The steps of a run that do not touch addresses or chains.
Quiet(c) ==
    /\ UNCHANGED <<ip, prerouting, forward>>
    /\ \/ /\ UNCHANGED i
          /\ \/ pc[c] \in Addressless /\ pc'[c] \in Addressless \cup {"failed"}
             \/ pc[c] \in Connecting /\ pc'[c] \in Connecting \cup {"failed"}
             \/ pc[c] = "ns_lo" /\ pc'[c] = FirstPort(c)
             \/ pc[c] \in {"failed", "started"} /\ pc'[c] \in {"delete", "exited"}
             \/ pc[c] # "idle" /\ pc'[c] = "crashed"
             \/ pc[c] = "rm_veth" /\ pc'[c] = "removed"
       \/ pc[c] = "delete" /\ pc'[c] = FirstCleanup(c) /\ i'[c] = 1

Moves(c) == Start(c) \/ Process(c) \/ Crash(c)

\* The other steps change no process, address or chain.
LEMMA StepsOfRuns ==
    ASSUME [Next]_vars
    PROVE  (\E c \in Containers : Moves(c)) \/ UNCHANGED <<pc, i, ip, prerouting, forward>>
BY DEF Next, Moves, Exit, DestroyNetns, DeleteBridgeDown, DeleteBridgeLink, Terminated,
       vars, runVars, chainVars

LEMMA QuietSteps ==
    ASSUME TypeOK, NEW c \in Containers, Process(c) \/ Crash(c),
           ~Allocate(c), ~Dnat(c), ~Accept(c), ~RmDnat(c), ~RmAccept(c)
    PROVE  Quiet(c)
<1> USE DEF TypeOK, ControlOK
<1>1. CASE BridgeShow(c) \/ BridgeAdd(c) \/ BridgeAddr(c) \/ BridgeUp(c) \/ IpForward(c)
  BY <1>1 DEF BridgeShow, BridgeAdd, BridgeAddr, BridgeUp, IpForward, Step, Abort, Ignore,
              runVars, chainVars, Quiet, Addressless, BridgeRules
<1>2. ASSUME NEW r \in BridgeRules, AddBridgeRule(c, r) PROVE Quiet(c)
  <2>1. r \in Addressless /\ NextCommand[r] \in Addressless
    BY DEF NextCommand, Addressless, BridgeRules
  <2> QED
    BY <1>2, <2>1 DEF AddBridgeRule, Step, Ignore, runVars, chainVars, Quiet
<1>3. CASE VethAdd(c) \/ VethMaster(c) \/ VethUp(c) \/ VethNetns(c)
  BY <1>3 DEF VethAdd, VethMaster, VethUp, VethNetns, Step, Abort,
              runVars, chainVars, Quiet, Connecting
<1>4. CASE NsAddr(c) \/ NsUp(c) \/ NsRoute(c) \/ NsLo(c)
  BY <1>4 DEF NsAddr, NsUp, NsRoute, NsLo, NsSet, Step, Abort, Ignore,
              runVars, chainVars, Quiet, Connecting
<1>5. CASE StartFailed(c) \/ Return(c)
  BY <1>5 DEF StartFailed, Return, Step, runVars, chainVars, Quiet
<1>6. CASE Delete(c) \/ RmVeth(c) \/ Crash(c)
  BY <1>6 DEF Delete, RmVeth, Crash, Step, runVars, chainVars, Quiet
<1> QED
  BY <1>1, <1>2, <1>3, <1>4, <1>5, <1>6 DEF Process

\* A step of one run changes neither command, loop nor address of another.
LEMMA OtherRuns ==
    ASSUME TypeOK, NEW c \in Containers, Moves(c), NEW d \in Containers \ {c}
    PROVE  pc'[d] = pc[d] /\ i'[d] = i[d] /\ ip'[d] = ip[d]
<1> USE DEF TypeOK, ControlOK
<1>1. CASE \/ BridgeShow(c) \/ BridgeAdd(c) \/ BridgeAddr(c) \/ BridgeUp(c) \/ IpForward(c)
           \/ \E r \in BridgeRules : AddBridgeRule(c, r)
  BY <1>1 DEF BridgeShow, BridgeAdd, BridgeAddr, BridgeUp, IpForward, AddBridgeRule, Step,
              Abort, Ignore, runVars
<1>2. CASE VethAdd(c) \/ VethMaster(c) \/ VethUp(c) \/ VethNetns(c)
  BY <1>2 DEF VethAdd, VethMaster, VethUp, VethNetns, Step, Abort, runVars
<1>3. CASE NsAddr(c) \/ NsUp(c) \/ NsRoute(c) \/ NsLo(c)
  BY <1>3 DEF NsAddr, NsUp, NsRoute, NsLo, NsSet, Step, Abort, Ignore, runVars
<1>4. CASE StartFailed(c) \/ Return(c) \/ Delete(c) \/ RmVeth(c) \/ Crash(c)
  BY <1>4 DEF StartFailed, Return, Delete, RmVeth, Crash, Step, runVars
<1>5. CASE Start(c) \/ Allocate(c) \/ Dnat(c) \/ Accept(c) \/ RmDnat(c) \/ RmAccept(c)
  BY <1>5 DEF Start, Allocate, Dnat, Accept, RmDnat, RmAccept, Step, NextPort, runVars
<1> QED
  BY <1>1, <1>2, <1>3, <1>4, <1>5 DEF Moves, Process

\* The end of one turn of a loop over the ports: the next port, or the end.
LEMMA PortTurn ==
    ASSUME TypeOK, PortLoop, NEW c \in Containers,
           NEW cmd \in {"dnat", "accept", "rm_dnat", "rm_accept"}, NEW again, NEW done,
           NextPort(c, cmd, again, done)
    PROVE  /\ pc[c] = cmd /\ i[c] \in DOMAIN Ports[c]
           /\ \/ pc'[c] = again /\ i'[c] = i[c] + 1
              \/ pc'[c] = done /\ i'[c] = 1 /\ \A j \in DOMAIN Ports[c] : j =< i[c]
<1>1. Ports[c] \in Seq(PortMappings) /\ i[c] \in DOMAIN Ports[c] /\ pc[c] = cmd
  BY PortAssumption DEF PortLoop, NextPort, Step
<1>2. DOMAIN Ports[c] = 1 .. Len(Ports[c]) /\ Len(Ports[c]) \in Nat
  BY <1>1
<1>3. CASE i[c] < Len(Ports[c])
  BY <1>1, <1>3 DEF NextPort, Step, TypeOK, ControlOK
<1>4. CASE ~(i[c] < Len(Ports[c]))
  BY <1>1, <1>2, <1>4 DEF NextPort, Step, TypeOK, ControlOK
<1> QED
  BY <1>3, <1>4

LEMMA AddressStep ==
    ASSUME TypeOK, PortLoop, AddressInv, [Next]_vars
    PROVE  AddressInv'
<1>1. ASSUME NEW c \in Containers, Moves(c) PROVE AddressInv'
  <2> DEFINE Fine == /\ pc'[c] = "idle" => ip'[c] = NoIp
                     /\ pc'[c] \in Connecting \cup {"dnat", "accept", "started"} => ip'[c] # NoIp
                     /\ pc'[c] \in {"idle"} \cup Addressless \cup Connecting => i'[c] = 1
  <2> SUFFICES Fine
    BY <1>1, OtherRuns DEF AddressInv
  <2>1. CASE Start(c)
    BY <2>1 DEF Start, Step, TypeOK, ControlOK, AddressInv, Connecting
  <2>2. CASE Allocate(c)
    <3>1. /\ pc[c] = "allocate" /\ pc'[c] = "veth_add" /\ i' = i
          /\ ip[c] # NoIp => ip' = ip
          /\ ip[c] = NoIp => ip'[c] \in Pool
      BY <2>2 DEF Allocate, Step, TypeOK, ControlOK
    <3>2. ip'[c] # NoIp
      BY <3>1, AddressAssumption
    <3>3. i'[c] = 1
      BY <3>1 DEF AddressInv, Addressless
    <3> QED
      BY <3>1, <3>2, <3>3
  <2>3. CASE Dnat(c) \/ Accept(c)
    <3>1. /\ pc[c] \in {"dnat", "accept"} /\ ip' = ip
          /\ pc'[c] \in {"dnat", "accept", "started"}
      BY <2>3, PortTurn DEF Dnat, Accept, Step, runVars, TypeOK, ControlOK
    <3> QED
      BY <3>1 DEF AddressInv, Addressless, Connecting, BridgeRules
  <2>4. CASE RmDnat(c) \/ RmAccept(c)
    <3>1. pc'[c] \in {"rm_dnat", "rm_accept", "rm_veth"}
      BY <2>4, PortTurn DEF RmDnat, RmAccept, Step, TypeOK, ControlOK
    <3> QED
      BY <3>1 DEF Addressless, Connecting, BridgeRules
  <2>5. CASE Quiet(c)
    <3>1. FirstPort(c) \in {"started", "dnat"} /\ FirstCleanup(c) \in {"rm_veth", "rm_dnat"}
      BY FirstPortType
    <3> QED
      BY <2>5, <3>1 DEF Quiet, AddressInv, Addressless, Connecting, BridgeRules
  <2> QED
    BY <1>1, <2>1, <2>2, <2>3, <2>4, <2>5, QuietSteps DEF Moves
<1>2. CASE UNCHANGED <<pc, i, ip, prerouting, forward>>
  BY <1>2 DEF AddressInv
<1> QED
  BY <1>1, <1>2, StepsOfRuns

\* Once a run has an address it keeps it.
LEMMA AddressStays ==
    ASSUME TypeOK, AddressInv, NEW c \in Containers, Moves(c),
           NEW d \in Containers, ip[d] # NoIp
    PROVE  ip'[d] = ip[d]
<1>1. CASE d # c
  BY <1>1, OtherRuns
<1>2. ~Start(d)
  BY DEF Start, Step, AddressInv
<1>3. CASE d = c
  <2>1. CASE Dnat(c) \/ Accept(c) \/ RmDnat(c) \/ RmAccept(c) \/ Allocate(c)
    BY <1>3, <2>1 DEF Dnat, Accept, RmDnat, RmAccept, Allocate, runVars
  <2> QED
    BY <1>2, <1>3, <2>1, QuietSteps DEF Moves, Quiet
<1> QED
  BY <1>1, <1>3

\* Two runs that have the same address keep it.
LEMMA SoleBefore ==
    ASSUME TypeOK, AddressInv, NEW c \in Containers, Moves(c),
           NEW d \in Containers, SoleOwner(d)'
    PROVE  SoleOwner(d)
<1> SUFFICES ASSUME ip[d] # NoIp, NEW e \in Containers \ {d}, ip[e] = ip[d] PROVE FALSE
  BY DEF SoleOwner
<1> QED
  BY AddressStays DEF SoleOwner

\* What a run may do to the chains: add or delete the rule for its port.
LEMMA ChainSteps ==
    ASSUME TypeOK, PortLoop, NEW c \in Containers, Moves(c)
    PROVE  \/ UNCHANGED <<prerouting, forward>>
           \/ /\ pc[c] \in {"dnat", "accept", "rm_dnat", "rm_accept"} /\ ip' = ip
              /\ DnatRule(c) \in DnatRules /\ AcceptRule(c) \in AcceptRules
              /\ i[c] \in DOMAIN Ports[c]
              /\ \/ /\ prerouting' \in {Append(prerouting, DnatRule(c)),
                                        RemoveFirst(prerouting, DnatRule(c))}
                    /\ forward' = forward
                 \/ /\ forward' \in {Append(forward, AcceptRule(c)),
                                     RemoveFirst(forward, AcceptRule(c))}
                    /\ prerouting' = prerouting
              /\ pc[c] \in {"rm_dnat", "rm_accept"} =>
                    /\ prerouting' \in {prerouting, RemoveFirst(prerouting, DnatRule(c))}
                    /\ forward' \in {forward, RemoveFirst(forward, AcceptRule(c))}
<1>1. CASE Start(c) \/ Allocate(c)
  BY <1>1 DEF Start, Allocate, chainVars
<1>2. CASE Dnat(c) \/ Accept(c) \/ RmDnat(c) \/ RmAccept(c)
  <2>1. pc[c] \in {"dnat", "accept", "rm_dnat", "rm_accept"} /\ ip' = ip
    BY <1>2 DEF Dnat, Accept, RmDnat, RmAccept, NextPort, Step, runVars
  <2>2. DnatRule(c) \in DnatRules /\ AcceptRule(c) \in AcceptRules /\ i[c] \in DOMAIN Ports[c]
    BY <2>1, RuleTypes DEF PortLoop
  <2>3. CASE Dnat(c) \/ RmDnat(c)
    BY <2>1, <2>2, <2>3 DEF Dnat, RmDnat, Step, NextPort, chainVars
  <2>4. CASE Accept(c) \/ RmAccept(c)
    BY <2>1, <2>2, <2>4 DEF Accept, RmAccept, NextPort, Step
  <2> QED
    BY <1>2, <2>3, <2>4
<1> QED
  BY <1>1, <1>2, QuietSteps DEF Moves, Quiet

LEMMA SourceStep ==
    ASSUME TypeOK, PortLoop, AddressInv, RuleSource, [Next]_vars
    PROVE  RuleSource'
<1>0. prerouting \in Seq(DnatRules) /\ forward \in Seq(AcceptRules)
  BY DEF TypeOK, ChainsOK
<1>1. ASSUME NEW c \in Containers, Moves(c) PROVE RuleSource'
  <2>1. \A d \in Containers : ip[d] # NoIp => ip'[d] = ip[d]
    BY <1>1, AddressStays
  <2>2. \A r \in ToSet(prerouting') :
           r \in ToSet(prerouting)
           \/ /\ r = DnatRule(c) /\ i[c] \in DOMAIN Ports[c] /\ ip[c] # NoIp
    <3>1. CASE UNCHANGED <<prerouting, forward>>
      BY <3>1
    <3>2. CASE /\ prerouting' = Append(prerouting, DnatRule(c)) /\ DnatRule(c) \in DnatRules
               /\ i[c] \in DOMAIN Ports[c] /\ pc[c] \in {"dnat", "accept"}
      BY <1>0, <3>2, ChainMembers DEF AddressInv
    <3>3. CASE /\ prerouting' = RemoveFirst(prerouting, DnatRule(c)) /\ DnatRule(c) \in DnatRules
      BY <1>0, <3>3, ChainMembers
    <3> QED
      BY <1>1, <3>1, <3>2, <3>3, ChainSteps
  <2>3. \A r \in ToSet(forward') :
           r \in ToSet(forward) \/ (r = AcceptRule(c) /\ ip[c] # NoIp)
    <3>1. CASE UNCHANGED <<prerouting, forward>>
      BY <3>1
    <3>2. CASE /\ forward' = Append(forward, AcceptRule(c)) /\ AcceptRule(c) \in AcceptRules
               /\ pc[c] \in {"dnat", "accept"}
      BY <1>0, <3>2, ChainMembers DEF AddressInv
    <3>3. CASE forward' = RemoveFirst(forward, AcceptRule(c)) /\ AcceptRule(c) \in AcceptRules
      BY <1>0, <3>3, ChainMembers
    <3> QED
      BY <1>1, <3>1, <3>2, <3>3, ChainSteps
  <2>4. ASSUME NEW r \in ToSet(prerouting')
        PROVE  r.ip # NoIp /\ \E d \in Containers :
                  /\ r.ip = ip'[d]
                  /\ \E j \in DOMAIN Ports[d] :
                        r.host = Ports[d][j].host /\ r.cont = Ports[d][j].cont
    <3>1. CASE r \in ToSet(prerouting)
      BY <2>1, <3>1 DEF RuleSource
    <3>2. CASE r = DnatRule(c) /\ i[c] \in DOMAIN Ports[c] /\ ip[c] # NoIp
      BY <2>1, <3>2 DEF DnatRule
    <3> QED
      BY <2>2, <3>1, <3>2
  <2>5. ASSUME NEW r \in ToSet(forward')
        PROVE  r.ip # NoIp /\ \E d \in Containers : r.ip = ip'[d]
    <3>1. CASE r \in ToSet(forward)
      BY <2>1, <3>1 DEF RuleSource
    <3>2. CASE r = AcceptRule(c) /\ ip[c] # NoIp
      BY <2>1, <3>2 DEF AcceptRule
    <3> QED
      BY <2>3, <3>1, <3>2
  <2> QED
    BY <2>4, <2>5 DEF RuleSource
<1>2. CASE UNCHANGED <<pc, i, ip, prerouting, forward>>
  BY <1>2 DEF RuleSource
<1> QED
  BY <1>1, <1>2, StepsOfRuns

----------------------------------------------------------------------------
(* Published ports                                                         *)

DnatOf(c) == [j \in DOMAIN Ports[c] |->
                 [host |-> Ports[c][j].host, ip |-> ip[c], cont |-> Ports[c][j].cont]]
AcceptOf(c) == [j \in DOMAIN Ports[c] |-> [ip |-> ip[c], cont |-> Ports[c][j].cont]]

\* The rules for the ports before the one that the loop is at are in the chains.
Present(c) ==
    \A j \in DOMAIN Ports[c] :
        /\ \/ pc[c] = "dnat" /\ j < i[c]
           \/ pc[c] = "accept" /\ j =< i[c]
           \/ pc[c] = "started"
           => DnatOf(c)[j] \in ToSet(prerouting)
        /\ \/ pc[c] \in {"dnat", "accept"} /\ j < i[c]
           \/ pc[c] = "started"
           => AcceptOf(c)[j] \in ToSet(forward)

PresentInv ==
    \A c \in Containers :
        {"dnat", "accept"} \cap Faults[c] = {} /\ SoleOwner(c) => Present(c)

\* The rule that a command handles is the one of the port that the loop is at.
LEMMA RuleOfPort ==
    ASSUME NEW c \in Containers, i[c] \in DOMAIN Ports[c]
    PROVE  DnatRule(c) = DnatOf(c)[i[c]] /\ AcceptRule(c) = AcceptOf(c)[i[c]]
BY DEF DnatRule, AcceptRule, DnatOf, AcceptOf

\* A run's own steps: -A for each port, one after the other.
LEMMA PresentOwn ==
    ASSUME TypeOK, PortLoop, AddressInv, NEW c \in Containers, Moves(c),
           {"dnat", "accept"} \cap Faults[c] = {}, Present(c)
    PROVE  Present(c)'
<1>0. /\ prerouting \in Seq(DnatRules) /\ forward \in Seq(AcceptRules)
      /\ pc \in [Containers -> Labels] /\ i \in [Containers -> Nat]
      /\ \A j \in DOMAIN Ports[c] : j \in Nat
  BY PortAssumption DEF TypeOK, ChainsOK, ControlOK
<1>1. CASE Dnat(c)
  <2>1. /\ pc[c] = "dnat" /\ pc'[c] = "accept"
        /\ prerouting' = Append(prerouting, DnatRule(c)) /\ UNCHANGED <<i, ip, forward>>
    BY <1>0, <1>1 DEF Dnat, Step, Fails, runVars
  <2>2. i[c] \in DOMAIN Ports[c] /\ DnatRule(c) \in DnatRules
    BY <2>1, RuleTypes DEF PortLoop
  <2>3. ToSet(prerouting') = ToSet(prerouting) \cup {DnatOf(c)[i[c]]}
    BY <1>0, <2>1, <2>2, ChainMembers, RuleOfPort
  <2>4. DnatOf(c)' = DnatOf(c) /\ AcceptOf(c)' = AcceptOf(c)
    BY <2>1 DEF DnatOf, AcceptOf
  <2>5. \A j \in DOMAIN Ports[c] : j =< i[c] => j < i[c] \/ j = i[c]
    BY <1>0
  <2> QED
    BY <2>1, <2>3, <2>4, <2>5 DEF Present
<1>2. CASE Accept(c)
  <2>1. /\ pc[c] = "accept" /\ UNCHANGED <<ip, prerouting>>
        /\ forward' = Append(forward, AcceptRule(c))
    BY <1>2 DEF Accept, NextPort, Step, Fails
  <2>2. i[c] \in DOMAIN Ports[c] /\ AcceptRule(c) \in AcceptRules
    BY <2>1, RuleTypes DEF PortLoop
  <2>3. ToSet(forward') = ToSet(forward) \cup {AcceptOf(c)[i[c]]}
    BY <1>0, <2>1, <2>2, ChainMembers, RuleOfPort
  <2>4. DnatOf(c)' = DnatOf(c) /\ AcceptOf(c)' = AcceptOf(c)
    BY <2>1 DEF DnatOf, AcceptOf
  <2>5. \/ pc'[c] = "dnat" /\ i'[c] = i[c] + 1
        \/ pc'[c] = "started" /\ \A j \in DOMAIN Ports[c] : j =< i[c]
    BY <1>2, PortTurn DEF Accept
  <2>6. \A j \in DOMAIN Ports[c] :
           /\ j =< i[c] => j < i[c] \/ j = i[c]
           /\ j < i[c] + 1 => j =< i[c]
    BY <1>0
  <2>7. \A j \in DOMAIN Ports[c] :
           j =< i[c] => DnatOf(c)[j] \in ToSet(prerouting) /\ AcceptOf(c)[j] \in ToSet(forward')
    BY <2>1, <2>3, <2>6 DEF Present
  <2> QED
    BY <2>1, <2>4, <2>5, <2>6, <2>7 DEF Present
<1>3. CASE Start(c) \/ Allocate(c) \/ RmDnat(c) \/ RmAccept(c)
  <2>1. pc'[c] \in {"bridge_show", "veth_add", "rm_accept", "rm_dnat", "rm_veth"}
    BY <1>0, <1>3, PortTurn DEF Start, Allocate, RmDnat, RmAccept, Step
  <2> QED
    BY <2>1 DEF Present
<1>4. CASE Quiet(c)
  <2>1. CASE pc[c] = "ns_lo" /\ pc'[c] = FirstPort(c) /\ UNCHANGED i
    <3>1. i[c] = 1
      BY <2>1 DEF AddressInv, Connecting
    <3>2. \A j \in DOMAIN Ports[c] : ~(j < 1)
      BY PortAssumption
    <3>3. FirstPort(c) = "started" => DOMAIN Ports[c] = {}
      BY DEF FirstPort
    <3> QED
      BY <2>1, <3>1, <3>2, <3>3, FirstPortType DEF Present
  <2>2. CASE pc'[c] \notin {"dnat", "accept", "started"}
    BY <2>2 DEF Present
  <2> QED
    BY <1>4, <2>1, <2>2, FirstPortType DEF Quiet, Addressless, Connecting, BridgeRules
<1> QED
  BY <1>1, <1>2, <1>3, <1>4, QuietSteps DEF Moves

\* The steps of others: their -D is for another address.
LEMMA PresentOthers ==
    ASSUME TypeOK, PortLoop, AddressInv, NEW c \in Containers, Moves(c),
           NEW d \in Containers \ {c}, SoleOwner(d), Present(d)
    PROVE  Present(d)'
<1>0. prerouting \in Seq(DnatRules) /\ forward \in Seq(AcceptRules)
  BY DEF TypeOK, ChainsOK
<1>1. pc'[d] = pc[d] /\ i'[d] = i[d] /\ ip'[d] = ip[d]
  BY OtherRuns
<1>2. CASE pc[d] \notin {"dnat", "accept", "started"}
  BY <1>1, <1>2 DEF Present
<1>3. CASE pc[d] \in {"dnat", "accept", "started"}
  <2>1. ip[c] # ip[d]
    BY <1>3 DEF AddressInv, SoleOwner
  <2>2. \A j \in DOMAIN Ports[d] : DnatOf(d)[j] # DnatRule(c) /\ AcceptOf(d)[j] # AcceptRule(c)
    BY <2>1 DEF DnatOf, AcceptOf, DnatRule, AcceptRule
  <2>3. ToSet(prerouting) \ {DnatRule(c)} \subseteq ToSet(prerouting')
    <3>1. CASE prerouting' = Append(prerouting, DnatRule(c)) /\ DnatRule(c) \in DnatRules
      BY <1>0, <3>1, ChainMembers
    <3>2. CASE prerouting' = RemoveFirst(prerouting, DnatRule(c)) /\ DnatRule(c) \in DnatRules
      BY <1>0, <3>2, ChainMembers
    <3>3. CASE prerouting' = prerouting
      BY <3>3
    <3> QED
      BY <3>1, <3>2, <3>3, ChainSteps
  <2>4. ToSet(forward) \ {AcceptRule(c)} \subseteq ToSet(forward')
    <3>1. CASE forward' = Append(forward, AcceptRule(c)) /\ AcceptRule(c) \in AcceptRules
      BY <1>0, <3>1, ChainMembers
    <3>2. CASE forward' = RemoveFirst(forward, AcceptRule(c)) /\ AcceptRule(c) \in AcceptRules
      BY <1>0, <3>2, ChainMembers
    <3>3. CASE forward' = forward
      BY <3>3
    <3> QED
      BY <3>1, <3>2, <3>3, ChainSteps
  <2>5. DnatOf(d)' = DnatOf(d) /\ AcceptOf(d)' = AcceptOf(d)
    BY <1>1 DEF DnatOf, AcceptOf
  <2> QED
    BY <1>1, <2>2, <2>3, <2>4, <2>5 DEF Present
<1> QED
  BY <1>2, <1>3

LEMMA PresentStep ==
    ASSUME TypeOK, PortLoop, AddressInv, PresentInv, [Next]_vars
    PROVE  PresentInv'
<1>1. ASSUME NEW c \in Containers, Moves(c), NEW d \in Containers,
             {"dnat", "accept"} \cap Faults[d] = {}, SoleOwner(d)'
      PROVE  Present(d)'
  <2>1. SoleOwner(d) /\ Present(d)
    BY <1>1, SoleBefore DEF PresentInv
  <2> QED
    BY <1>1, <2>1, PresentOwn, PresentOthers
<1>2. CASE UNCHANGED <<pc, i, ip, prerouting, forward>>
  BY <1>2 DEF PresentInv, Present, SoleOwner, DnatOf, AcceptOf
<1> QED
  BY <1>1, <1>2, StepsOfRuns DEF PresentInv

\* In a run that has started the first rule for a host port that is its own is
\* the one that it has added: every rule is for a port of some run.
LEMMA PresentPublished ==
    ASSUME TypeOK, RuleSource, PresentInv
    PROVE  PublishedPorts
<1> SUFFICES ASSUME NEW c \in Containers, pc[c] = "started",
                    {"dnat", "accept"} \cap Faults[c] = {}, SoleOwner(c), OwnHostPorts(c),
                    NEW m \in ToSet(Ports[c])
             PROVE  /\ [ip |-> ip[c], cont |-> m.cont] \in ToSet(forward)
                    /\ \E k \in DOMAIN prerouting :
                          /\ prerouting[k] = [host |-> m.host, ip |-> ip[c], cont |-> m.cont]
                          /\ \A j \in 1 .. k - 1 : prerouting[j].host # m.host
  BY DEF PublishedPorts
<1> DEFINE rule == [host |-> m.host, ip |-> ip[c], cont |-> m.cont]
<1>0. prerouting \in Seq(DnatRules)
  BY DEF TypeOK, ChainsOK
<1>1. PICK j \in DOMAIN Ports[c] : m = Ports[c][j]
  BY DEF ToSet
<1>2. rule \in ToSet(prerouting) /\ [ip |-> ip[c], cont |-> m.cont] \in ToSet(forward)
  BY <1>1 DEF PresentInv, Present, DnatOf, AcceptOf
<1>3. ASSUME NEW r \in ToSet(prerouting), r.host = m.host PROVE r = rule
  <2>1. r \in DnatRules
    BY <1>0 DEF ToSet
  <2>2. PICK d \in Containers :
           /\ r.ip = ip[d]
           /\ \E b \in DOMAIN Ports[d] : r.host = Ports[d][b].host /\ r.cont = Ports[d][b].cont
    BY DEF RuleSource
  <2>3. PICK b \in DOMAIN Ports[d] : r.host = Ports[d][b].host /\ r.cont = Ports[d][b].cont
    BY <2>2
  <2>4. d = c /\ b = j
    BY <1>1, <1>3, <2>3 DEF OwnHostPorts
  <2> QED
    BY <1>1, <1>3, <2>1, <2>2, <2>3, <2>4 DEF DnatRules
<1> DEFINE I == {k \in DOMAIN prerouting : prerouting[k].host = m.host}
<1>4. DOMAIN prerouting = 1 .. Len(prerouting) /\ Len(prerouting) \in Nat
  BY <1>0
<1>5. I \subseteq Nat /\ I # {}
  BY <1>2, <1>4 DEF ToSet
<1>6. PICK k \in I : \A n \in I : k =< n
  BY <1>5, LeastElement
<1>7. prerouting[k] = rule
  BY <1>3, <1>6 DEF ToSet
<1>8. \A n \in 1 .. k - 1 : prerouting[n].host # m.host
  BY <1>4, <1>6
<1> QED
  BY <1>2, <1>6, <1>7, <1>8

LEMMA PortInit == Init => AddressInv /\ RuleSource /\ PresentInv
<1> SUFFICES ASSUME Init PROVE AddressInv /\ RuleSource /\ PresentInv
  OBVIOUS
<1>1. AddressInv
  BY DEF Init, AddressInv, Connecting
<1>2. ToSet(<<>>) = {}
  BY DEF ToSet
<1>3. RuleSource
  BY <1>2 DEF Init, RuleSource
<1>4. PresentInv
  BY DEF Init, PresentInv, Present
<1> QED
  BY <1>1, <1>3, <1>4

\* The rules of published ports (network_setup_port_forwarding): for any number
\* of runs that add and delete rules in any order, a run with an address and
\* host ports of its own is the one that its host ports lead to.
THEOREM PublishedPortsHolds == Spec => []PublishedPorts
<1> DEFINE PortInv == AddressInv /\ RuleSource /\ PresentInv
<1>1. TypeOK /\ PortLoop /\ PortInv /\ [Next]_vars => PortInv'
  BY AddressStep, SourceStep, PresentStep
<1>2. TypeOK /\ PortInv => PublishedPorts
  BY PresentPublished
<1> QED
  BY PortInit, TypeCorrect, <1>1, <1>2, PTL DEF Spec

----------------------------------------------------------------------------
(* What container_delete leaves                                            *)

Added == {"started", "failed", "delete", "exited", "crashed"}

\* The ports of c for which a DNAT rule, and those for which an ACCEPT rule,
\* may be in the chains.
DnatDue(c) ==
    {j \in DOMAIN Ports[c] :
        \/ pc[c] \in Added
        \/ pc[c] = "dnat" /\ j < i[c]
        \/ pc[c] = "accept" /\ j =< i[c]
        \/ pc[c] = "rm_dnat" /\ i[c] =< j
        \/ pc[c] = "rm_accept" /\ i[c] < j}
AcceptDue(c) ==
    {j \in DOMAIN Ports[c] :
        \/ pc[c] \in Added
        \/ pc[c] \in {"dnat", "accept"} /\ j < i[c]
        \/ pc[c] \in {"rm_dnat", "rm_accept"} /\ i[c] =< j}

\* No rule for the address of c is there more often than c has yet to delete it.
DnatAccount(c) == Owed(prerouting, DnatOf(c), DnatDue(c), ip[c])
AcceptAccount(c) == Owed(forward, AcceptOf(c), AcceptDue(c), ip[c])

Accounts ==
    \A c \in Containers :
        {"rm_dnat", "rm_accept"} \cap Faults[c] = {} /\ SoleOwner(c) =>
            DnatAccount(c) /\ AcceptAccount(c)

\* Finitely many ports, each with its place in the list.
LEMMA PortPlaces ==
    ASSUME NEW c \in Containers
    PROVE  /\ IsFiniteSet(DOMAIN Ports[c])
           /\ \A j \in DOMAIN Ports[c] : j \in Nat /\ 1 =< j
<1>1. DOMAIN Ports[c] = 1 .. Len(Ports[c]) /\ Len(Ports[c]) \in Nat
  BY PortAssumption
<1> QED
  BY <1>1, FS_Interval

LEMMA DuesFinite ==
    ASSUME NEW c \in Containers
    PROVE  IsFiniteSet(DnatDue(c)) /\ IsFiniteSet(AcceptDue(c))
BY PortPlaces, FS_Subset DEF DnatDue, AcceptDue

\* The same, after a step.
LEMMA DuesFiniteNext ==
    ASSUME NEW c \in Containers
    PROVE  IsFiniteSet(DnatDue(c)') /\ IsFiniteSet(AcceptDue(c)')
BY PortPlaces, FS_Subset DEF DnatDue, AcceptDue

\* While more becomes due and the chains stay, the accounts stay in order.
LEMMA AccountsGrow ==
    ASSUME TypeOK, NEW c \in Containers, ip'[c] = ip[c]
    PROVE  /\ prerouting' = prerouting /\ DnatDue(c) \subseteq DnatDue(c)' /\ DnatAccount(c)
                => DnatAccount(c)'
           /\ forward' = forward /\ AcceptDue(c) \subseteq AcceptDue(c)' /\ AcceptAccount(c)
                => AcceptAccount(c)'
<1>0. prerouting \in Seq(DnatRules) /\ forward \in Seq(AcceptRules)
  BY DEF TypeOK, ChainsOK
<1>1. DnatOf(c)' = DnatOf(c) /\ AcceptOf(c)' = AcceptOf(c)
  BY DEF DnatOf, AcceptOf
<1>2. ASSUME prerouting' = prerouting, DnatDue(c) \subseteq DnatDue(c)', DnatAccount(c)
      PROVE  DnatAccount(c)'
  <2>1. Owed(prerouting, DnatOf(c), DnatDue(c)', ip[c])
    BY <1>0, <1>2, DuesFiniteNext, OwedMore DEF DnatAccount
  <2> QED
    BY <1>1, <1>2, <2>1 DEF DnatAccount
<1>3. ASSUME forward' = forward, AcceptDue(c) \subseteq AcceptDue(c)', AcceptAccount(c)
      PROVE  AcceptAccount(c)'
  <2>1. Owed(forward, AcceptOf(c), AcceptDue(c)', ip[c])
    BY <1>0, <1>3, DuesFiniteNext, OwedMore DEF AcceptAccount
  <2> QED
    BY <1>1, <1>3, <2>1 DEF AcceptAccount
<1> QED
  BY <1>2, <1>3

\* A run that gets an address of its own finds no rule for it.
LEMMA NewAddress ==
    ASSUME TypeOK, AddressInv, RuleSource, NEW c \in Containers, Moves(c),
           ip[c] = NoIp, UNCHANGED <<prerouting, forward>>, SoleOwner(c)'
    PROVE  DnatAccount(c)' /\ AcceptAccount(c)'
<1>0. prerouting \in Seq(DnatRules) /\ forward \in Seq(AcceptRules)
  BY DEF TypeOK, ChainsOK
<1>1. ASSUME NEW r \in ToSet(prerouting) \cup ToSet(forward), r.ip = ip'[c] PROVE FALSE
  <2>1. PICK d \in Containers : r.ip = ip[d] /\ r.ip # NoIp
    BY DEF RuleSource
  <2>2. d # c /\ ip'[d] = ip[d]
    BY <2>1, OtherRuns
  <2> QED
    BY <1>1, <2>1, <2>2 DEF SoleOwner
<1>2. /\ Owed(prerouting, DnatOf(c)', DnatDue(c)', ip'[c])
      /\ Owed(forward, AcceptOf(c)', AcceptDue(c)', ip'[c])
  BY <1>0, <1>1, DuesFiniteNext, NothingOwed
<1> QED
  BY <1>2 DEF DnatAccount, AcceptAccount

LEMMA QuietAccounts ==
    ASSUME TypeOK, NEW c \in Containers, Quiet(c), DnatAccount(c), AcceptAccount(c)
    PROVE  DnatAccount(c)' /\ AcceptAccount(c)'
<1>1. pc[c] \in {"failed", "started"} => pc'[c] \in Added
  BY DEF Quiet, Addressless, Connecting, BridgeRules, Added
<1>2. DnatDue(c) \subseteq DnatDue(c)' /\ AcceptDue(c) \subseteq AcceptDue(c)'
  <2>1. CASE pc[c] \in Addressless \cup Connecting \cup {"rm_veth"} /\ pc'[c] # "crashed"
    BY <2>1 DEF Addressless, Connecting, BridgeRules, DnatDue, AcceptDue, Added
  <2>2. CASE pc'[c] \in Added
    BY <2>2 DEF DnatDue, AcceptDue
  <2>3. CASE pc[c] = "delete" /\ pc'[c] = FirstCleanup(c) /\ i'[c] = 1
    <3>1. FirstCleanup(c) = "rm_veth" => DOMAIN Ports[c] = {}
      BY DEF FirstCleanup
    <3> QED
      BY <2>3, <3>1, FirstPortType, PortPlaces DEF DnatDue, AcceptDue
  <2> QED
    BY <2>1, <2>2, <2>3 DEF Quiet, Added, Connecting
<1> QED
  BY <1>2, AccountsGrow DEF Quiet

\* A run's own steps: what it adds it owes, what it deletes it owes no more.
LEMMA AccountsOwn ==
    ASSUME TypeOK, PortLoop, AddressInv, RuleSource, NEW c \in Containers, Moves(c),
           {"rm_dnat", "rm_accept"} \cap Faults[c] = {}, SoleOwner(c)',
           DnatAccount(c), AcceptAccount(c)
    PROVE  DnatAccount(c)' /\ AcceptAccount(c)'
<1>0. /\ prerouting \in Seq(DnatRules) /\ forward \in Seq(AcceptRules)
      /\ pc \in [Containers -> Labels] /\ i \in [Containers -> Nat]
      /\ \A j \in DOMAIN Ports[c] : j \in Nat
  BY PortPlaces DEF TypeOK, ChainsOK, ControlOK
<1>1. CASE Start(c)
  BY <1>1, NewAddress DEF Start, Step, AddressInv, chainVars
<1>2. CASE Allocate(c)
  <2>1. /\ pc[c] = "allocate" /\ pc'[c] = "veth_add" /\ UNCHANGED <<i, prerouting, forward>>
        /\ ip[c] # NoIp => ip' = ip
    BY <1>0, <1>2 DEF Allocate, Step, chainVars
  <2>2. DnatDue(c) = {} /\ AcceptDue(c) = {}
    BY <2>1 DEF DnatDue, AcceptDue, Added
  <2> QED
    BY <2>1, <2>2, NewAddress, AccountsGrow
<1>3. CASE Dnat(c)
  <2>0. pc[c] = "dnat" /\ i[c] \in DOMAIN Ports[c] /\ UNCHANGED <<ip, forward>>
    BY <1>3, PortTurn DEF Dnat, Step, NextPort, runVars, chainVars, PortLoop
  <2>1. CASE /\ pc'[c] = "accept" /\ i' = i
             /\ prerouting' = Append(prerouting, DnatRule(c))
    <3>1. /\ DnatDue(c)' = DnatDue(c) \cup {i[c]} /\ i[c] \notin DnatDue(c)
          /\ AcceptDue(c) \subseteq AcceptDue(c)'
      BY <1>0, <2>0, <2>1 DEF DnatDue, AcceptDue, Added
    <3>2. DnatOf(c)[i[c]] = DnatRule(c) /\ DnatRule(c) \in DnatRules
      BY <2>0, RuleOfPort, RuleTypes
    <3>3. Owed(prerouting', DnatOf(c), DnatDue(c) \cup {i[c]}, ip[c])
      BY <1>0, <2>1, <3>1, <3>2, DuesFinite, OwedAdd DEF DnatAccount
    <3>4. DnatOf(c)' = DnatOf(c)
      BY <2>0 DEF DnatOf
    <3> QED
      BY <2>0, <3>1, <3>3, <3>4, AccountsGrow DEF DnatAccount
  <2>2. CASE prerouting' = prerouting /\ NextPort(c, "dnat", "dnat", "started")
    <3>1. \/ pc'[c] = "dnat" /\ i'[c] = i[c] + 1
          \/ pc'[c] = "started"
      BY <2>2, PortTurn
    <3>2. DnatDue(c) \subseteq DnatDue(c)' /\ AcceptDue(c) \subseteq AcceptDue(c)'
      BY <1>0, <2>0, <3>1 DEF DnatDue, AcceptDue, Added
    <3> QED
      BY <2>0, <2>2, <3>2, AccountsGrow
  <2> QED
    BY <1>0, <1>3, <2>1, <2>2 DEF Dnat, Step, runVars, chainVars
<1>4. CASE Accept(c)
  <2>1. /\ pc[c] = "accept" /\ i[c] \in DOMAIN Ports[c] /\ UNCHANGED <<ip, prerouting>>
        /\ (pc'[c] = "dnat" /\ i'[c] = i[c] + 1) \/ pc'[c] = "started"
    BY <1>4, PortTurn DEF Accept
  <2>2. /\ AcceptDue(c) \cup {i[c]} \subseteq AcceptDue(c)' /\ i[c] \notin AcceptDue(c)
        /\ DnatDue(c) \subseteq DnatDue(c)'
    BY <1>0, <2>1 DEF DnatDue, AcceptDue, Added
  <2>3. CASE forward' = forward
    BY <2>1, <2>2, <2>3, AccountsGrow
  <2>4. CASE forward' = Append(forward, AcceptRule(c))
    <3>1. AcceptOf(c)[i[c]] = AcceptRule(c) /\ AcceptRule(c) \in AcceptRules
      BY <2>1, RuleOfPort, RuleTypes
    <3>2. Owed(forward', AcceptOf(c), AcceptDue(c) \cup {i[c]}, ip[c])
      BY <1>0, <2>2, <2>4, <3>1, DuesFinite, OwedAdd DEF AcceptAccount
    <3>3. forward' \in Seq(AcceptRules)
      BY <1>0, <2>4, <3>1
    <3>4. Owed(forward', AcceptOf(c), AcceptDue(c)', ip[c])
      BY <2>2, <3>2, <3>3, DuesFiniteNext, OwedMore
    <3>5. AcceptOf(c)' = AcceptOf(c)
      BY <2>1 DEF AcceptOf
    <3> QED
      BY <2>1, <2>2, <3>4, <3>5, AccountsGrow DEF AcceptAccount
  <2> QED
    BY <1>4, <2>3, <2>4 DEF Accept
<1>5. CASE RmDnat(c)
  <2>1. /\ pc[c] = "rm_dnat" /\ pc'[c] = "rm_accept" /\ UNCHANGED <<i, ip, forward>>
        /\ i[c] \in DOMAIN Ports[c]
        /\ prerouting' = RemoveFirst(prerouting, DnatRule(c))
    BY <1>0, <1>5 DEF RmDnat, Step, Fails, runVars, PortLoop
  <2>2. /\ DnatDue(c)' = DnatDue(c) \ {i[c]} /\ i[c] \in DnatDue(c)
        /\ AcceptDue(c) \subseteq AcceptDue(c)'
    BY <1>0, <2>1 DEF DnatDue, AcceptDue, Added
  <2>3. DnatOf(c)[i[c]] = DnatRule(c)
    BY <2>1, RuleOfPort
  <2>4. Owed(prerouting', DnatOf(c), DnatDue(c) \ {i[c]}, ip[c])
    BY <1>0, <2>1, <2>2, <2>3, DuesFinite, OwedRemove DEF DnatAccount
  <2>5. DnatOf(c)' = DnatOf(c)
    BY <2>1 DEF DnatOf
  <2> QED
    BY <2>1, <2>2, <2>4, <2>5, AccountsGrow DEF DnatAccount
<1>6. CASE RmAccept(c)
  <2>1. /\ pc[c] = "rm_accept" /\ i[c] \in DOMAIN Ports[c] /\ UNCHANGED <<ip, prerouting>>
        /\ forward' = RemoveFirst(forward, AcceptRule(c))
        /\ \/ pc'[c] = "rm_dnat" /\ i'[c] = i[c] + 1
           \/ pc'[c] = "rm_veth" /\ \A j \in DOMAIN Ports[c] : j =< i[c]
    BY <1>6, PortTurn DEF RmAccept, Fails
  <2>2. /\ AcceptDue(c) \ {i[c]} \subseteq AcceptDue(c)' /\ i[c] \in AcceptDue(c)
        /\ DnatDue(c) \subseteq DnatDue(c)'
    BY <1>0, <2>1 DEF DnatDue, AcceptDue, Added
  <2>3. AcceptOf(c)[i[c]] = AcceptRule(c) /\ AcceptRule(c) \in AcceptRules
    BY <2>1, RuleOfPort, RuleTypes
  <2>4. Owed(forward', AcceptOf(c), AcceptDue(c) \ {i[c]}, ip[c])
    BY <1>0, <2>1, <2>2, <2>3, DuesFinite, OwedRemove DEF AcceptAccount
  <2>5. forward' \in Seq(AcceptRules)
    BY <1>0, <2>1, <2>3, RemoveFirstType
  <2>6. Owed(forward', AcceptOf(c), AcceptDue(c)', ip[c])
    BY <2>2, <2>4, <2>5, DuesFiniteNext, OwedMore
  <2>7. AcceptOf(c)' = AcceptOf(c)
    BY <2>1 DEF AcceptOf
  <2> QED
    BY <2>1, <2>2, <2>6, <2>7, AccountsGrow DEF AcceptAccount
<1> QED
  BY <1>1, <1>2, <1>3, <1>4, <1>5, <1>6, QuietSteps, QuietAccounts DEF Moves

\* The steps of others: their rules are for another address.
LEMMA AccountsOthers ==
    ASSUME TypeOK, PortLoop, AddressInv, NEW c \in Containers, Moves(c),
           NEW d \in Containers \ {c}, SoleOwner(d), DnatAccount(d), AcceptAccount(d)
    PROVE  DnatAccount(d)' /\ AcceptAccount(d)'
<1>0. prerouting \in Seq(DnatRules) /\ forward \in Seq(AcceptRules)
  BY DEF TypeOK, ChainsOK
<1>1. pc'[d] = pc[d] /\ i'[d] = i[d] /\ ip'[d] = ip[d]
  BY OtherRuns
<1>2. /\ DnatDue(d)' = DnatDue(d) /\ AcceptDue(d)' = AcceptDue(d)
      /\ DnatOf(d)' = DnatOf(d) /\ AcceptOf(d)' = AcceptOf(d)
  BY <1>1 DEF DnatDue, AcceptDue, DnatOf, AcceptOf
<1>3. DnatRule(c).ip = ip[c] /\ AcceptRule(c).ip = ip[c]
  BY DEF DnatRule, AcceptRule
<1>4. pc[c] \in {"dnat", "accept"} => ip[c] # ip[d]
  BY DEF AddressInv, SoleOwner
<1>5. Owed(prerouting', DnatOf(d), DnatDue(d), ip[d])
  <2>1. CASE prerouting' = prerouting
    BY <2>1 DEF DnatAccount
  <2>2. CASE /\ prerouting' = Append(prerouting, DnatRule(c))
             /\ DnatRule(c) \in DnatRules /\ ip[c] # ip[d]
    BY <1>0, <1>3, <2>2, DuesFinite, OwedOthers DEF DnatAccount
  <2>3. CASE prerouting' = RemoveFirst(prerouting, DnatRule(c)) /\ DnatRule(c) \in DnatRules
    BY <1>0, <2>3, DuesFinite, OwedOthers DEF DnatAccount
  <2> QED
    BY <1>4, <2>1, <2>2, <2>3, ChainSteps
<1>6. Owed(forward', AcceptOf(d), AcceptDue(d), ip[d])
  <2>1. CASE forward' = forward
    BY <2>1 DEF AcceptAccount
  <2>2. CASE /\ forward' = Append(forward, AcceptRule(c))
             /\ AcceptRule(c) \in AcceptRules /\ ip[c] # ip[d]
    BY <1>0, <1>3, <2>2, DuesFinite, OwedOthers DEF AcceptAccount
  <2>3. CASE forward' = RemoveFirst(forward, AcceptRule(c)) /\ AcceptRule(c) \in AcceptRules
    BY <1>0, <2>3, DuesFinite, OwedOthers DEF AcceptAccount
  <2> QED
    BY <1>4, <2>1, <2>2, <2>3, ChainSteps
<1> QED
  BY <1>1, <1>2, <1>5, <1>6 DEF DnatAccount, AcceptAccount

LEMMA AccountsStep ==
    ASSUME TypeOK, PortLoop, AddressInv, RuleSource, Accounts, [Next]_vars
    PROVE  Accounts'
<1>1. ASSUME NEW c \in Containers, Moves(c), NEW d \in Containers,
             {"rm_dnat", "rm_accept"} \cap Faults[d] = {}, SoleOwner(d)'
      PROVE  DnatAccount(d)' /\ AcceptAccount(d)'
  <2>1. SoleOwner(d) /\ DnatAccount(d) /\ AcceptAccount(d)
    BY <1>1, SoleBefore DEF Accounts
  <2> QED
    BY <1>1, <2>1, AccountsOwn, AccountsOthers
<1>2. CASE UNCHANGED <<pc, i, ip, prerouting, forward>>
  BY <1>2 DEF Accounts, DnatAccount, AcceptAccount, DnatDue, AcceptDue, DnatOf, AcceptOf,
              SoleOwner
<1> QED
  BY <1>1, <1>2, StepsOfRuns DEF Accounts

\* The pair of a run is gone once `ip link delete` has succeeded: nobody else
\* can make it.
PairGone ==
    \A c \in Containers : pc[c] = "removed" /\ "rm_veth" \notin Faults[c] => veth[c] = {}

\* Only the last command of network_cleanup_container leads to the end.
LEMMA OnlyRmVeth ==
    ASSUME TypeOK, PortLoop, NEW c \in Containers, Process(c), pc'[c] = "removed"
    PROVE  RmVeth(c)
<1>1. ~Allocate(c) /\ ~Dnat(c) /\ ~Accept(c) /\ ~RmDnat(c) /\ ~RmAccept(c)
  <2>1. ~Allocate(c) /\ ~RmDnat(c)
    BY DEF Allocate, RmDnat, Step, TypeOK, ControlOK
  <2>2. Dnat(c) \/ Accept(c) => pc'[c] \in {"dnat", "accept", "started"}
    BY PortTurn DEF Dnat, Accept, Step, TypeOK, ControlOK
  <2>3. RmAccept(c) => pc'[c] \in {"rm_dnat", "rm_veth"}
    BY PortTurn DEF RmAccept
  <2> QED
    BY <2>1, <2>2, <2>3
<1>2. pc[c] = "rm_veth"
  BY <1>1, QuietSteps, FirstPortType DEF Quiet, Addressless, Connecting, BridgeRules
<1> QED
  BY <1>2 DEF Process, BridgeShow, BridgeAdd, BridgeAddr, BridgeUp, IpForward,
     AddBridgeRule, BridgeRules, Allocate, VethAdd, VethMaster, VethUp, VethNetns, NsAddr,
     NsUp, NsRoute, NsLo, Dnat, Accept, StartFailed, Return, Delete, RmDnat, RmAccept,
     Step, NsSet, NextPort, Abort, Ignore

LEMMA PairGoneStep ==
    ASSUME TypeOK, PortLoop, NameInv, PairGone, [Next]_vars
    PROVE  PairGone'
<1>1. ASSUME NEW c \in Containers, Process(c), NEW d \in Containers,
             pc'[d] = "removed", "rm_veth" \notin Faults[d]
      PROVE  veth'[d] = {}
  <2>1. CASE d = c
    BY <1>1, <2>1, OnlyRmVeth DEF RmVeth, DropPair, Fails, TypeOK, LinksOK
  <2>2. CASE d # c
    BY <1>1, <2>2, OtherRuns, PairsOfOthers DEF Moves, PairGone
  <2> QED
    BY <2>1, <2>2
<1>2. ASSUME NEW c \in Containers, Start(c) \/ Crash(c) PROVE PairGone'
  BY <1>2 DEF Start, Crash, Step, linkVars, PairGone, TypeOK, ControlOK
<1>3. ASSUME NEW c \in Containers, Exit(c) PROVE PairGone'
  BY <1>3 DEF Exit, linkVars, PairGone
<1>4. ASSUME NEW c \in Containers, DestroyNetns(c) PROVE PairGone'
  BY <1>4 DEF DestroyNetns, DropPair, PairGone, TypeOK, LinksOK
<1>5. ASSUME NEW b \in Bridges, DeleteBridgeDown(b) \/ DeleteBridgeLink(b) PROVE PairGone'
  BY <1>5 DEF DeleteBridgeDown, DeleteBridgeLink, PairGone, TypeOK, LinksOK
<1>6. CASE UNCHANGED vars
  BY <1>6 DEF vars, linkVars, PairGone
<1> QED
  BY <1>1, <1>2, <1>3, <1>4, <1>5, <1>6 DEF Next, Terminated, PairGone

\* At the end nothing is owed.
LEMMA NothingLeft ==
    ASSUME TypeOK, NameInv, Accounts, PairGone
    PROVE  RemovedClean
<1> SUFFICES ASSUME NEW c \in Containers, pc[c] = "removed",
                    CleanupCommands \cap Faults[c] = {}, SoleOwner(c)
             PROVE  /\ \A r \in ToSet(prerouting) \cup ToSet(forward) : r.ip # ip[c]
                    /\ veth[c] = {} /\ hostEth0 # c
                    /\ \A d \in Containers : ns[d].eth0 # c
  BY DEF RemovedClean
<1>0. prerouting \in Seq(DnatRules) /\ forward \in Seq(AcceptRules)
  BY DEF TypeOK, ChainsOK
<1>1. DnatDue(c) = {} /\ AcceptDue(c) = {}
  BY DEF DnatDue, AcceptDue, Added
<1>2. DnatAccount(c) /\ AcceptAccount(c)
  BY DEF Accounts, CleanupCommands
<1>3. \A r \in ToSet(prerouting) \cup ToSet(forward) : r.ip # ip[c]
  BY <1>0, <1>1, <1>2, OwedNothing DEF DnatAccount, AcceptAccount
<1>4. veth[c] = {}
  BY DEF PairGone, CleanupCommands
<1>5. c # None
  BY ContainersAssumption
<1> QED
  BY <1>3, <1>4, <1>5 DEF NameInv

LEMMA CleanInit == Init => Accounts /\ PairGone
<1> SUFFICES ASSUME Init PROVE Accounts /\ PairGone
  OBVIOUS
<1>1. ToSet(<<>>) = {} /\ \A S : <<>> \in Seq(S)
  BY DEF ToSet
<1>2. ASSUME NEW c \in Containers PROVE DnatAccount(c) /\ AcceptAccount(c)
  BY <1>1, DuesFinite, NothingOwed DEF Init, DnatAccount, AcceptAccount
<1> QED
  BY <1>2 DEF Init, Accounts, PairGone

\* What container_delete leaves (network_cleanup_container): wherever a run was
\* when it was deleted, whatever the other runs do meanwhile, no rule for its
\* own address and no end of its pair remains.
THEOREM RemovedCleanHolds == Spec => []RemovedClean
<1> DEFINE CleanInv == AddressInv /\ RuleSource /\ Accounts /\ PairGone
<1>1. TypeOK /\ PortLoop /\ NameInv /\ CleanInv /\ [Next]_vars => CleanInv'
  BY AddressStep, SourceStep, AccountsStep, PairGoneStep
<1>2. TypeOK /\ NameInv /\ CleanInv => RemovedClean
  BY NothingLeft
<1>3. Init => CleanInv
  BY PortInit, CleanInit
<1> QED
  BY TypeCorrect, <1>1, <1>2, <1>3, PTL DEF Spec
=============================================================================
