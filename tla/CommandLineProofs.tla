--------------------------- MODULE CommandLineProofs ---------------------------
(***************************************************************************)
(* Proofs about CommandLine: what the program leaves behind when it ends,  *)
(* what it makes of its options, and the conversions of the configuration. *)
(***************************************************************************)
EXTENDS CommandLine, FiniteSetTheorems, SequenceTheorems, TLAPS

\* The state the exit of the program is reached in, but for the runtime.
Settled ==
    /\ status = 1 => container \in {"none", "deleted"} \/ deletion = "failed"
    /\ container = "created" => deletion = "failed"
    /\ container \in {"running", "exited"} => status = 0
    /\ container # "none" /\ "rm" \in flags /\ "detach" \notin flags =>
          container = "deleted" \/ deletion = "failed"
    /\ container = "deleted" /\ status = 0 => "rm" \in flags /\ "detach" \notin flags

\* Where the program is tells what has become of the container and the runtime.
Stage ==
    /\ pc \in Labels
    /\ pc \in {"main", "root", "init"} => runtime = "none" /\ container = "none"
    /\ pc \in {"options", "create", "crashed"} => container = "none"
    /\ pc \in {"start", "delete_failed"} => container = "created"
    /\ pc = "wait" => container \in {"running", "exited"} /\ "detach" \notin flags
    /\ pc = "remove" =>
          container \in {"running", "exited"} /\ "rm" \in flags /\ "detach" \notin flags
    /\ pc \in {"cleanup", "exit"} => Settled
    /\ pc = "exit" => runtime # "up"

LEMMA StageInit == Init => Stage
  BY DEF Init, Stage, Labels

LEMMA StageNext == Stage /\ [Next \/ Terminated]_vars => Stage'
  <1> SUFFICES ASSUME Stage, [Next \/ Terminated]_vars PROVE Stage'
    OBVIOUS
  <1> USE DEF Stage, Settled, Labels, Goto, Leave, ReturnFromRun
  <1>1. CASE MainOptions
    BY <1>1 DEF MainOptions
  <1>2. CASE CheckRoot
    BY <1>2 DEF CheckRoot
  <1>3. CASE InitRuntime
    BY <1>3 DEF InitRuntime
  <1>4. CASE Image
    BY <1>4 DEF Image
  <1>5. CASE \E o \in Options : Option(o)
    BY <1>5 DEF Option
  <1>6. CASE Create
    BY <1>6 DEF Create
  <1>7. CASE Start
    BY <1>7 DEF Start
  <1>8. CASE DeleteFailed
    BY <1>8 DEF DeleteFailed, Delete
  <1>9. CASE Wait
    BY <1>9 DEF Wait
  <1>10. CASE AutoRemove
    BY <1>10 DEF AutoRemove, Delete
  <1>11. CASE Cleanup
    BY <1>11 DEF Cleanup
  <1>12. CASE ContainerExits
    BY <1>12 DEF ContainerExits
  <1>13. CASE Terminated \/ UNCHANGED vars
    BY <1>13 DEF Terminated, vars
  <1> QED
    BY <1>1, <1>2, <1>3, <1>4, <1>5, <1>6, <1>7, <1>8, <1>9, <1>10, <1>11, <1>12, <1>13
    DEF Next, Program

\* Whatever options are given, in any number, and whichever calls of the runtime
\* fail, container_delete and waitpid among them: the container that a run has created
\* is started, or an attempt has been made to delete it, and only that attempt can
\* leave it behind (the returns of cmd_run and main).
THEOREM AccountedHolds == Spec => []Accounted
  <1>1. Stage => Accounted
    BY DEF Stage, Settled, Accounted
  <1> QED
    BY StageInit, StageNext, <1>1, PTL DEF Spec

\* The weight is always one that cpu.weight accepts (cgroup_apply_limits).
THEOREM WeightRange == \A shares \in Nat : Weight(shares) \in 1..10000
  BY DEF Weight

\* More shares never give less weight.
THEOREM WeightMonotone ==
    \A s, t \in Nat : s <= t => Weight(s) <= Weight(t)
  BY DEF Weight

\* An address drawn in a network of at least 256 addresses is one of its hosts
\* and not the gateway (network_allocate_ip, network_setup_container).
THEOREM AddressInSubnet ==
    ASSUME NEW base \in Nat, NEW size \in Nat, size >= 256, NEW random \in Nat
    PROVE  /\ Address(base, random) \in base + 2 .. base + size - 2
           /\ Address(base, random) # Gateway(base)
  BY DEF Address, Gateway

----------------------------------------------------------------------------
(* The configuration *)

\* What the argument of an option is, by its name.
LEMMA OptionTypes ==
  ASSUME NEW o \in Options
  PROVE  /\ o.opt = "publish" => /\ o.host \in Int /\ o.container \in Int
                                 /\ o.protocol \in {"", "tcp", "udp"}
         /\ o.opt = "volume" => o.target \in Texts
         /\ o.opt = "memory" => /\ o.digits \in BOOLEAN /\ o.number \in Int
                                /\ o.unit \in {"", "K", "M", "G", "T", "other"}
         /\ o.opt \in {"network", "ip"} => o.value \in Texts
  BY OptionAssumption
  DEF PortOptions, SizeOptions, VolumeOptions, TextOptions, PlainOptions

LEMMA Product == \A x, y \in Int : x * y \in Int
  OBVIOUS

LEMMA Constants == Kilo \in Int /\ INT64_MAX \in Nat \ {0} /\ Fraction \in Nat \ {0}
  BY SizeAssumption

LEMMA MultiplierType == \A unit \in {"", "K", "M", "G", "T"} : Multiplier(unit) \in Int
  <1>1. Kilo * Kilo \in Int
    BY Product, Constants
  <1>2. Kilo * Kilo * Kilo \in Int
    BY Product, Constants, <1>1
  <1>3. Kilo * Kilo * Kilo * Kilo \in Int
    BY Product, Constants, <1>2
  <1>4. /\ Multiplier("") = 1 /\ Multiplier("K") = Kilo /\ Multiplier("M") = Kilo * Kilo
        /\ Multiplier("G") = Kilo * Kilo * Kilo /\ Multiplier("T") = Kilo * Kilo * Kilo * Kilo
    BY DEF Multiplier
  <1>5. /\ Multiplier("") \in Int /\ Multiplier("K") \in Int /\ Multiplier("M") \in Int
        /\ Multiplier("G") \in Int /\ Multiplier("T") \in Int
    <2>1. 1 \in Int
      OBVIOUS
    <2> QED
      BY <1>1, <1>2, <1>3, <1>4, <2>1, Constants, Zenon
  <1> QED
    BY <1>5, Zenon

\* The limit that a size of x / Fraction bytes may become.
FitsLimit(limit, x) ==
    IF 0 < limit /\ limit < INT64_MAX
    THEN limit * Fraction <= x /\ x < (limit + 1) * Fraction
    ELSE x < Fraction \/ INT64_MAX * Fraction <= x

\* The conversion of parse_size rounds down to a byte and is in range.
LEMMA ToInt64Fits ==
  ASSUME NEW x \in Int, NEW m \in ToInt64(x)
  PROVE  /\ m \in Int /\ INT64_MIN <= m /\ m <= INT64_MAX
         /\ FitsLimit(m, x)
  <1> DEFINE n == IF x >= 0 THEN x \div Fraction ELSE -((-x) \div Fraction)
  <1>0. /\ Fraction \in Int /\ Fraction > 0 /\ INT64_MAX \in Int /\ INT64_MAX > 0
        /\ INT64_MIN = -INT64_MAX - 1
    BY SizeAssumption DEF INT64_MIN
  <1>1. \A y \in Nat : /\ y \div Fraction \in Nat
                       /\ (y \div Fraction) * Fraction <= y
                       /\ y < (y \div Fraction + 1) * Fraction
    BY <1>0
  <1>2. n \in Int
    BY <1>1
  <1>3. x >= 0 => n >= 0 /\ n * Fraction <= x /\ x < (n + 1) * Fraction
    BY <1>1
  <1>4. x < 0 => n <= 0
    BY <1>1
  <1>5. m \in IF n > INT64_MAX THEN {INT64_MIN, INT64_MAX}
              ELSE {IF n < INT64_MIN THEN INT64_MIN ELSE n}
    BY DEF ToInt64
  <1> HIDE DEF n
  <1>6. CASE n > INT64_MAX
    <2>1. m = INT64_MIN \/ m = INT64_MAX
      BY <1>5, <1>6
    <2>2. x >= 0 /\ n * Fraction <= x
      BY <1>0, <1>2, <1>3, <1>4, <1>6
    <2>3. INT64_MAX * Fraction <= n * Fraction
      BY <1>0, <1>2, <1>6
    <2>4. INT64_MAX * Fraction \in Int /\ n * Fraction \in Int
      BY <1>0, <1>2
    <2>5. INT64_MAX * Fraction <= x
      BY <2>2, <2>3, <2>4
    <2> QED
      BY <1>0, <2>1, <2>5 DEF FitsLimit
  <1>7. CASE n < INT64_MIN
    <2>1. m = INT64_MIN /\ x < 0
      BY <1>0, <1>2, <1>3, <1>5, <1>7
    <2> QED
      BY <1>0, <2>1 DEF FitsLimit
  <1>8. CASE INT64_MIN <= n /\ n <= INT64_MAX
    <2>1. m = n
      BY <1>0, <1>2, <1>5, <1>8
    <2>2. CASE x < 0
      BY <1>0, <1>2, <1>4, <1>8, <2>1, <2>2 DEF FitsLimit
    <2>3. CASE x >= 0 /\ n = 0
      BY <1>0, <1>3, <2>1, <2>3 DEF FitsLimit
    <2>4. CASE x >= 0 /\ n = INT64_MAX
      BY <1>0, <1>3, <2>1, <2>4 DEF FitsLimit
    <2>5. CASE x >= 0 /\ n # 0 /\ n # INT64_MAX
      <3>1. 0 < n /\ n < INT64_MAX
        BY <1>0, <1>2, <1>3, <1>8, <2>5
      <3> QED
        BY <1>0, <1>2, <1>3, <1>8, <2>1, <2>5, <3>1 DEF FitsLimit
    <2> QED
      BY <2>2, <2>3, <2>4, <2>5
  <1> QED
    BY <1>0, <1>2, <1>6, <1>7, <1>8

\* What MemoryAsGiven says of the last -m.
AsAsked(limit, o) ==
    IF 0 < limit /\ limit < INT64_MAX
    THEN /\ o.digits /\ o.unit # "other"
         /\ limit * Fraction <= Bytes(o)
         /\ Bytes(o) < (limit + 1) * Fraction
    ELSE \/ ~o.digits
         \/ o.unit = "other"
         \/ Bytes(o) < Fraction
         \/ INT64_MAX * Fraction <= Bytes(o)

LEMMA ParseSizeAsAsked ==
  ASSUME NEW o \in Options, o.opt = "memory", NEW m \in ParseSize(o)
  PROVE  /\ m \in Int /\ INT64_MIN <= m /\ m <= INT64_MAX
         /\ AsAsked(m, o)
  <1>1. CASE ~o.digits \/ o.unit = "other"
    <2>1. m = -1
      BY <1>1 DEF ParseSize, Unlimited
    <2> QED
      BY <1>1, <2>1, SizeAssumption DEF AsAsked, INT64_MIN
  <1>2. CASE ~(~o.digits \/ o.unit = "other")
    <2>1. o.number \in Int /\ o.unit \in {"", "K", "M", "G", "T"}
      BY <1>2, OptionTypes
    <2>2. Multiplier(o.unit) \in Int
      BY <2>1, MultiplierType
    <2>3. Bytes(o) \in Int
      BY <2>1, <2>2, Product DEF Bytes
    <2>4. m \in ToInt64(Bytes(o))
      BY <1>2 DEF ParseSize
    <2>5. m \in Int /\ INT64_MIN <= m /\ m <= INT64_MAX /\ FitsLimit(m, Bytes(o))
      BY <2>3, <2>4, ToInt64Fits
    <2> QED
      BY <1>2, <2>5 DEF AsAsked, FitsLimit
  <1> QED
    BY <1>1, <1>2

LEMMA Port16Reduced ==
  ASSUME NEW x \in Int
  PROVE  Port16(x) \in Int /\ Reduced(Port16(x), x)
  BY DEF Port16, Reduced

\* One field of the configuration is set.
LEMMA ConfigUpdate ==
  ASSUME NEW c \in Configs
  PROVE  /\ \A x \in Seq(Ports) :
              /\ [c EXCEPT !.ports = x] \in Configs
              /\ [c EXCEPT !.ports = x].ports = x
              /\ [c EXCEPT !.ports = x].mounts = c.mounts
              /\ [c EXCEPT !.ports = x].memory = c.memory
         /\ \A x \in Seq(Texts) :
              /\ [c EXCEPT !.mounts = x] \in Configs
              /\ [c EXCEPT !.mounts = x].mounts = x
              /\ [c EXCEPT !.mounts = x].ports = c.ports
              /\ [c EXCEPT !.mounts = x].memory = c.memory
         /\ \A x \in Int : [c EXCEPT !.memory = x] \in Configs /\ [c EXCEPT !.memory = x].memory = x
         /\ \A x \in Texts :
              [c EXCEPT !.network = x] \in Configs /\ [c EXCEPT !.ip = x] \in Configs
  BY DEF Configs

LEMMA ConfigKeeps ==
  ASSUME NEW c \in Configs, NEW x
  PROVE  /\ [c EXCEPT !.memory = x].ports = c.ports /\ [c EXCEPT !.memory = x].mounts = c.mounts
         /\ [c EXCEPT !.network = x].ports = c.ports /\ [c EXCEPT !.network = x].mounts = c.mounts
         /\ [c EXCEPT !.network = x].memory = c.memory /\ [c EXCEPT !.ip = x].memory = c.memory
         /\ [c EXCEPT !.ip = x].ports = c.ports /\ [c EXCEPT !.ip = x].mounts = c.mounts
  BY DEF Configs

\* The entry that -p adds to the table of ports.
PortOf(o) ==
    [host |-> Port16(o.host), container |-> Port16(o.container),
     protocol |-> IF o.protocol = "" THEN "tcp" ELSE o.protocol]

\* An option extends at most one of the tables, by one entry, and only if there
\* is room.
LEMMA ConfiguredType ==
  ASSUME NEW o \in Options, config \in Configs,
         Len(config.ports) <= MAX_PORTS, Len(config.mounts) <= MAX_MOUNTS,
         INT64_MIN <= config.memory, config.memory <= INT64_MAX,
         NEW c \in Configured(o)
  PROVE  /\ c \in Configs
         /\ Len(c.ports) <= MAX_PORTS
         /\ Len(c.mounts) <= MAX_MOUNTS
         /\ INT64_MIN <= c.memory /\ c.memory <= INT64_MAX
  <1>0. config.ports \in Seq(Ports) /\ config.mounts \in Seq(Texts)
    BY DEF Configs
  <1>1. CASE o.opt = "publish"
    <2>0. c = AddPort(o)
      BY <1>1 DEF Configured
    <2>1. CASE o.colon /\ Len(config.ports) < MAX_PORTS
      <3>1. PortOf(o) \in Ports
        BY <1>1, OptionTypes, Port16Reduced DEF Ports, PortOf
      <3>2. AddPort(o) = [config EXCEPT !.ports = Append(config.ports, PortOf(o))]
        BY <2>1 DEF AddPort, PortOf
      <3>3. /\ Append(config.ports, PortOf(o)) \in Seq(Ports)
            /\ Len(Append(config.ports, PortOf(o))) = Len(config.ports) + 1
        BY <1>0, <3>1, AppendProperties
      <3>4. Len(config.ports) + 1 <= MAX_PORTS
        BY <1>0, <2>1, LimitAssumption, LenProperties
      <3>5. /\ [config EXCEPT !.ports = Append(config.ports, PortOf(o))] \in Configs
            /\ [config EXCEPT !.ports = Append(config.ports, PortOf(o))].ports
                  = Append(config.ports, PortOf(o))
            /\ [config EXCEPT !.ports = Append(config.ports, PortOf(o))].mounts = config.mounts
            /\ [config EXCEPT !.ports = Append(config.ports, PortOf(o))].memory = config.memory
        BY <3>3, ConfigUpdate
      <3> QED
        BY <2>0, <3>2, <3>3, <3>4, <3>5
    <2>2. CASE ~(o.colon /\ Len(config.ports) < MAX_PORTS)
      BY <2>0, <2>2 DEF AddPort
    <2> QED
      BY <2>1, <2>2
  <1>2. CASE o.opt = "volume"
    <2>0. c = AddVolume(o)
      BY <1>2 DEF Configured
    <2>1. CASE o.colon /\ Len(config.mounts) < MAX_MOUNTS
      <3>1. o.target \in Texts
        BY <1>2, OptionTypes
      <3>2. AddVolume(o) = [config EXCEPT !.mounts = Append(config.mounts, o.target)]
        BY <2>1 DEF AddVolume
      <3>3. /\ Append(config.mounts, o.target) \in Seq(Texts)
            /\ Len(Append(config.mounts, o.target)) = Len(config.mounts) + 1
        BY <1>0, <3>1, AppendProperties
      <3>4. Len(config.mounts) + 1 <= MAX_MOUNTS
        BY <1>0, <2>1, LimitAssumption, LenProperties
      <3>5. /\ [config EXCEPT !.mounts = Append(config.mounts, o.target)] \in Configs
            /\ [config EXCEPT !.mounts = Append(config.mounts, o.target)].mounts
                  = Append(config.mounts, o.target)
            /\ [config EXCEPT !.mounts = Append(config.mounts, o.target)].ports = config.ports
            /\ [config EXCEPT !.mounts = Append(config.mounts, o.target)].memory = config.memory
        BY <3>3, ConfigUpdate
      <3> QED
        BY <2>0, <3>2, <3>3, <3>4, <3>5
    <2>2. CASE ~(o.colon /\ Len(config.mounts) < MAX_MOUNTS)
      BY <2>0, <2>2 DEF AddVolume
    <2> QED
      BY <2>1, <2>2
  <1>3. CASE o.opt = "memory"
    <2>1. PICK m \in ParseSize(o) : c = [config EXCEPT !.memory = m]
      BY <1>3 DEF Configured
    <2> QED
      BY <1>3, <2>1, ParseSizeAsAsked, ConfigUpdate, ConfigKeeps
  <1>4. CASE o.opt = "network"
    <2>1. c = [config EXCEPT !.network = o.value]
      BY <1>4 DEF Configured
    <2>2. o.value \in Texts
      BY <1>4, OptionTypes
    <2>3. [config EXCEPT !.network = o.value] \in Configs
      BY <2>2, ConfigUpdate
    <2>4. /\ [config EXCEPT !.network = o.value].ports = config.ports
          /\ [config EXCEPT !.network = o.value].mounts = config.mounts
          /\ [config EXCEPT !.network = o.value].memory = config.memory
      BY ConfigKeeps
    <2> QED
      BY <2>1, <2>3, <2>4
  <1>5. CASE o.opt = "ip"
    <2>1. c = [config EXCEPT !.ip = o.value]
      BY <1>5 DEF Configured
    <2>2. o.value \in Texts
      BY <1>5, OptionTypes
    <2>3. [config EXCEPT !.ip = o.value] \in Configs
      BY <2>2, ConfigUpdate
    <2>4. /\ [config EXCEPT !.ip = o.value].ports = config.ports
          /\ [config EXCEPT !.ip = o.value].mounts = config.mounts
          /\ [config EXCEPT !.ip = o.value].memory = config.memory
      BY ConfigKeeps
    <2> QED
      BY <2>1, <2>3, <2>4
  <1>6. CASE o.opt \notin {"publish", "volume", "memory", "network", "ip"}
    BY <1>6 DEF Configured
  <1> QED
    BY <1>1, <1>2, <1>3, <1>4, <1>5, <1>6

\* Only a turn of the option loop changes the configuration and what it is
\* made from.
LEMMA OnlyOptions ==
  [Next \/ Terminated]_vars =>
    \/ \E o \in Options : Option(o)
    \/ UNCHANGED <<given, config>>
  BY DEF Next, Program, Terminated, vars, MainOptions, CheckRoot, InitRuntime, Image, Create,
         Start, Delete, DeleteFailed, Wait, AutoRemove, Cleanup, ContainerExits

LEMMA TypeNext == TypeOK /\ [Next \/ Terminated]_vars => TypeOK'
  <1> SUFFICES ASSUME TypeOK, [Next \/ Terminated]_vars PROVE TypeOK'
    OBVIOUS
  <1>1. /\ given' \in Seq(Options) /\ config' \in Configs
        /\ Len(config'.ports) <= MAX_PORTS /\ Len(config'.mounts) <= MAX_MOUNTS
        /\ INT64_MIN <= config'.memory /\ config'.memory <= INT64_MAX
    <2>1. ASSUME NEW o \in Options, Option(o)
          PROVE given' \in Seq(Options) /\ config' \in Configured(o)
      BY <2>1, AppendProperties DEF Option, TypeOK
    <2>2. \A o \in Options : \A c \in Configured(o) :
             /\ c \in Configs
             /\ Len(c.ports) <= MAX_PORTS /\ Len(c.mounts) <= MAX_MOUNTS
             /\ INT64_MIN <= c.memory /\ c.memory <= INT64_MAX
      BY ConfiguredType DEF TypeOK
    <2> QED
      BY <2>1, <2>2, OnlyOptions DEF TypeOK
  <1>2. /\ pc' \in Labels /\ flags' \subseteq {"detach", "rm"} /\ status' \in {0, 1}
        /\ runtime' \in {"none", "up", "clean"}
        /\ container' \in {"none", "created", "running", "exited", "deleted"}
        /\ deletion' \in {"none", "done", "failed"}
    BY DEF TypeOK, Labels, Next, Program, Terminated, vars, MainOptions, CheckRoot, InitRuntime,
           Image, Option, Create, Start, Delete, DeleteFailed, Wait, AutoRemove, Cleanup,
           ContainerExits, Goto, Leave, ReturnFromRun
  <1> QED
    BY <1>1, <1>2 DEF TypeOK, INT64_MIN

\* Every variable keeps its type, the tables of the configuration their size
\* (the guards of -p and -v in cmd_run).
THEOREM TypeCorrect == Spec => []TypeOK
  <1>1. /\ Default \in Configs /\ Default.ports = <<>> /\ Default.mounts = <<>>
        /\ INT64_MIN <= Default.memory /\ Default.memory <= INT64_MAX
    <2>1. -1 \in Int
      OBVIOUS
    <2>2. <<>> \in Seq(Ports) /\ <<>> \in Seq(Texts)
      BY EmptySeq
    <2>3. "cr0" \in Texts /\ "" \in Texts
      BY TextAssumption
    <2>4. Default \in Configs
      BY <2>1, <2>2, <2>3 DEF Default, Unlimited, Configs
    <2>5. Default.memory = -1 /\ Default.ports = <<>> /\ Default.mounts = <<>>
      BY DEF Default, Unlimited
    <2>6. INT64_MIN <= -1 /\ -1 <= INT64_MAX
      BY Constants DEF INT64_MIN
    <2> QED
      BY <2>4, <2>5, <2>6
  <1>2. Init => TypeOK
    <2>1. <<>> \in Seq(Options) /\ Len(<<>>) = 0
      BY EmptySeq
    <2> QED
      BY <1>1, <2>1, LimitAssumption DEF Init, TypeOK, Labels
  <1> QED
    BY <1>2, TypeNext, PTL DEF Spec

----------------------------------------------------------------------------
(* The memory limit *)

LEMMA MemoryKept ==
  ASSUME NEW o \in Options, o.opt # "memory", config \in Configs, NEW c \in Configured(o)
  PROVE  c.memory = config.memory
  BY DEF Configured, AddPort, AddVolume, Configs

LEMMA MemoryNext == TypeOK /\ MemoryAsGiven /\ [Next \/ Terminated]_vars => MemoryAsGiven'
  <1> SUFFICES ASSUME TypeOK, MemoryAsGiven, NEW o \in Options, Option(o)
               PROVE  MemoryAsGiven'
    BY OnlyOptions DEF MemoryAsGiven
  <1> DEFINE n == Len(given) + 1
  <1>1. /\ given \in Seq(Options) /\ given' = Append(given, o) /\ config' \in Configured(o)
        /\ config \in Configs
    BY DEF Option, TypeOK
  <1>2. /\ DOMAIN given = 1..Len(given) /\ DOMAIN given' = 1..n /\ given'[n] = o
        /\ Len(given) \in Nat
        /\ \A i \in DOMAIN given : given'[i] = given[i]
    BY <1>1, AppendProperties, LenProperties
  <1>3. CASE o.opt = "memory"
    <2>1. PICK m \in ParseSize(o) : config' = [config EXCEPT !.memory = m]
      BY <1>1, <1>3 DEF Configured
    <2>2. m \in Int /\ AsAsked(m, o)
      BY <1>3, <2>1, ParseSizeAsAsked
    <2>3. config'.memory = m
      BY <1>1, <2>1, <2>2, ConfigUpdate
    <2>4. n \in {i \in DOMAIN given' : given'[i].opt = "memory"}
      BY <1>2, <1>3
    <2>5. ASSUME NEW i \in DOMAIN given', given'[i].opt = "memory",
                 \A j \in {k \in DOMAIN given' : given'[k].opt = "memory"} : j <= i
          PROVE  AsAsked(config'.memory, given'[i])
      <3>1. i = n
        BY <1>2, <2>4, <2>5
      <3> QED
        BY <1>2, <2>2, <2>3, <3>1
    <2> QED
      BY <2>4, <2>5 DEF MemoryAsGiven, AsAsked, Bytes
  <1>4. CASE o.opt # "memory"
    <2>1. config'.memory = config.memory
      BY <1>1, <1>4, MemoryKept
    <2>2. {i \in DOMAIN given' : given'[i].opt = "memory"}
            = {i \in DOMAIN given : given[i].opt = "memory"}
      BY <1>2, <1>4
    <2> QED
      BY <1>2, <2>1, <2>2 DEF MemoryAsGiven, Bytes
  <1> QED
    BY <1>3, <1>4

\* For any options in any number and any width of the integers: the memory limit is
\* the last -m rounded down to a byte, and there is none only where that is not
\* understood, less than a byte or too large (parse_size, and the -m case of cmd_run).
THEOREM MemoryAsGivenHolds == Spec => []MemoryAsGiven
  <1>1. Init => MemoryAsGiven
    <2>1. DOMAIN <<>> = {}
      BY EmptySeq, LenProperties
    <2>2. ASSUME Init PROVE given = <<>> /\ config.memory = Unlimited
      BY <2>2 DEF Init, Default
    <2> QED
      BY <2>1, <2>2 DEF MemoryAsGiven
  <1> QED
    BY <1>1, TypeCorrect, MemoryNext, PTL DEF Spec

----------------------------------------------------------------------------
(* The tables of ports and mounts *)

LEMMA IndexSets ==
  ASSUME NEW n \in Nat, NEW A \in SUBSET (1..n)
  PROVE  /\ IsFiniteSet(A) /\ Cardinality(A) \in Nat
         /\ \A i \in A : Place(i, A) \in 1..Cardinality(A)
  <1>1. IsFiniteSet(A)
    <2>1. IsFiniteSet(1..n)
      BY FS_Interval
    <2> QED
      BY <2>1, FS_Subset
  <1>2. Cardinality(A) \in Nat
    BY <1>1, FS_CardinalityType
  <1>3. ASSUME NEW i \in A PROVE Place(i, A) \in 1..Cardinality(A)
    <2> DEFINE B == {j \in A : j <= i}
    <2>1. B \in SUBSET A /\ i \in B
      BY <1>3
    <2>2. IsFiniteSet(B) /\ Cardinality(B) <= Cardinality(A) /\ Cardinality(B) \in Nat
      BY <1>1, <2>1, FS_Subset, FS_CardinalityType
    <2>3. Cardinality(B) # 0
      BY <2>1, <2>2, FS_EmptySet
    <2> QED
      BY <1>2, <2>2, <2>3 DEF Place
  <1> QED
    BY <1>1, <1>2, <1>3

\* An index beyond all others comes last and moves none.
LEMMA NextPlace ==
  ASSUME NEW n \in Nat, NEW A \in SUBSET (1..n)
  PROVE  /\ Cardinality(A \cup {n + 1}) = Cardinality(A) + 1
         /\ Place(n + 1, A \cup {n + 1}) = Cardinality(A) + 1
         /\ \A i \in A : Place(i, A \cup {n + 1}) = Place(i, A)
  <1>1. n + 1 \notin A /\ \A i \in A : i \in Nat /\ i < n + 1
    OBVIOUS
  <1>2. Cardinality(A \cup {n + 1}) = Cardinality(A) + 1
    BY <1>1, IndexSets, FS_AddElement
  <1>3. {j \in A \cup {n + 1} : j <= n + 1} = A \cup {n + 1}
    <2>1. \A j \in A \cup {n + 1} : j <= n + 1
      BY <1>1
    <2> QED
      BY <2>1
  <1>4. \A i \in A : {j \in A \cup {n + 1} : j <= i} = {j \in A : j <= i}
    BY <1>1
  <1> QED
    BY <1>2, <1>3, <1>4 DEF Place

\* A table with entry x added if there is room.
Grown(t, x, max) == IF Len(t) < max THEN Append(t, x) ELSE t

\* The entries of table u, for the options of B, are those of t and entry x for
\* option m.
Follows(u, B, t, A, x, m, max) ==
    \A i \in B : Place(i, B) <= max =>
        \/ i \in A /\ Place(i, A) <= max /\ u[Place(i, B)] = t[Place(i, A)]
        \/ i = m /\ u[Place(i, B)] = x

\* It holds the entries of all the options up to its size.
LEMMA TableGrows ==
  ASSUME NEW n \in Nat, NEW A \in SUBSET (1..n), NEW max \in Nat,
         NEW S, NEW t \in Seq(S), NEW x \in S, Filled(t, A, max)
  PROVE  /\ Filled(Grown(t, x, max), A \cup {n + 1}, max)
         /\ Follows(Grown(t, x, max), A \cup {n + 1}, t, A, x, n + 1, max)
  <1> DEFINE B == A \cup {n + 1}
             u == Grown(t, x, max)
  <1>1. Cardinality(A) \in Nat /\ \A i \in A : Place(i, A) \in 1..Cardinality(A)
    BY IndexSets
  <1>2. /\ Cardinality(B) = Cardinality(A) + 1 /\ Place(n + 1, B) = Cardinality(A) + 1
        /\ \A i \in A : Place(i, B) = Place(i, A)
    BY NextPlace
  <1>3. Len(t) \in Nat /\ Len(t) = IF Cardinality(A) < max THEN Cardinality(A) ELSE max
    BY LenProperties DEF Filled
  <1>4. \A i \in B : i \in A \/ i = n + 1
    OBVIOUS
  <1>5. CASE Len(t) < max
    <2>1. /\ Len(u) = Len(t) + 1 /\ u[Len(t) + 1] = x
          /\ \A k \in 1..Len(t) : u[k] = t[k]
      BY <1>5, AppendProperties DEF Grown
    <2> HIDE DEF B, u
    <2>2. Len(t) = Cardinality(A)
      BY <1>1, <1>3, <1>5
    <2>3. Filled(u, B, max)
      BY <1>1, <1>2, <1>5, <2>1, <2>2 DEF Filled
    <2>4. ASSUME NEW i \in A PROVE Place(i, A) <= max /\ u[Place(i, B)] = t[Place(i, A)]
      <3>1. Place(i, A) \in 1..Len(t) /\ Place(i, B) = Place(i, A)
        BY <1>1, <1>2, <2>2
      <3>2. Place(i, A) <= max
        BY <1>1, <1>3, <1>5, <3>1
      <3> QED
        BY <2>1, <3>1, <3>2
    <2>5. u[Place(n + 1, B)] = x
      BY <1>2, <2>1, <2>2
    <2>6. \A i \in B : Place(i, B) <= max =>
              \/ i \in A /\ Place(i, A) <= max /\ u[Place(i, B)] = t[Place(i, A)]
              \/ i = n + 1 /\ u[Place(i, B)] = x
      BY <1>4, <2>4, <2>5
    <2> QED
      BY <2>3, <2>6 DEF B, u, Follows
  <1>6. CASE ~(Len(t) < max)
    <2>1. u = t
      BY <1>6 DEF Grown
    <2> HIDE DEF B, u
    <2>2. Len(t) = max /\ Cardinality(A) >= max
      BY <1>1, <1>3, <1>6
    <2>3. Filled(u, B, max)
      BY <1>1, <1>2, <2>1, <2>2 DEF Filled
    <2>4. ~(Place(n + 1, B) <= max)
      BY <1>1, <1>2, <2>2
    <2>5. \A i \in B : Place(i, B) <= max =>
              \/ i \in A /\ Place(i, A) <= max /\ u[Place(i, B)] = t[Place(i, A)]
              \/ i = n + 1 /\ u[Place(i, B)] = x
      BY <1>2, <1>4, <2>1, <2>4
    <2> QED
      BY <2>3, <2>5 DEF B, u, Follows
  <1> QED
    BY <1>5, <1>6

\* One more option either belongs to a table and comes last, or leaves it as it is.
LEMMA AskedNext ==
  ASSUME TypeOK, NEW o \in Options, Option(o), NEW name
  PROVE  /\ Asked(name) \in SUBSET (1..Len(given)) /\ Len(given) \in Nat
         /\ \A i \in Asked(name) : given'[i] = given[i]
         /\ given'[Len(given) + 1] = o
         /\ Asked(name)' = IF o.opt = name /\ o.colon
                           THEN Asked(name) \cup {Len(given) + 1} ELSE Asked(name)
  <1> DEFINE n == Len(given) + 1
  <1>1. given \in Seq(Options) /\ given' = Append(given, o)
    BY DEF Option, TypeOK
  <1>2. /\ Len(given) \in Nat /\ DOMAIN given = 1..Len(given) /\ DOMAIN given' = 1..n
        /\ given'[n] = o /\ \A i \in 1..Len(given) : given'[i] = given[i]
    BY <1>1, AppendProperties, LenProperties
  <1> QED
    BY <1>2 DEF Asked

\* The options of a table and its entries.
Mounts ==
    /\ Filled(config.mounts, Asked("volume"), MAX_MOUNTS)
    /\ \A i \in Asked("volume") :
        Place(i, Asked("volume")) <= MAX_MOUNTS
            => config.mounts[Place(i, Asked("volume"))] = given[i].target

PortFor(p, o) ==
    /\ Reduced(p.host, o.host) /\ Reduced(p.container, o.container)
    /\ p.protocol = IF o.protocol = "" THEN "tcp" ELSE o.protocol
PortTable ==
    /\ Filled(config.ports, Asked("publish"), MAX_PORTS)
    /\ \A i \in Asked("publish") :
        Place(i, Asked("publish")) <= MAX_PORTS
            => PortFor(config.ports[Place(i, Asked("publish"))], given[i])

LEMMA MountsNext ==
  ASSUME TypeOK, Mounts, NEW o \in Options, Option(o)
  PROVE  Mounts'
  <1> DEFINE A == Asked("volume")
             n == Len(given)
  <1>0. config' \in Configured(o) /\ config \in Configs /\ config.mounts \in Seq(Texts)
    BY DEF Option, TypeOK, Configs
  <1>1. /\ A \in SUBSET (1..n) /\ n \in Nat
        /\ \A i \in A : given'[i] = given[i]
        /\ given'[n + 1] = o
        /\ A' = IF o.opt = "volume" /\ o.colon THEN A \cup {n + 1} ELSE A
    BY AskedNext
  <1>2. CASE o.opt = "volume" /\ o.colon
    <2>1. config'.mounts = IF Len(config.mounts) < MAX_MOUNTS
                           THEN Append(config.mounts, o.target) ELSE config.mounts
      BY <1>0, <1>2 DEF Configured, AddVolume, Configs
    <2>2. o.target \in Texts
      BY <1>2, OptionTypes
    <2>3. A' = A \cup {n + 1} /\ Filled(config.mounts, A, MAX_MOUNTS)
      BY <1>1, <1>2 DEF Mounts
    <2> HIDE DEF A, n
    <2>4. /\ n \in Nat /\ A \in SUBSET (1..n) /\ MAX_MOUNTS \in Nat /\ o.target \in Texts
          /\ config'.mounts = Grown(config.mounts, o.target, MAX_MOUNTS)
      BY <1>1, <2>1, <2>2, LimitAssumption DEF Grown
    <2>5. /\ Filled(Grown(config.mounts, o.target, MAX_MOUNTS), A \cup {n + 1}, MAX_MOUNTS)
          /\ Follows(Grown(config.mounts, o.target, MAX_MOUNTS), A \cup {n + 1}, config.mounts, A, o.target, n + 1, MAX_MOUNTS)
      BY <1>0, <2>3, <2>4, TableGrows
    <2>6. /\ Filled(config'.mounts, A', MAX_MOUNTS)
          /\ Follows(config'.mounts, A', config.mounts, A, o.target, n + 1, MAX_MOUNTS)
      BY <2>3, <2>4, <2>5, Zenon
    <2> QED
      BY <1>1, <2>6 DEF Mounts, A, Follows
  <1>3. CASE ~(o.opt = "volume" /\ o.colon)
    <2>1. A' = A
      BY <1>1, <1>3
    <2>2. config'.mounts = config.mounts
      <3>1. CASE o.opt = "volume"
        BY <1>0, <1>3, <3>1 DEF Configured, AddVolume
      <3>2. CASE o.opt = "publish"
        BY <1>0, <3>2 DEF Configured, AddPort, Configs
      <3>3. CASE o.opt = "memory"
        <4>1. PICK m \in ParseSize(o) : config' = [config EXCEPT !.memory = m]
          BY <1>0, <3>3 DEF Configured
        <4> QED
          BY <1>0, <4>1, ConfigKeeps
      <3>4. CASE o.opt = "network"
        <4>1. config' = [config EXCEPT !.network = o.value]
          BY <1>0, <3>4 DEF Configured
        <4> QED
          BY <1>0, <4>1, ConfigKeeps
      <3>5. CASE o.opt = "ip"
        <4>1. config' = [config EXCEPT !.ip = o.value]
          BY <1>0, <3>5 DEF Configured
        <4> QED
          BY <1>0, <4>1, ConfigKeeps
      <3>6. CASE o.opt \notin {"volume", "publish", "memory", "network", "ip"}
        BY <1>0, <3>6 DEF Configured
      <3> QED
        BY <3>1, <3>2, <3>3, <3>4, <3>5, <3>6
    <2> QED
      BY <1>1, <2>1, <2>2 DEF Mounts
  <1> QED
    BY <1>2, <1>3

LEMMA PortTableNext ==
  ASSUME TypeOK, PortTable, NEW o \in Options, Option(o)
  PROVE  PortTable'
  <1> DEFINE A == Asked("publish")
             n == Len(given)
  <1>0. config' \in Configured(o) /\ config \in Configs /\ config.ports \in Seq(Ports)
    BY DEF Option, TypeOK, Configs
  <1>1. /\ A \in SUBSET (1..n) /\ n \in Nat
        /\ \A i \in A : given'[i] = given[i]
        /\ given'[n + 1] = o
        /\ A' = IF o.opt = "publish" /\ o.colon THEN A \cup {n + 1} ELSE A
    BY AskedNext
  <1>2. CASE o.opt = "publish" /\ o.colon
    <2>1. config'.ports = IF Len(config.ports) < MAX_PORTS
                          THEN Append(config.ports, PortOf(o)) ELSE config.ports
      BY <1>0, <1>2 DEF Configured, AddPort, Configs, PortOf
    <2>2. PortOf(o) \in Ports /\ PortFor(PortOf(o), o)
      BY <1>2, OptionTypes, Port16Reduced DEF Ports, PortOf, PortFor
    <2>3. A' = A \cup {n + 1} /\ Filled(config.ports, A, MAX_PORTS)
      BY <1>1, <1>2 DEF PortTable
    <2> HIDE DEF A, n
    <2>4. /\ n \in Nat /\ A \in SUBSET (1..n) /\ MAX_PORTS \in Nat /\ PortOf(o) \in Ports
          /\ config'.ports = Grown(config.ports, PortOf(o), MAX_PORTS)
      BY <1>1, <2>1, <2>2, LimitAssumption DEF Grown
    <2>5. /\ Filled(Grown(config.ports, PortOf(o), MAX_PORTS), A \cup {n + 1}, MAX_PORTS)
          /\ Follows(Grown(config.ports, PortOf(o), MAX_PORTS), A \cup {n + 1}, config.ports, A, PortOf(o), n + 1, MAX_PORTS)
      BY <1>0, <2>3, <2>4, TableGrows
    <2>6. /\ Filled(config'.ports, A', MAX_PORTS)
          /\ Follows(config'.ports, A', config.ports, A, PortOf(o), n + 1, MAX_PORTS)
      BY <2>3, <2>4, <2>5, Zenon
    <2> QED
      BY <1>1, <2>2, <2>6 DEF PortTable, A, Follows
  <1>3. CASE ~(o.opt = "publish" /\ o.colon)
    <2>1. A' = A
      BY <1>1, <1>3
    <2>2. config'.ports = config.ports
      <3>1. CASE o.opt = "publish"
        BY <1>0, <1>3, <3>1 DEF Configured, AddPort
      <3>2. CASE o.opt = "volume"
        BY <1>0, <3>2 DEF Configured, AddVolume, Configs
      <3>3. CASE o.opt = "memory"
        <4>1. PICK m \in ParseSize(o) : config' = [config EXCEPT !.memory = m]
          BY <1>0, <3>3 DEF Configured
        <4> QED
          BY <1>0, <4>1, ConfigKeeps
      <3>4. CASE o.opt = "network"
        <4>1. config' = [config EXCEPT !.network = o.value]
          BY <1>0, <3>4 DEF Configured
        <4> QED
          BY <1>0, <4>1, ConfigKeeps
      <3>5. CASE o.opt = "ip"
        <4>1. config' = [config EXCEPT !.ip = o.value]
          BY <1>0, <3>5 DEF Configured
        <4> QED
          BY <1>0, <4>1, ConfigKeeps
      <3>6. CASE o.opt \notin {"volume", "publish", "memory", "network", "ip"}
        BY <1>0, <3>6 DEF Configured
      <3> QED
        BY <3>1, <3>2, <3>3, <3>4, <3>5, <3>6
    <2> QED
      BY <1>1, <2>1, <2>2 DEF PortTable
  <1> QED
    BY <1>2, <1>3

LEMMA TablesNext ==
    TypeOK /\ Mounts /\ PortTable /\ [Next \/ Terminated]_vars => Mounts' /\ PortTable'
  <1>1. UNCHANGED <<given, config>> => (Mounts => Mounts') /\ (PortTable => PortTable')
    BY DEF Mounts, PortTable, Asked
  <1> QED
    BY <1>1, OnlyOptions, MountsNext, PortTableNext

\* For any options in any number, the tables are the options given, in their
\* order, up to the size of the table (the -p and -v cases of cmd_run).
THEOREM TablesAsGivenHolds == Spec => []TablesAsGiven
  <1>1. Init => Mounts /\ PortTable
    <2>1. ASSUME Init PROVE given = <<>> /\ config.mounts = <<>> /\ config.ports = <<>>
      BY <2>1 DEF Init, Default
    <2>2. DOMAIN <<>> = {} /\ Len(<<>>) = 0 /\ Cardinality({}) = 0
      BY EmptySeq, LenProperties, FS_EmptySet
    <2>3. \A name : given = <<>> => Asked(name) = {}
      BY <2>2 DEF Asked
    <2> QED
      BY <2>1, <2>2, <2>3, LimitAssumption DEF Mounts, PortTable, Filled
  <1>2. Mounts /\ PortTable => TablesAsGiven
    BY DEF Mounts, PortTable, PortFor, TablesAsGiven
  <1> QED
    BY <1>1, <1>2, TypeCorrect, TablesNext, PTL DEF Spec
=============================================================================
