----------------------------- MODULE CommandLine -----------------------------
(***************************************************************************)
(* The program cruntime from its arguments to its exit status (src/main.c),*)
(* with the conversions of option values (parse_size of src/utils/utils.c, *)
(* atoi into 16 bits) and of what cgroup_apply_limits and                  *)
(* network_allocate_ip make of the resulting configuration.                *)
(*                                                                         *)
(* An option is a record; the text of its argument is taken apart into the *)
(* pieces that the code looks for.                                         *)
(***************************************************************************)
EXTENDS Integers, Sequences, FiniteSets

CONSTANTS
    Options,     \* the options that may be given
    Texts,       \* names, addresses and paths
    MaxOptions,  \* bound on their number, for model checking
    MAX_PORTS, MAX_MOUNTS,
    Kilo,        \* 1024
    INT64_MAX,   \* 2^63 - 1
    Fraction     \* a double is a number of Fraction'ths: 2^1074 makes all finite ones

\* -p [host]:[container][/protocol]; atoi makes 0 of what is not a number.
PortOptions ==
    [opt : {"publish"}, colon : BOOLEAN, host : Int, container : Int,
     protocol : {"", "tcp", "udp"}]
\* -m [number][unit]; `digits` says if strtod finds a number, which then returns
\* the double number / Fraction.  An infinity counts as one that is too large or too
\* small for an int64_t; NaN is left out.
SizeOptions ==
    [opt : {"memory"}, digits : BOOLEAN, number : Int, unit : {"", "K", "M", "G", "T", "other"}]
VolumeOptions == [opt : {"volume"}, colon : BOOLEAN, target : Texts]
TextOptions == [opt : {"network", "ip"}, value : Texts]
\* The others have no argument, or one that is only passed on; so is the cpu
\* quota here.
PlainOptions ==
    [opt : {"name", "hostname", "workdir", "cpus", "env", "detach", "rm", "invalid"}]

ASSUME OptionAssumption ==
    Options \subseteq PortOptions \cup SizeOptions \cup VolumeOptions \cup TextOptions
                      \cup PlainOptions
ASSUME TextAssumption == {"cr0", ""} \subseteq Texts
ASSUME LimitAssumption == MAX_PORTS \in Nat /\ MAX_MOUNTS \in Nat /\ MaxOptions \in Nat
ASSUME SizeAssumption == {Kilo, INT64_MAX, Fraction} \subseteq Nat \ {0}

VARIABLES
    pc,         \* where the program is
    given,      \* the options of `run` read so far
    config,     \* container_config_t, as far as options set it
    flags,      \* detach and auto_remove
    status,     \* the exit status
    runtime,    \* whether runtime_init and runtime_cleanup have been called
    container,  \* what has become of the container
    deletion    \* history: what container_delete has returned, if it was called

vars == <<pc, given, config, flags, status, runtime, container, deletion>>

Labels == {"main", "root", "init", "options", "create", "start", "delete_failed",
           "wait", "remove", "cleanup", "exit", "crashed"}

\* What -1 stands for in resource_limits_t.
Unlimited == -1
INT64_MIN == -INT64_MAX - 1

Multiplier(unit) ==
    CASE unit = "" -> 1 [] unit = "K" -> Kilo [] unit = "M" -> Kilo * Kilo
      [] unit = "G" -> Kilo * Kilo * Kilo [] unit = "T" -> Kilo * Kilo * Kilo * Kilo

\* The bytes asked for, times Fraction: the product of a double and a power of two
\* is exact.
Bytes(o) == o.number * Multiplier(o.unit)

\* A double as an int64_t, cut off towards zero.  One that is too large is undefined
\* in C: INT64_MIN on x86-64, the nearest on AArch64.
ToInt64(x) ==
    LET n == IF x >= 0 THEN x \div Fraction ELSE -((-x) \div Fraction) IN
    IF n > INT64_MAX THEN {INT64_MIN, INT64_MAX} ELSE {IF n < INT64_MIN THEN INT64_MIN ELSE n}

\* Wrong: takes an unknown unit for bytes.
ParseSizeAnyUnit(o) ==
    IF ~o.digits THEN {Unlimited}
    ELSE ToInt64(IF o.unit = "other" THEN o.number ELSE Bytes(o))

\* What parse_size may return; what it does not understand is no limit.
ParseSize(o) == IF ~o.digits \/ o.unit = "other" THEN {Unlimited} ELSE ToInt64(Bytes(o))

\* Wrong: keeps the int.
Port(x) == x

\* An int stored in a uint16_t.
Port16(x) == x % 65536

Ports == [host : Int, container : Int, protocol : {"", "tcp", "udp"}]
Configs == [ports : Seq(Ports), mounts : Seq(Texts), memory : Int, network : Texts, ip : Texts]

\* The defaults of cmd_run: no limits, the bridge cr0, an address by chance.
Default == [ports |-> <<>>, mounts |-> <<>>, memory |-> Unlimited,
            network |-> "cr0", ip |-> ""]

TypeOK ==
    /\ pc \in Labels
    /\ given \in Seq(Options)
    /\ config \in Configs
    /\ Len(config.ports) <= MAX_PORTS /\ Len(config.mounts) <= MAX_MOUNTS
    /\ INT64_MIN <= config.memory /\ config.memory <= INT64_MAX
    /\ flags \subseteq {"detach", "rm"}
    /\ status \in {0, 1}
    /\ runtime \in {"none", "up", "clean"}
    /\ container \in {"none", "created", "running", "exited", "deleted"}
    /\ deletion \in {"none", "done", "failed"}

Init ==
    /\ pc = "main"
    /\ given = <<>>
    /\ config = Default
    /\ flags = {}
    /\ status = 0
    /\ runtime = "none"
    /\ container = "none"
    /\ deletion = "none"

Goto(label) == pc' = label /\ UNCHANGED status
\* main returns before the runtime is up; cmd_run returns to main.
Leave(s) == pc' = "exit" /\ status' = s
ReturnFromRun(s) == pc' = "cleanup" /\ status' = s

----------------------------------------------------------------------------
(* main *)

\* The global options: --help and --version end the program, as do a wrong
\* option and the lack of a command.
MainOptions ==
    /\ pc = "main"
    /\ Goto("root") \/ Leave(0) \/ Leave(1)
    /\ UNCHANGED <<given, config, flags, runtime, container, deletion>>

CheckRoot ==
    /\ pc = "root"
    /\ Goto("init") \/ Leave(1)
    /\ UNCHANGED <<given, config, flags, runtime, container, deletion>>

\* runtime_init, and the choice of the command: run, ps or one that is unknown.
InitRuntime ==
    /\ pc = "init"
    /\ \/ /\ runtime' = "up"
          /\ Goto("options") \/ ReturnFromRun(0) \/ ReturnFromRun(1)
       \/ Leave(1) /\ UNCHANGED runtime
    /\ UNCHANGED <<given, config, flags, container, deletion>>

(* cmd_run: the options *)

\* Wrong: counts the entries from 0 to MAX_PORTS.
AddPortTooMany(o) ==
    IF o.colon /\ Len(config.ports) <= MAX_PORTS
    THEN [config EXCEPT !.ports = Append(@,
            [host |-> Port16(o.host), container |-> Port16(o.container),
             protocol |-> IF o.protocol = "" THEN "tcp" ELSE o.protocol])]
    ELSE config

\* One without a colon, or too many, is dropped.
AddPort(o) ==
    IF o.colon /\ Len(config.ports) < MAX_PORTS
    THEN [config EXCEPT !.ports = Append(@,
            [host |-> Port16(o.host), container |-> Port16(o.container),
             protocol |-> IF o.protocol = "" THEN "tcp" ELSE o.protocol])]
    ELSE config

AddVolume(o) ==
    IF o.colon /\ Len(config.mounts) < MAX_MOUNTS
    THEN [config EXCEPT !.mounts = Append(@, o.target)]
    ELSE config

Configured(o) ==
    CASE o.opt = "publish" -> {AddPort(o)}
      [] o.opt = "volume" -> {AddVolume(o)}
      [] o.opt = "memory" -> {[config EXCEPT !.memory = size] : size \in ParseSize(o)}
      [] o.opt = "network" -> {[config EXCEPT !.network = o.value]}
      [] o.opt = "ip" -> {[config EXCEPT !.ip = o.value]}
      [] OTHER -> {config}

\* One turn of the getopt_long loop.  -e stores through config.env, which is
\* NULL after the memset.
Option(o) ==
    /\ pc = "options" /\ Len(given) < MaxOptions
    /\ given' = Append(given, o)
    /\ CASE o.opt = "invalid" -> ReturnFromRun(1)
         [] o.opt = "env" -> Goto("crashed")
         [] OTHER -> Goto("options")
    /\ config' \in Configured(o)
    /\ flags' = flags \cup ({o.opt} \cap {"detach", "rm"})
    /\ UNCHANGED <<runtime, container, deletion>>

\* The first argument that is no option: the image.
Image ==
    /\ pc = "options"
    /\ Goto("create") \/ ReturnFromRun(1)
    /\ UNCHANGED <<given, config, flags, runtime, container, deletion>>

(* cmd_run: the container *)

Create ==
    /\ pc = "create"
    /\ \/ container' = "created" /\ Goto("start")
       \/ ReturnFromRun(1) /\ UNCHANGED container
    /\ UNCHANGED <<given, config, flags, runtime, deletion>>

Start ==
    /\ pc = "start"
    /\ \/ container' = "running" /\ IF "detach" \in flags THEN ReturnFromRun(0) ELSE Goto("wait")
       \/ Goto("delete_failed") /\ UNCHANGED container
    /\ UNCHANGED <<given, config, flags, runtime, deletion>>

\* Wrong: returns at once.
DeleteFailedNot ==
    /\ pc = "delete_failed"
    /\ ReturnFromRun(1)
    /\ UNCHANGED <<given, config, flags, runtime, container, deletion>>

\* container_delete, whose result cmd_run ignores: it fails when the cgroup cannot
\* be removed, say, and the container stays.
Delete(s) ==
    /\ \/ container' = "deleted" /\ deletion' = "done"
       \/ deletion' = "failed" /\ UNCHANGED container
    /\ ReturnFromRun(s)
    /\ UNCHANGED <<given, config, flags, runtime>>

DeleteFailed == pc = "delete_failed" /\ Delete(1)

\* waitpid of the init process.  It returns when that has ended, or with an error
\* that is ignored.
Wait ==
    /\ pc = "wait"
    /\ IF "rm" \in flags THEN Goto("remove") ELSE ReturnFromRun(0)
    /\ UNCHANGED <<given, config, flags, runtime, container, deletion>>

AutoRemove == pc = "remove" /\ Delete(0)

Cleanup ==
    /\ pc = "cleanup"
    /\ runtime' = "clean"
    /\ pc' = "exit"
    /\ UNCHANGED <<given, config, flags, status, container, deletion>>

ContainerExits ==
    /\ container = "running"
    /\ container' = "exited"
    /\ UNCHANGED <<pc, given, config, flags, status, runtime, deletion>>

Terminated == pc \in {"exit", "crashed"} /\ UNCHANGED vars

Program ==
    \/ MainOptions \/ CheckRoot \/ InitRuntime \/ Image \/ (\E o \in Options : Option(o))
    \/ Create \/ Start \/ DeleteFailed \/ Wait \/ AutoRemove \/ Cleanup

Next == Program \/ ContainerExits

Spec == Init /\ [][Next \/ Terminated]_vars

----------------------------------------------------------------------------
(* What becomes of the configuration. *)

\* cgroup_apply_limits: cpu shares (2 to 262144) as a cgroup v2 weight.
Weight(shares) ==
    LET w == (shares * 10000) \div 262144 IN
    IF w < 1 THEN 1 ELSE IF w > 10000 THEN 10000 ELSE w

\* network_allocate_ip, for what rand() returns; network_setup_container.
Address(base, random) == base + (random % 253) + 2
Gateway(base) == base + 1

----------------------------------------------------------------------------
(* What the program promises.                                              *)

\* The options of a table that count: those with a colon.  Where option i of
\* them belongs.
Asked(name) == {i \in DOMAIN given : given[i].opt = name /\ given[i].colon}
Place(i, asked) == Cardinality({j \in asked : j <= i})
Filled(table, asked, max) ==
    Len(table) = IF Cardinality(asked) < max THEN Cardinality(asked) ELSE max

\* Equal as 16 bits.
Reduced(port, x) == 0 <= port /\ port < 65536 /\ (port - x) % 65536 = 0

\* The tables of ports and mounts are the -p and -v options with a colon, in
\* their order, as far as there is room: none is lost before its table is full,
\* none is repeated or changed by a later option, and a port is at most reduced
\* modulo 2^16.
TablesAsGiven ==
    /\ Filled(config.ports, Asked("publish"), MAX_PORTS)
    /\ Filled(config.mounts, Asked("volume"), MAX_MOUNTS)
    /\ \A i \in Asked("volume") :
        LET k == Place(i, Asked("volume")) IN
        k <= MAX_MOUNTS => config.mounts[k] = given[i].target
    /\ \A i \in Asked("publish") :
        LET k == Place(i, Asked("publish")) IN
        k <= MAX_PORTS =>
            /\ Reduced(config.ports[k].host, given[i].host)
            /\ Reduced(config.ports[k].container, given[i].container)
            /\ config.ports[k].protocol =
                  IF given[i].protocol = "" THEN "tcp" ELSE given[i].protocol

\* The last -m decides, whatever was given before.  A limit that reaches memory.max
\* (cgroup_apply_limits writes positive ones only) is what it asks for, less a
\* fraction of a byte; there is none, or none that memory could reach, exactly when
\* it is not a number with a known unit, less than one byte or too large.
MemoryAsGiven ==
    LET memory == {i \in DOMAIN given : given[i].opt = "memory"}
        limit == config.memory
    IN
    /\ memory = {} => limit = Unlimited
    /\ \A i \in memory : (\A j \in memory : j <= i) =>
        IF 0 < limit /\ limit < INT64_MAX
        THEN /\ given[i].digits /\ given[i].unit # "other"
             /\ limit * Fraction <= Bytes(given[i])
             /\ Bytes(given[i]) < (limit + 1) * Fraction
        ELSE \/ ~given[i].digits
             \/ given[i].unit = "other"
             \/ Bytes(given[i]) < Fraction
             \/ INT64_MAX * Fraction <= Bytes(given[i])

\* When the program has ended, the runtime is not left initialised, and every
\* container it has created is accounted for: it could be started, or the program
\* has tried to delete it.  A failure leaves none behind, and a run with --rm that
\* waited neither, unless container_delete itself has failed; and no container is
\* deleted that could be started and is to stay.
Accounted ==
    pc = "exit" =>
        /\ runtime # "up"
        /\ status = 1 => container \in {"none", "deleted"} \/ deletion = "failed"
        /\ container = "created" => deletion = "failed"
        /\ container \in {"running", "exited"} => status = 0
        /\ container # "none" /\ "rm" \in flags /\ "detach" \notin flags =>
              container = "deleted" \/ deletion = "failed"
        /\ container = "deleted" /\ status = 0 => "rm" \in flags /\ "detach" \notin flags

\* The options of `run` do not crash the program ("Set environment variables",
\* README.md:214, with `-e`).
NeverCrashes == pc # "crashed"
=============================================================================
