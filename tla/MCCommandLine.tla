---------------------------- MODULE MCCommandLine ----------------------------
(***************************************************************************)
(* Instances of CommandLine for TLC.                                       *)
(***************************************************************************)
EXTENDS CommandLine

Publish(host, target, protocol) ==
    [opt |-> "publish", colon |-> TRUE, host |-> host, container |-> target, protocol |-> protocol]
Memory(digits, number, unit) ==
    [opt |-> "memory", digits |-> digits, number |-> number, unit |-> unit]

SomeTexts == {"", "cr0", "br1", "data", "logs"}

\* Ports in and out of range and one that is not a pair; the sizes 2M, 1.5, 0.75 and
\* 8T (2^63 of the scaled integers, as 8388608T is of the real ones) and two that
\* parse_size does not understand; one of each of the others.
SomeOptions ==
    {Publish(80, 8080, ""), Publish(65616, 53, "udp"), [Publish(443, 443, "tcp") EXCEPT !.colon = FALSE],
     Memory(TRUE, 8, "M"), Memory(TRUE, 6, ""), Memory(TRUE, 3, ""), Memory(TRUE, 32, "T"),
     Memory(TRUE, 4, "other"), Memory(FALSE, 0, "G"),
     [opt |-> "volume", colon |-> TRUE, target |-> "data"],
     [opt |-> "volume", colon |-> TRUE, target |-> "logs"],
     [opt |-> "cpus"], [opt |-> "network", value |-> "br1"],
     [opt |-> "detach"], [opt |-> "rm"], [opt |-> "invalid"], [opt |-> "env"]}
=============================================================================
