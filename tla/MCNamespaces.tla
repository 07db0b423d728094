---------------------------- MODULE MCNamespaces ----------------------------
(***************************************************************************)
(* Instances of Namespaces for TLC.                                        *)
(***************************************************************************)
EXTENDS Namespaces, TLC

CONSTANTS r1, r2, r3, j1, p1, p2

\* Two runs compete for a path; the third shares all namespaces with the host, and
\* may change its hostname before or after the others are cloned.
MCPathOf == r1 :> p1 @@ r2 :> p1 @@ r3 :> p2
MCJoinAt == [j \in Joiners |-> p1]
MCTypes == r1 :> {"uts", "net", "user"} @@ r2 :> {"uts", "net"} @@ r3 :> {}
MCFaults == {"setgroups", "uid_map", "gid_map", "sethostname", "open", "mount", "unlink", "join", "setns"}
=============================================================================
