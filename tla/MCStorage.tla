------------------------------ MODULE MCStorage ------------------------------
(***************************************************************************)
(* Instances of Storage for TLC.                                           *)
(***************************************************************************)
EXTENDS Storage

CONSTANTS u1, u2, c1, c2, c3, base, app, new, src, tar

\* A visible and a hidden name; the visible one is the same in base and app.
Tree(f, h) == [n \in Names |-> IF n = "f" THEN f ELSE h]
MCDelivered ==
    base :> Tree(1, 1) @@ app :> Tree(1, Absent) @@ new :> Tree(Absent, 2) @@ src :> Tree(2, 2)

\* The image of c3 does not fit into the options of a mount.
MCImageOf == c1 :> <<base, app>> @@ c2 :> <<base, new>> @@ c3 :> <<base, new, app>>

On(c, op) == [op |-> op, to |-> c]
Copy(op, from, to) == [op |-> op, from |-> from, to |-> to]
Diff == [op |-> "diff", from |-> app, lower |-> base, to |-> new]

\* u1 takes a container from its mount to its removal and commits it into a
\* layer that u2 makes, with files shared with the base, and writes again; a
\* layer with the whiteouts of that commit is then created once more.  The
\* calls of u2 may fail and leave their leftovers, a workspace of c2 among them,
\* which u1 mounts in turn.
MCScript ==
    u1 :> <<Copy("export", app, tar), On(c1, "mount"), Copy("commit", c1, new),
            Copy("create", src, new), On(c1, "remove"), On(c2, "mount"), On(c3, "mount")>>
    @@ u2 :> <<On(c2, "mount"), On(c2, "unmount"), On(c2, "remove"),
               Diff, Copy("import", tar, new)>>

NoFaults == [u \in Users |-> {}]
SecondFaulty == [u \in Users |-> IF u = u2 THEN {"mkdir", "mount", "umount", "copy"} ELSE {}]
CommitOnly == [u \in Users |-> <<On(c1, "mount"), Copy("commit", c1, new)>>]
=============================================================================
