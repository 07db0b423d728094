--------------------------- MODULE MCMountNamespace ---------------------------
(***************************************************************************)
(* Instances of MountNamespace for TLC.                                    *)
(***************************************************************************)
EXTENDS MountNamespace, TLC

CONSTANTS c1, c2, c3, c4, m1, m2

MCParent ==
    [p \in ToSet(Standard) \cup {OldRoot, "data", "tmp/work",
                                 "proc/app", "sys/app", "sys/fs"} |->
        CASE p = "dev/pts" -> "dev"
          [] p = "tmp/work" -> "tmp"
          [] p = "proc/app" -> "proc"
          [] p \in {"sys/app", "sys/fs"} -> "sys"
          [] OTHER -> Root]

\* The root filesystem setup.sh unpacks has the usual directories; this one has
\* a directory below sys as well, which is out of reach once sysfs is mounted.
Usual == [m \in Images |-> {"proc", "sys", "dev", "tmp", "run", "sys/app"}]
InSysfs == {"sys/fs"}

SameImage == [c \in Containers |-> m1]
\* The fourth run has an image of its own.
FourthAlone == [c \in Containers |-> IF c = c4 THEN m2 ELSE m1]

NoVolumes == [c \in Containers |-> <<>>]
\* The third run has a target on the tmpfs of /tmp and one in the image below
\* sys: it only gets through where the mount of sysfs fails.  The targets of the
\* fourth lie on its image, on a volume over proc, and in sysfs.
SomeVolumes == [c \in Containers |->
    CASE c = c3 -> <<"tmp/work", "sys/app">>
      [] c = c4 -> <<"data", "proc", "proc/app", "sys/fs">>
      [] OTHER -> <<>>]

\* The first two runs are alike.
Alike == Permutations({c1, c2})

NoFaults == [c \in Containers |-> {}]
ThirdFaulty == [c \in Containers |-> IF c = c3 THEN Labels ELSE {}]
=============================================================================
