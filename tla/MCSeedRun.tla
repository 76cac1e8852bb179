------------------------------ MODULE MCSeedRun ------------------------------
(* Small instances of SeedRun for TLC. *)
EXTENDS SeedRun

MCSeed(rootless, net, limits, caps, profile, faults) ==
    [map_rootless |-> rootless, net |-> net, limits |-> limits,
     hostname |-> rootless, drop_caps |-> caps, seccomp_profile |-> profile,
     faults |-> faults]

\* Every combination of the switches that change which steps a run takes, each
\* with every fault and without any.
MCSeeds == UNION {{MCSeed(r, n, l, c, p, f) :
    r \in BOOLEAN, n \in {TRUE}, l \in BOOLEAN, c \in BOOLEAN,
    p \in {"none", "strict", "minimal"}}
    \cup {MCSeed(FALSE, FALSE, FALSE, FALSE, "default", f)} : f \in {{}, FaultKinds}}

MCStrictSeeds == {s \in MCSeeds : s.seccomp_profile = "strict"}
=============================================================================
