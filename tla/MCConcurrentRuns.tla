--------------------------- MODULE MCConcurrentRuns ---------------------------
(* Small instances of ConcurrentRuns for TLC. *)
EXTENDS ConcurrentRuns, TLC

MCSeed(valid, rootfs, shares, memory, pids, mounts) ==
    [valid |-> valid, rootfs |-> rootfs, shares |-> shares, memory |-> memory,
     pids |-> pids, mounts |-> mounts]

MCMounts == <<[type |-> "proc", source |-> FALSE], [type |-> "bind", source |-> FALSE],
              [type |-> "bind", source |-> TRUE]>>

\* No limits; each limit at an ordinary value and where the clamp or the word
\* ends; a manifest that is refused; a root filesystem that is missing.
MCSeeds ==
    {MCSeed(TRUE, TRUE, None, None, None, MCMounts),
     MCSeed(TRUE, TRUE, 0, [n |-> 1, unit |-> "Mi"], 8, <<>>),
     MCSeed(TRUE, TRUE, 1600, [n |-> 16, unit |-> "K"], None, <<>>),
     MCSeed(TRUE, TRUE, 1700, [n |-> 5, unit |-> "bytes"], None, <<>>),
     MCSeed(TRUE, TRUE, None, [n |-> 1, unit |-> "Gi"], None, <<>>),
     MCSeed(TRUE, TRUE, None, [n |-> 1, unit |-> "bad"], None, <<>>),
     MCSeed(FALSE, TRUE, 2, None, None, <<>>),
     MCSeed(TRUE, FALSE, 2, None, None, <<>>)}

MCSymmetry == Permutations(Runs)
=============================================================================
