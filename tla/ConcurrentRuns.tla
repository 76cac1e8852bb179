---------------------------- MODULE ConcurrentRuns ----------------------------
(***************************************************************************)
(* Several `gl run`s of one Seed on one host.  Two things are named after   *)
(* the Seed and not after the run: the cgroup directory                     *)
(* /sys/fs/cgroup/gl/<seed id> (src/src/isolate/cgroups.rs) and the host    *)
(* directory of the root filesystem, in which pivot_root_to                 *)
(* (src/src/isolate/mount.rs) makes and removes .old_root.                  *)
(*                                                                         *)
(* A run is one thread of steps here: SeedRun shows that its supervisor and *)
(* its task alternate (prepare, release, isolate, exec, reap, clean up).    *)
(***************************************************************************)
EXTENDS Integers, Sequences

CONSTANTS
    Runs,      \* the runs an operator starts
    Seeds,     \* the manifests to consider
    Builds,    \* subset of {"debug", "release"}: overflow panics or wraps
    Word,      \* size of the unsigned word (2^64 in the code)
    MaxFaults, \* bound: failures of system calls and kills of gl
    None       \* an absent option, and an unlimited cgroup file

\* The suffixes of a memory limit: "bytes" is none, "bad" one that does not parse.
Units == {"bytes", "K", "M", "G", "Ki", "Mi", "Gi", "bad"}

\* The fields of a manifest that matter here.  valid: version, kind and
\* entrypoint pass; rootfs: its directory exists.
IsSeed(s) ==
    /\ s.valid \in BOOLEAN /\ s.rootfs \in BOOLEAN
    /\ s.shares = None \/ s.shares \in 0..(Word - 1)
    /\ s.memory = None \/ s.memory \in [n : 0..(Word - 1), unit : Units]
    /\ s.pids = None \/ s.pids \in 0..(Word - 1)
    /\ s.mounts \in Seq([type : {"proc", "tmpfs", "bind", "other"}, source : BOOLEAN])

ASSUME ConcurrentRunsAssumption ==
    /\ Builds \subseteq {"debug", "release"}
    /\ Word \in Nat \ {0}
    /\ MaxFaults \in Nat
    /\ None \notin Int
    /\ \A s \in Seeds : IsSeed(s)

VARIABLES
    seed, build,  \* what is run, and how gl was compiled
    pc,           \* where each run stands
    cloned,       \* the runs that got as far as their clone
    result,       \* "none" while it goes on, then "ok" or "err"
    cg,           \* the Seed's cgroup directory: exists, and its three files
    procs,        \* the runs whose workload is a member of it
    putOld,       \* .old_root exists in the root filesystem's host directory
    private,      \* the mount namespace of a run no longer propagates
    root,         \* what "/" is for its task: "host", "bound" or "pivoted"
    oldRoot,      \* the host's root is mounted on .old_root in its namespace
    mounted,      \* how many entries of the manifest's mounts are done
    hostMounts,   \* mounts that have propagated to the host
    (* history *)
    orphan,       \* gl was killed: nobody cleans up after the run
    overlap,      \* another run was going on at the same time
    faulted,      \* a system call of the run was made to fail
    faults        \* how many of MaxFaults have happened

inputVars == <<seed, build>>
mntVars   == <<putOld, private, root, oldRoot, mounted, hostMounts>>
histVars  == <<orphan, overlap, faulted, faults>>
vars == <<inputVars, pc, cloned, result, cg, procs, mntVars, histVars>>

-----------------------------------------------------------------------------
(* Numbers of the manifest, in words *)

Panic == -1

\* a * b on words: out of range, a debug build panics and a release build wraps.
Times(a, b) ==
    IF a = Panic THEN Panic
    ELSE IF a * b < Word \/ build = "release" THEN (a * b) % Word ELSE Panic

Suffixes == Units \ {"bytes", "bad"}
Factor == [u \in Suffixes |-> IF u \in {"K", "M", "G"} THEN 1000 ELSE 1024]
Power  == [u \in Suffixes |-> IF u \in {"K", "Ki"} THEN 1 ELSE IF u \in {"M", "Mi"} THEN 2 ELSE 3]

\* Bytes, multiplied factor by factor as the code does.
parse_memory_string(m) ==
    IF m.unit = "bytes" THEN m.n
    ELSE LET f == Factor[m.unit]
             one == Times(m.n, f)
             two == Times(one, f)
         IN CASE Power[m.unit] = 1 -> one
              [] Power[m.unit] = 2 -> two
              [] OTHER -> Times(two, f)

Clamp(x, lo, hi) == IF x < lo THEN lo ELSE IF x > hi THEN hi ELSE x

\* Mutant: the weight is not kept in the kernel's range.
cpu_weight_Unclamped(shares) ==
    LET p == Times(shares, 10000) IN IF p = Panic THEN Panic ELSE p \div 1024

cpu_weight(shares) ==
    LET p == Times(shares, 10000)
    IN IF p = Panic THEN Panic ELSE Clamp(p \div 1024, 1, 10000)

cgroups_requested == seed.shares # None \/ seed.memory # None \/ seed.pids # None

-----------------------------------------------------------------------------
(* Init *)

\* The files of a cgroup that has just been made.
Fresh == [exists |-> TRUE, cpu |-> 100, memory |-> None, pids |-> None]
Absent == [Fresh EXCEPT !.exists = FALSE]

Init ==
    /\ seed \in Seeds /\ build \in Builds
    /\ pc = [r \in Runs |-> "idle"]
    /\ cloned = {}
    /\ result = [r \in Runs |-> "none"]
    /\ cg = Absent /\ procs = {}
    /\ putOld = FALSE
    /\ private = [r \in Runs |-> FALSE]
    /\ root = [r \in Runs |-> "host"]
    /\ oldRoot = [r \in Runs |-> FALSE]
    /\ mounted = [r \in Runs |-> 0]
    /\ hostMounts = {}
    /\ orphan = [r \in Runs |-> FALSE]
    /\ overlap = [r \in Runs |-> FALSE]
    /\ faulted = [r \in Runs |-> FALSE]
    /\ faults = 0

-----------------------------------------------------------------------------
(* Steps of one run *)

Active(r) == pc[r] \notin {"idle", "done"}

\* Where a run stands before its task exists, and inside the task.
Preparing  == {"validate", "check", "mkdir", "cpu", "memory", "pids", "clone"}
InChild    == {"private", "bind", "put_old", "pivot", "umount", "rm_old", "mounts"}

Goto(r, p) == pc' = [pc EXCEPT ![r] = p]
Ends(r, how) == Goto(r, "done") /\ result' = [result EXCEPT ![r] = how]

\* A step returns Err.  Before the clone nobody cleans up; a failed clone does,
\* and after it the task leaves (it stops being a member of the cgroup) and the
\* clone guard cleans up.
Err(r) ==
    /\ result' = [result EXCEPT ![r] = "err"]
    /\ Goto(r, IF pc[r] \in Preparing \ {"clone"} \/ orphan[r]
               THEN "done" ELSE "cleanup")
    /\ procs' = procs \ {r}
    /\ cloned' = IF pc[r] = "clone" THEN cloned \cup {r} ELSE cloned

\* A step at point p goes on to next when the kernel lets it (can), and returns
\* Err when it does not.
Step(r, p, can, next) ==
    /\ pc[r] = p
    /\ IF can THEN /\ Goto(r, next)
                   /\ cloned' = IF p = "clone" THEN cloned \cup {r} ELSE cloned
                   /\ UNCHANGED <<result, procs>>
              ELSE Err(r)
    /\ UNCHANGED <<inputVars, histVars>>

\* The operator starts a run.
Begin(r) ==
    /\ pc[r] = "idle"
    /\ Goto(r, "validate")
    /\ LET others == {o \in Runs \ {r} : Active(o)}
       IN overlap' = [o \in Runs |->
            overlap[o] \/ o \in others \/ (o = r /\ others # {})]
    /\ UNCHANGED <<inputVars, cloned, result, cg, procs, mntVars, orphan, faulted, faults>>

\* Seed::validate parses the memory limit too, so a limit that does not parse or
\* overflows in a debug build stops the run here.
ValidMemory ==
    seed.memory # None =>
        seed.memory.unit # "bad" /\ parse_memory_string(seed.memory) # Panic

Validate(r) ==
    /\ Step(r, "validate", seed.valid /\ ValidMemory,
            IF cgroups_requested THEN "check" ELSE "clone")
    /\ UNCHANGED <<cg, mntVars>>

\* create_cgroup asks first ...
CheckCgroup(r) ==
    /\ Step(r, "check", TRUE, IF cg.exists THEN "cpu" ELSE "mkdir")
    /\ UNCHANGED <<cg, mntVars>>

\* ... and then makes it: EEXIST if another run was faster.
CreateCgroup(r) ==
    /\ Step(r, "mkdir", ~cg.exists, "cpu")
    /\ cg' = IF cg.exists THEN cg ELSE Fresh
    /\ UNCHANGED mntVars

\* fs::write of one file of the cgroup, which makes it `written`; nothing is
\* written for an absent limit.
Write(r, file, value, written, next) ==
    /\ Step(r, file, value = None \/ (cg.exists /\ value # Panic), next)
    /\ cg' = IF cg.exists /\ value \notin {None, Panic} THEN written ELSE cg
    /\ UNCHANGED mntVars

Weight == IF seed.shares = None THEN None ELSE cpu_weight(seed.shares)
Memory == IF seed.memory = None THEN None ELSE parse_memory_string(seed.memory)

SetCpuWeight(r) == Write(r, "cpu", Weight, [cg EXCEPT !.cpu = Weight], "memory")
SetMemoryMax(r) == Write(r, "memory", Memory, [cg EXCEPT !.memory = Memory], "pids")
SetPidsMax(r) == Write(r, "pids", seed.pids, [cg EXCEPT !.pids = seed.pids], "clone")

\* clone: the task gets a copy of the host's mounts, which still propagate.
Clone(r) ==
    /\ Step(r, "clone", TRUE, IF cgroups_requested THEN "move" ELSE "private")
    /\ UNCHANGED <<cg, mntVars>>

\* move_pid_to_path: ENOENT once the directory is gone.  The task is released
\* right after it.
MovePidToPath(r) ==
    /\ pc[r] = "move"
    /\ IF cg.exists
       THEN Goto(r, "private") /\ procs' = procs \cup {r} /\ UNCHANGED <<cloned, result>>
       ELSE Err(r)
    /\ UNCHANGED <<inputVars, cg, mntVars, histVars>>

\* A mount made in the namespace of r, seen by the host while it propagates.
Mounting(r, what) ==
    hostMounts' = IF private[r] THEN hostMounts ELSE hostMounts \cup {what}

MakePrivateMounts(r) ==
    /\ Step(r, "private", TRUE, "bind")
    /\ private' = [private EXCEPT ![r] = TRUE]
    /\ UNCHANGED <<cg, putOld, root, oldRoot, mounted, hostMounts>>

\* pivot_root_to, step 1: the path must exist, then new_root becomes a mount.
BindRootfs(r) ==
    /\ Step(r, "bind", seed.rootfs, "put_old")
    /\ IF seed.rootfs
       THEN root' = [root EXCEPT ![r] = "bound"] /\ Mounting(r, "rootfs")
       ELSE UNCHANGED <<root, hostMounts>>
    /\ UNCHANGED <<cg, putOld, private, oldRoot, mounted>>

\* Mutant: a directory left by an earlier run is an error.
CreatePutOld_Exclusive(r) ==
    /\ Step(r, "put_old", ~putOld, "pivot")
    /\ putOld' = TRUE
    /\ UNCHANGED <<cg, private, root, oldRoot, mounted, hostMounts>>

\* Step 2: create_dir_all accepts a directory that is already there.
CreatePutOld(r) ==
    /\ Step(r, "put_old", TRUE, "pivot")
    /\ putOld' = TRUE
    /\ UNCHANGED <<cg, private, root, oldRoot, mounted, hostMounts>>

\* Steps 3 and 4: pivot_root needs put_old and a private mount; then chdir.
PivotRoot(r) ==
    LET can == putOld /\ private[r]
    IN /\ Step(r, "pivot", can, "umount")
       /\ IF can THEN /\ root' = [root EXCEPT ![r] = "pivoted"]
                      /\ oldRoot' = [oldRoot EXCEPT ![r] = TRUE]
                 ELSE UNCHANGED <<root, oldRoot>>
       /\ UNCHANGED <<cg, putOld, private, mounted, hostMounts>>

\* Mutant: a failing unmount is ignored and .old_root is left alone.
UmountOldRoot_Ignored(r) ==
    /\ Step(r, "umount", TRUE, "mounts")
    /\ UNCHANGED <<cg, mntVars>>

\* Step 5: fails when .old_root is no longer a mount of this namespace.
UmountOldRoot(r) ==
    /\ Step(r, "umount", oldRoot[r], "rm_old")
    /\ oldRoot' = [oldRoot EXCEPT ![r] = FALSE]
    /\ UNCHANGED <<cg, putOld, private, root, mounted, hostMounts>>

\* Step 6: removing a directory detaches what other namespaces have mounted on
\* it; it fails when another run has removed it first.
RemovePutOld(r) ==
    /\ Step(r, "rm_old", putOld, "mounts")
    /\ putOld' = FALSE
    /\ oldRoot' = IF putOld THEN [o \in Runs |-> FALSE] ELSE oldRoot
    /\ UNCHANGED <<cg, private, root, mounted, hostMounts>>

\* setup_mounts: one entry of the manifest.  A bind without a source is passed
\* over and an unknown type is only logged.
IsMount(m) == m.type \in {"proc", "tmpfs"} \/ (m.type = "bind" /\ m.source)

MountEntry(r) ==
    /\ pc[r] = "mounts" /\ mounted[r] < Len(seed.mounts)
    /\ mounted' = [mounted EXCEPT ![r] = @ + 1]
    /\ IF IsMount(seed.mounts[mounted[r] + 1]) THEN Mounting(r, mounted[r] + 1)
                                               ELSE UNCHANGED hostMounts
    /\ UNCHANGED <<inputVars, pc, cloned, result, cg, procs, putOld, private, root,
                   oldRoot, histVars>>

\* The rest of apply_child touches nothing that is shared; then execv.
Exec(r) ==
    /\ mounted[r] = Len(seed.mounts)
    /\ Step(r, "mounts", TRUE, "workload")
    /\ UNCHANGED <<cg, mntVars>>

\* The workload ends and its supervisor reaps it.
WorkloadExits(r) ==
    /\ pc[r] = "workload"
    /\ procs' = procs \ {r}
    /\ IF orphan[r] THEN Ends(r, "ok") ELSE Goto(r, "cleanup") /\ UNCHANGED result
    /\ UNCHANGED <<inputVars, cloned, cg, mntVars, histVars>>

\* Mutant: no cleanup after a run that failed.
CleanupCgroup_OnlyOk(r) ==
    /\ pc[r] = "cleanup"
    /\ Ends(r, IF result[r] = "err" THEN "err" ELSE "ok")
    /\ cg' = IF cg.exists /\ procs = {} /\ result[r] # "err" THEN Absent ELSE cg
    /\ UNCHANGED <<inputVars, cloned, procs, mntVars, histVars>>

\* cleanup_cgroup: a cgroup with members cannot be removed, which is only
\* logged.
CleanupCgroup(r) ==
    /\ pc[r] = "cleanup"
    /\ Ends(r, IF result[r] = "err" THEN "err" ELSE "ok")
    /\ cg' = IF cgroups_requested /\ cg.exists /\ procs = {} THEN Absent ELSE cg
    /\ UNCHANGED <<inputVars, cloned, procs, mntVars, histVars>>

\* A system call of r fails.
SystemCallFails(r) ==
    /\ faults < MaxFaults
    /\ pc[r] \in (Preparing \cup {"move"} \cup InChild) \ {"validate"}
    /\ Err(r)
    /\ faulted' = [faulted EXCEPT ![r] = TRUE] /\ faults' = faults + 1
    /\ UNCHANGED <<inputVars, cg, mntVars, orphan, overlap>>

\* gl is killed.  A task that was not released leaves by itself; one that was
\* goes on, and nobody cleans up.
Killed(r) ==
    /\ faults < MaxFaults /\ Active(r) /\ ~orphan[r]
    /\ orphan' = [orphan EXCEPT ![r] = TRUE] /\ faults' = faults + 1
    /\ IF pc[r] \in InChild \cup {"workload"} THEN UNCHANGED <<pc, result, procs>>
       ELSE Ends(r, "err") /\ procs' = procs \ {r}
    /\ UNCHANGED <<inputVars, cloned, cg, mntVars, overlap, faulted>>

-----------------------------------------------------------------------------
Prepare(r) ==
    \/ Begin(r) \/ Validate(r) \/ CheckCgroup(r) \/ CreateCgroup(r)
    \/ SetCpuWeight(r) \/ SetMemoryMax(r) \/ SetPidsMax(r)
    \/ Clone(r) \/ MovePidToPath(r)

SetupMounts(r) ==
    \/ MakePrivateMounts(r) \/ BindRootfs(r) \/ CreatePutOld(r) \/ PivotRoot(r)
    \/ UmountOldRoot(r) \/ RemovePutOld(r) \/ MountEntry(r)

Finished == (\A r \in Runs : ~Active(r)) /\ UNCHANGED vars

Next ==
    \/ \E r \in Runs : \/ Prepare(r) \/ SetupMounts(r) \/ Exec(r) \/ WorkloadExits(r)
                       \/ CleanupCgroup(r) \/ SystemCallFails(r) \/ Killed(r)
    \/ Finished

Spec == Init /\ [][Next]_vars

-----------------------------------------------------------------------------
(* Properties *)

Points == Preparing \cup InChild \cup {"idle", "move", "workload", "cleanup", "done"}

\* Type correctness of the shared directories and of the runs.
TypeOK ==
    /\ seed \in Seeds /\ build \in Builds
    /\ pc \in [Runs -> Points]
    /\ cloned \subseteq Runs
    /\ result \in [Runs -> {"none", "ok", "err"}]
    /\ cg \in [exists : BOOLEAN, cpu : Int, memory : Int \cup {None},
               pids : Int \cup {None}]
    /\ procs \subseteq Runs
    /\ putOld \in BOOLEAN
    /\ private \in [Runs -> BOOLEAN]
    /\ root \in [Runs -> {"host", "bound", "pivoted"}]
    /\ oldRoot \in [Runs -> BOOLEAN]
    /\ mounted \in [Runs -> Nat]
    /\ hostMounts \subseteq {"rootfs"} \cup Nat
    /\ orphan \in [Runs -> BOOLEAN] /\ overlap \in [Runs -> BOOLEAN]
    /\ faulted \in [Runs -> BOOLEAN] /\ faults \in 0..MaxFaults

\* However runs of one Seed disturb each other's .old_root, a workload that was
\* exec'ed lives in its own root, cannot reach the host's, and nothing any run
\* mounts has shown up in the host's mount namespace.
Confined ==
    /\ hostMounts = {}
    /\ \A r \in Runs : pc[r] = "workload" => root[r] = "pivoted" /\ ~oldRoot[r]

\* What the manifest asks for, in exact arithmetic.
Bytes(m) ==
    IF m.unit = "bytes" THEN m.n
    ELSE CASE Power[m.unit] = 1 -> m.n * Factor[m.unit]
           [] Power[m.unit] = 2 -> m.n * Factor[m.unit] * Factor[m.unit]
           [] OTHER -> m.n * Factor[m.unit] * Factor[m.unit] * Factor[m.unit]
Declared ==
    [exists |-> TRUE,
     cpu    |-> IF seed.shares = None THEN 100
                ELSE Clamp((seed.shares * 10000) \div 1024, 1, 10000),
     memory |-> IF seed.memory = None THEN None ELSE Bytes(seed.memory),
     pids   |-> seed.pids]
FitsWord ==
    /\ seed.shares # None => seed.shares * 10000 < Word
    /\ seed.memory # None /\ seed.memory.unit # "bad" => Bytes(seed.memory) < Word

\* A released workload is a member of a cgroup that carries the declared limits,
\* although the other run creates, fills and removes the same directory.  Two
\* limits of the code are part of the statement: a release build wraps numbers
\* that do not fit the word, and with a third run the directory can be removed
\* and made again, still empty, between one run's setup and its move.
Started(r) == pc[r] # "idle"
AtMostTwo == \A r, o, q \in Runs :
                Started(r) /\ Started(o) /\ Started(q) => r = o \/ o = q \/ r = q

LimitsAsDeclared ==
    ((build = "release" => FitsWord) /\ AtMostTwo) => \A r \in procs : cg = Declared

\* Whatever earlier runs left behind (a cgroup, members in it, .old_root), a run
\* fails only because of its own Seed, of a failing system call or a kill, or of
\* another run going on at the same time.
LeftoversAreHarmless ==
    \A r \in Runs : result[r] = "err" =>
        \/ overlap[r] \/ faulted[r] \/ orphan[r]
        \/ ~seed.valid \/ ~ValidMemory \/ ~seed.rootfs
        \/ build = "debug" /\ ~FitsWord

\* The last run out removes the cgroup: once every run has ended, if each got
\* as far as its clone and none was killed, the directory is gone.
LastRunRemovesCgroup ==
    (\A r \in Runs : pc[r] = "done" /\ r \in cloned /\ ~orphan[r]) => ~cg.exists

-----------------------------------------------------------------------------
(* The inductive invariant *)

\* What a task has done to its mount namespace by the time it stands at a point.
MountInv == \A r \in Runs :
    /\ pc[r] \in (InChild \ {"private"}) \cup {"workload"} => private[r]
    /\ pc[r] \in {"umount", "rm_old", "mounts", "workload"} => root[r] = "pivoted"
    /\ pc[r] \in {"rm_old", "mounts", "workload"} => ~oldRoot[r]

\* The runs that have the cgroup set up, from the first write to the move.
UsesCgroup(r) ==
    pc[r] \in {"cpu", "memory", "pids", "move"} \/ (pc[r] = "clone" /\ cgroups_requested)

\* Only a task is a member of the cgroup, only a run past its validation and with
\* a limit touches it, and a run is marked as cloned once it has left "clone".
CgroupInv ==
    /\ \A r \in procs : pc[r] \in InChild \cup {"workload"}
    /\ cg.exists => cgroups_requested /\ ValidMemory
    /\ \A r \in Runs :
          /\ pc[r] \in {"check", "mkdir"} \/ UsesCgroup(r) => cgroups_requested
          /\ pc[r] \notin {"idle", "validate", "done"} => ValidMemory
          /\ pc[r] \in Preparing \cup {"idle"} => r \notin cloned

\* Two runs that go on at the same time know it, and one that was always alone
\* finds everything as it left it.
AloneInv ==
    /\ \A r, o \in Runs : r # o /\ Active(r) /\ Active(o) => overlap[r]
    /\ \A r \in Runs : ~overlap[r] =>
          /\ pc[r] = "mkdir" => ~cg.exists
          /\ UsesCgroup(r) => cg.exists
          /\ pc[r] \in {"pivot", "umount", "rm_old"} => putOld
          /\ pc[r] = "umount" => oldRoot[r]

\* A limit of the cgroup is as the kernel makes it or as declared, and as declared
\* once the run has written it.  The directory of a run disappears only when
\* another run has ended.
FreshOrDeclared ==
    cg.exists => /\ cg.cpu \in {Fresh.cpu, Declared.cpu}
                 /\ cg.memory \in {Fresh.memory, Declared.memory}
                 /\ cg.pids \in {Fresh.pids, Declared.pids}
Written(r) ==
    UsesCgroup(r) /\ cg.exists =>
        /\ pc[r] # "cpu" => cg.cpu = Declared.cpu
        /\ pc[r] \notin {"cpu", "memory"} => cg.memory = Declared.memory
        /\ pc[r] \in {"clone", "move"} => cg.pids = Declared.pids
LimitsInv ==
    /\ \A r \in Runs : UsesCgroup(r) /\ ~cg.exists => \E o \in Runs \ {r} : pc[o] = "done"
    /\ (build = "release" => FitsWord) =>
          FreshOrDeclared /\ (AtMostTwo => \A r \in Runs : Written(r))

RunsInv ==
    /\ TypeOK /\ MountInv /\ CgroupInv /\ AloneInv /\ LimitsInv
    /\ Confined /\ LimitsAsDeclared /\ LeftoversAreHarmless /\ LastRunRemovesCgroup
=============================================================================
