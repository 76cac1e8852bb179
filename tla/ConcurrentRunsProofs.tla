------------------------- MODULE ConcurrentRunsProofs -------------------------
(***************************************************************************)
(* Proofs about ConcurrentRuns: the inductive invariant of any number of    *)
(* runs of one Seed, that their workloads are confined, carry the declared  *)
(* limits, and neither trip over leftovers nor leave a cgroup behind.       *)
(***************************************************************************)
EXTENDS ConcurrentRuns, TLAPS

-----------------------------------------------------------------------------
(* Numbers *)

\* A product on words is a number; where it fits it is exact.
LEMMA TimesType ==
    ASSUME ConcurrentRunsAssumption, NEW a \in Int, NEW b \in Nat
    PROVE  Times(a, b) \in Int
BY DEF Times, Panic, ConcurrentRunsAssumption

\* A product that fits in a word, or that a debug build let through, is exact.
LEMMA TimesExact ==
    ASSUME ConcurrentRunsAssumption, build \in Builds,
           NEW a \in Nat, NEW b \in Nat, Times(a, b) # Panic,
           build = "release" => a * b < Word
    PROVE  Times(a, b) = a * b
<1>1. a # Panic BY DEF Panic
<1>2. a * b \in Nat BY SMT
<1>3. a * b < Word
  BY <1>1 DEF Times, ConcurrentRunsAssumption
<1>4. (a * b) % Word = a * b
  BY <1>2, <1>3 DEF ConcurrentRunsAssumption
<1>5. QED BY <1>1, <1>3, <1>4 DEF Times

\* What a valid Seed declares can be written as it is, or the step panics.
LEMMA SeedType ==
    ASSUME ConcurrentRunsAssumption, TypeOK
    PROVE  /\ build \in Builds /\ IsSeed(seed)
           /\ seed.shares # None => seed.shares \in Nat
           /\ seed.memory # None => seed.memory.n \in Nat /\ seed.memory.unit \in Units
           /\ seed.pids # None => seed.pids \in Nat
BY DEF ConcurrentRunsAssumption, TypeOK, IsSeed

\* The weight of the cgroup.
LEMMA WeightValue ==
    ASSUME ConcurrentRunsAssumption, TypeOK, Weight \notin {None, Panic}
    PROVE  /\ Weight \in Int
           /\ (build = "release" => FitsWord) => Weight = Declared.cpu
<1>1. seed.shares \in Nat /\ seed.shares # None
  BY SeedType DEF Weight
<1> DEFINE p == Times(seed.shares, 10000)
<1>2. p \in Int /\ p # Panic
  <2>1. p \in Int BY <1>1, TimesType
  <2>2. p = Panic => Weight = Panic BY <1>1 DEF Weight, cpu_weight
  <2>3. QED BY <2>1, <2>2
<1>3. Weight = Clamp(p \div 1024, 1, 10000)
  BY <1>1, <1>2 DEF Weight, cpu_weight
<1>4. Weight \in Int
  BY <1>2, <1>3 DEF Clamp
<1>5. ASSUME build = "release" => FitsWord PROVE p = seed.shares * 10000
  BY <1>1, <1>2, <1>5, TimesExact, SeedType DEF FitsWord
<1>6. QED BY <1>1, <1>3, <1>4, <1>5 DEF Declared

\* The declared memory limit.
LEMMA DeclaredMemory ==
    seed.memory # None => Declared.memory = Bytes(seed.memory)
BY DEF Declared

\* A limit with a unit, factor by factor.
LEMMA FactorPower ==
    ASSUME NEW u \in Suffixes
    PROVE  Factor[u] \in {1000, 1024} /\ Power[u] \in {1, 2, 3}
BY DEF Factor, Power

\* The memory limit of the cgroup.
LEMMA MemoryValue ==
    ASSUME ConcurrentRunsAssumption, TypeOK, ValidMemory, seed.memory # None
    PROVE  /\ Memory \in Int /\ Memory # Panic
           /\ (build = "release" => FitsWord) => Memory = Declared.memory
<1> DEFINE m == seed.memory
           n == m.n
           f == Factor[m.unit]
           one == Times(n, f)
           two == Times(one, f)
           three == Times(two, f)
<1>1. m # None /\ n \in Nat /\ m.unit \in Units /\ m.unit # "bad"
  BY SeedType DEF Memory, ValidMemory
<1>0. Memory # Panic BY DEF Memory, ValidMemory
<1>2. CASE m.unit = "bytes"
  BY <1>0, <1>1, <1>2, DeclaredMemory DEF Memory, parse_memory_string, Bytes
<1>3. CASE m.unit # "bytes"
  <2>1. m.unit \in Suffixes BY <1>1, <1>3 DEF Suffixes
  <2>2. f \in {1000, 1024} /\ Power[m.unit] \in {1, 2, 3} BY <2>1, FactorPower
  <2>3. one \in Int /\ two \in Int /\ three \in Int
    <3>1. f \in Nat BY <2>2
    <3>2. one \in Int BY <1>1, <3>1, TimesType
    <3> HIDE DEF one
    <3>3. two \in Int BY <3>1, <3>2, TimesType
    <3> HIDE DEF two
    <3>4. three \in Int BY <3>1, <3>3, TimesType
    <3>5. QED BY <3>2, <3>3, <3>4
  <2>4. /\ Power[m.unit] = 1 => Memory = one /\ Declared.memory = n * f /\ Bytes(m) = n * f
        /\ Power[m.unit] = 2 => Memory = two /\ Declared.memory = n * f * f /\ Bytes(m) = n * f * f
        /\ Power[m.unit] = 3 => /\ Memory = three /\ Declared.memory = n * f * f * f
                                /\ Bytes(m) = n * f * f * f
    <3>1. Declared.memory = Bytes(m) BY <1>1, DeclaredMemory
    <3>2. /\ Power[m.unit] = 1 => Bytes(m) = n * f
          /\ Power[m.unit] = 2 => Bytes(m) = n * f * f
          /\ Power[m.unit] = 3 => Bytes(m) = n * f * f * f
      BY <1>3 DEF Bytes
    <3>3. /\ Power[m.unit] = 1 => Memory = one
          /\ Power[m.unit] = 2 => Memory = two
          /\ Power[m.unit] = 3 => Memory = three
      BY <1>1, <1>3 DEF Memory, parse_memory_string
    <3>4. QED BY <3>1, <3>2, <3>3
  <2>5. Memory \in Int BY <2>2, <2>3, <2>4
  <2>6. ASSUME build = "release" => FitsWord PROVE Memory = Declared.memory
    <3>1. build = "release" => Bytes(m) < Word BY <1>1, <2>6 DEF FitsWord
    <3>2. n * f \in Nat /\ n * f * f \in Nat BY <1>1, <2>2
    <3>3. n * f <= n * f * f /\ n * f * f <= n * f * f * f BY <1>1, <2>2
    <3>4. two # Panic => one # Panic BY DEF Times
    <3>5. three # Panic => two # Panic BY DEF Times
    <3>6. build \in Builds BY SeedType
    <3>7. CASE Power[m.unit] = 1
      BY <1>0, <1>1, <2>2, <2>4, <3>1, <3>6, <3>7, TimesExact
    <3>8. CASE Power[m.unit] = 2
      <4>1. two # Panic /\ one # Panic BY <1>0, <2>4, <3>4, <3>8
      <4>2. build = "release" => n * f * f < Word /\ n * f < Word BY <1>1, <2>2, <2>4, <3>1, <3>3, <3>8
      <4>3. one = n * f BY <1>1, <2>2, <3>6, <4>1, <4>2, TimesExact
      <4>4. two = Times(n * f, f) BY <4>3
      <4>5. Times(n * f, f) = n * f * f BY <2>2, <3>2, <3>6, <4>1, <4>2, <4>4, TimesExact
      <4>6. QED BY <2>4, <3>8, <4>4, <4>5
    <3>9. CASE Power[m.unit] = 3
      <4>1. three # Panic /\ two # Panic /\ one # Panic BY <1>0, <2>4, <3>4, <3>5, <3>9
      <4>2. build = "release" => n * f * f * f < Word /\ n * f * f < Word /\ n * f < Word
        BY <1>1, <2>2, <2>4, <3>1, <3>3, <3>9
      <4>3. one = n * f BY <1>1, <2>2, <3>6, <4>1, <4>2, TimesExact
      <4>4. two = Times(n * f, f) BY <4>3
      <4>5. Times(n * f, f) = n * f * f BY <2>2, <3>2, <3>6, <4>1, <4>2, <4>4, TimesExact
      <4>6. three = Times(n * f * f, f) BY <4>4, <4>5
      <4>7. Times(n * f * f, f) = n * f * f * f
        BY <2>2, <3>2, <3>6, <4>1, <4>2, <4>6, TimesExact
      <4>8. QED BY <2>4, <3>9, <4>6, <4>7
    <3>10. QED BY <2>2, <3>7, <3>8, <3>9
  <2>7. QED BY <1>0, <2>5, <2>6
<1>4. QED BY <1>2, <1>3

-----------------------------------------------------------------------------
(* The steps of a run *)

InputsSame == seed' = seed /\ build' = build
MntSame == /\ putOld' = putOld /\ private' = private /\ root' = root
           /\ oldRoot' = oldRoot /\ mounted' = mounted /\ hostMounts' = hostMounts
HistSame == /\ orphan' = orphan /\ overlap' = overlap
            /\ faulted' = faulted /\ faults' = faults

\* Run r goes from f to t without an error.
Goes(r, f, t) ==
    /\ pc[r] = f /\ pc' = [pc EXCEPT ![r] = t]
    /\ result' = result /\ procs' = procs
    /\ cloned' = IF f = "clone" THEN cloned \cup {r} ELSE cloned

\* A step of the preparation that succeeds, with what it has seen and written.
Prepares(r) ==
    /\ MntSame /\ HistSame
    /\ \/ /\ Goes(r, "validate", "check") /\ cg' = cg /\ cgroups_requested /\ ValidMemory
       \/ /\ Goes(r, "validate", "clone") /\ cg' = cg /\ ~cgroups_requested /\ ValidMemory
       \/ Goes(r, "check", "cpu") /\ cg' = cg /\ cg.exists
       \/ Goes(r, "check", "mkdir") /\ cg' = cg /\ ~cg.exists
       \/ Goes(r, "mkdir", "cpu") /\ cg' = Fresh /\ ~cg.exists
       \/ /\ Goes(r, "cpu", "memory")
          /\ \/ Weight = None /\ cg' = cg
             \/ /\ cg.exists /\ Weight \notin {None, Panic}
                /\ cg' = [cg EXCEPT !.cpu = Weight]
       \/ /\ Goes(r, "memory", "pids")
          /\ \/ Memory = None /\ cg' = cg
             \/ /\ cg.exists /\ Memory \notin {None, Panic}
                /\ cg' = [cg EXCEPT !.memory = Memory]
       \/ /\ Goes(r, "pids", "clone")
          /\ \/ seed.pids = None /\ cg' = cg
             \/ /\ cg.exists /\ seed.pids \notin {None, Panic}
                /\ cg' = [cg EXCEPT !.pids = seed.pids]
       \/ Goes(r, "clone", "move") /\ cg' = cg /\ cgroups_requested
       \/ Goes(r, "clone", "private") /\ cg' = cg /\ ~cgroups_requested
       \/ /\ pc[r] = "move" /\ pc' = [pc EXCEPT ![r] = "private"] /\ cg.exists
          /\ cg' = cg /\ procs' = procs \cup {r} /\ cloned' = cloned /\ result' = result

\* A step of the mount setup that succeeds.
SetsUp(r) ==
    /\ cg' = cg /\ HistSame
    /\ \/ /\ Goes(r, "private", "bind") /\ private' = [private EXCEPT ![r] = TRUE]
          /\ putOld' = putOld /\ root' = root /\ oldRoot' = oldRoot
          /\ mounted' = mounted /\ hostMounts' = hostMounts
       \/ /\ Goes(r, "bind", "put_old") /\ root' = [root EXCEPT ![r] = "bound"]
          /\ Mounting(r, "rootfs")
          /\ putOld' = putOld /\ private' = private /\ oldRoot' = oldRoot /\ mounted' = mounted
       \/ /\ Goes(r, "put_old", "pivot") /\ putOld' = TRUE
          /\ private' = private /\ root' = root /\ oldRoot' = oldRoot
          /\ mounted' = mounted /\ hostMounts' = hostMounts
       \/ /\ Goes(r, "pivot", "umount") /\ putOld /\ root' = [root EXCEPT ![r] = "pivoted"]
          /\ oldRoot' = [oldRoot EXCEPT ![r] = TRUE]
          /\ putOld' = putOld /\ private' = private
          /\ mounted' = mounted /\ hostMounts' = hostMounts
       \/ /\ Goes(r, "umount", "rm_old") /\ oldRoot' = [oldRoot EXCEPT ![r] = FALSE]
          /\ putOld' = putOld /\ private' = private /\ root' = root
          /\ mounted' = mounted /\ hostMounts' = hostMounts
       \/ /\ Goes(r, "rm_old", "mounts") /\ putOld' = FALSE
          /\ oldRoot' = [o \in Runs |-> FALSE]
          /\ private' = private /\ root' = root
          /\ mounted' = mounted /\ hostMounts' = hostMounts
       \/ /\ pc[r] = "mounts" /\ mounted' = [mounted EXCEPT ![r] = @ + 1]
          /\ hostMounts' = hostMounts \/ Mounting(r, mounted[r] + 1)
          /\ pc' = pc /\ result' = result /\ procs' = procs /\ cloned' = cloned
          /\ putOld' = putOld /\ private' = private /\ root' = root /\ oldRoot' = oldRoot
       \/ Goes(r, "mounts", "workload") /\ MntSame

\* Why a step of r is refused without a fault.
Refused(r) ==
    \/ pc[r] = "validate" /\ ~(seed.valid /\ ValidMemory)
    \/ pc[r] = "mkdir" /\ cg.exists
    \/ pc[r] = "cpu" /\ (~cg.exists \/ Weight = Panic)
    \/ pc[r] = "memory" /\ (~cg.exists \/ (seed.memory # None /\ Memory = Panic))
    \/ pc[r] = "pids" /\ (~cg.exists \/ (seed.pids # None /\ seed.pids = Panic))
    \/ pc[r] = "move" /\ ~cg.exists
    \/ pc[r] = "bind" /\ ~seed.rootfs
    \/ pc[r] = "pivot" /\ ~(putOld /\ private[r])
    \/ pc[r] = "umount" /\ ~oldRoot[r]
    \/ pc[r] = "rm_old" /\ ~putOld

\* A step of r that returns Err changes nothing that is shared but the members.
Fails(r) ==
    /\ Err(r) /\ cg' = cg /\ MntSame /\ orphan' = orphan /\ overlap' = overlap
    /\ pc[r] \in Preparing \cup {"move"} \cup InChild
    /\ \/ Refused(r) /\ faulted' = faulted /\ faults' = faults
       \/ /\ pc[r] # "validate" /\ faulted' = [faulted EXCEPT ![r] = TRUE]
          /\ faults' = faults + 1 /\ faults < MaxFaults

\* A step either goes on or returns Err.
LEMMA StepCases ==
    ASSUME NEW r, NEW p, NEW can, NEW next, Step(r, p, can, next)
    PROVE  /\ pc[r] = p /\ InputsSame /\ HistSame
           /\ can => Goes(r, p, next)
           /\ ~can => Err(r)
<1>1. pc[r] = p /\ InputsSame /\ HistSame
  BY DEF Step, inputVars, histVars, InputsSame, HistSame
<1>2. can => Goes(r, p, next) BY <1>1 DEF Step, Goto, Goes
<1>3. ~can => Err(r) BY DEF Step
<1>4. QED BY <1>1, <1>2, <1>3

\* The steps of the preparation.
LEMMA PrepareCases ==
    ASSUME ConcurrentRunsAssumption, TypeOK, NEW r \in Runs, Prepare(r), ~Begin(r)
    PROVE  InputsSame /\ (Prepares(r) \/ Fails(r))
<1> USE DEF mntVars, MntSame
<1>1. CASE Validate(r)
  <2>1. cg' = cg /\ MntSame BY <1>1 DEF Validate
  <2>2. CASE seed.valid /\ ValidMemory
    BY <1>1, <2>1, <2>2, StepCases DEF Validate, Prepares
  <2>3. CASE ~(seed.valid /\ ValidMemory)
    BY <1>1, <2>1, <2>3, StepCases DEF Validate, Fails, Refused, HistSame, Preparing
  <2>4. QED BY <2>2, <2>3
<1>2. CASE CheckCgroup(r)
  BY <1>2, StepCases DEF CheckCgroup, Prepares
<1>3. CASE CreateCgroup(r)
  <2>1. MntSame BY <1>3 DEF CreateCgroup
  <2>2. CASE cg.exists
    BY <1>3, <2>1, <2>2, StepCases DEF CreateCgroup, Fails, Refused, HistSame, Preparing
  <2>3. CASE ~cg.exists
    BY <1>3, <2>1, <2>3, StepCases DEF CreateCgroup, Prepares
  <2>4. QED BY <2>2, <2>3
<1>4. CASE SetCpuWeight(r)
  <2>1. MntSame /\ (cg' = IF cg.exists /\ Weight \notin {None, Panic}
                         THEN [cg EXCEPT !.cpu = Weight] ELSE cg)
    BY <1>4 DEF SetCpuWeight, Write
  <2>2. Step(r, "cpu", Weight = None \/ (cg.exists /\ Weight # Panic), "memory")
    BY <1>4 DEF SetCpuWeight, Write
  <2>3. CASE Weight = None \/ (cg.exists /\ Weight # Panic)
    BY <2>1, <2>2, <2>3, StepCases DEF Prepares
  <2>4. CASE ~(Weight = None \/ (cg.exists /\ Weight # Panic))
    BY <2>1, <2>2, <2>4, StepCases DEF Fails, Refused, HistSame, Preparing
  <2>5. QED BY <2>3, <2>4
<1>5. CASE SetMemoryMax(r)
  <2>1. MntSame /\ (cg' = IF cg.exists /\ Memory \notin {None, Panic}
                         THEN [cg EXCEPT !.memory = Memory] ELSE cg)
    BY <1>5 DEF SetMemoryMax, Write
  <2>2. Step(r, "memory", Memory = None \/ (cg.exists /\ Memory # Panic), "pids")
    BY <1>5 DEF SetMemoryMax, Write
  <2>3. CASE Memory = None \/ (cg.exists /\ Memory # Panic)
    BY <2>1, <2>2, <2>3, StepCases DEF Prepares
  <2>4. CASE ~(Memory = None \/ (cg.exists /\ Memory # Panic))
    <3>1. seed.memory # None BY <2>4 DEF Memory
    <3>2. QED BY <2>1, <2>2, <2>4, <3>1, StepCases DEF Fails, Refused, HistSame, Preparing
  <2>5. QED BY <2>3, <2>4
<1>6. CASE SetPidsMax(r)
  <2>1. MntSame /\ (cg' = IF cg.exists /\ seed.pids \notin {None, Panic}
                         THEN [cg EXCEPT !.pids = seed.pids] ELSE cg)
    BY <1>6 DEF SetPidsMax, Write
  <2>2. Step(r, "pids", seed.pids = None \/ (cg.exists /\ seed.pids # Panic), "clone")
    BY <1>6 DEF SetPidsMax, Write
  <2>3. CASE seed.pids = None \/ (cg.exists /\ seed.pids # Panic)
    BY <2>1, <2>2, <2>3, StepCases DEF Prepares
  <2>4. CASE ~(seed.pids = None \/ (cg.exists /\ seed.pids # Panic))
    BY <2>1, <2>2, <2>4, StepCases DEF Fails, Refused, HistSame, Preparing
  <2>5. QED BY <2>3, <2>4
<1>7. CASE Clone(r)
  BY <1>7, StepCases DEF Clone, Prepares
<1>8. CASE MovePidToPath(r)
  <2>1. pc[r] = "move" /\ cg' = cg /\ MntSame /\ HistSame /\ InputsSame
    BY <1>8 DEF MovePidToPath, inputVars, histVars, InputsSame, HistSame
  <2>2. CASE cg.exists BY <1>8, <2>1, <2>2 DEF MovePidToPath, Prepares, Goto
  <2>3. CASE ~cg.exists BY <1>8, <2>1, <2>3 DEF MovePidToPath, Fails, Refused, HistSame
  <2>4. QED BY <2>1, <2>2, <2>3
<1>9. QED BY <1>1, <1>2, <1>3, <1>4, <1>5, <1>6, <1>7, <1>8 DEF Prepare

\* The steps of the mount setup.
LEMMA SetupCases ==
    ASSUME ConcurrentRunsAssumption, TypeOK, NEW r \in Runs, SetupMounts(r) \/ Exec(r)
    PROVE  InputsSame /\ (SetsUp(r) \/ Fails(r))
<1> USE DEF MntSame
<1>1. CASE MakePrivateMounts(r)
  BY <1>1, StepCases DEF MakePrivateMounts, SetsUp
<1>2. CASE BindRootfs(r)
  <2>1. /\ cg' = cg /\ putOld' = putOld /\ private' = private /\ oldRoot' = oldRoot
        /\ mounted' = mounted /\ Step(r, "bind", seed.rootfs, "put_old")
    BY <1>2 DEF BindRootfs
  <2>2. CASE seed.rootfs
    <3>1. root' = [root EXCEPT ![r] = "bound"] /\ Mounting(r, "rootfs")
      BY <1>2, <2>2 DEF BindRootfs
    <3>2. QED BY <2>1, <2>2, <3>1, StepCases DEF SetsUp
  <2>3. CASE ~seed.rootfs
    <3>1. root' = root /\ hostMounts' = hostMounts BY <1>2, <2>3 DEF BindRootfs
    <3>2. QED BY <2>1, <2>3, <3>1, StepCases DEF Fails, Refused, HistSame, InChild
  <2>4. QED BY <2>2, <2>3
<1>3. CASE CreatePutOld(r)
  BY <1>3, StepCases DEF CreatePutOld, SetsUp
<1>4. CASE PivotRoot(r)
  <2> DEFINE can == putOld /\ private[r]
  <2>1. /\ cg' = cg /\ putOld' = putOld /\ private' = private
        /\ mounted' = mounted /\ hostMounts' = hostMounts /\ Step(r, "pivot", can, "umount")
    BY <1>4 DEF PivotRoot
  <2>2. CASE can
    <3>1. root' = [root EXCEPT ![r] = "pivoted"] /\ oldRoot' = [oldRoot EXCEPT ![r] = TRUE]
      BY <1>4, <2>2 DEF PivotRoot
    <3>2. QED BY <2>1, <2>2, <3>1, StepCases DEF SetsUp
  <2>3. CASE ~can
    <3>1. root' = root /\ oldRoot' = oldRoot BY <1>4, <2>3 DEF PivotRoot
    <3>2. QED BY <2>1, <2>3, <3>1, StepCases DEF Fails, Refused, HistSame, InChild
  <2>4. QED BY <2>2, <2>3
<1>5. CASE UmountOldRoot(r)
  <2>1. /\ cg' = cg /\ putOld' = putOld /\ private' = private /\ root' = root
        /\ mounted' = mounted /\ hostMounts' = hostMounts
        /\ oldRoot' = [oldRoot EXCEPT ![r] = FALSE] /\ Step(r, "umount", oldRoot[r], "rm_old")
    BY <1>5 DEF UmountOldRoot
  <2>2. CASE oldRoot[r] BY <2>1, <2>2, StepCases DEF SetsUp
  <2>3. CASE ~oldRoot[r]
    <3>1. oldRoot \in [Runs -> BOOLEAN] BY DEF TypeOK
    <3>2. oldRoot' = oldRoot BY <2>1, <2>3, <3>1
    <3>3. QED BY <2>1, <2>3, <3>2, StepCases DEF Fails, Refused, HistSame, InChild
  <2>4. QED BY <2>2, <2>3
<1>6. CASE RemovePutOld(r)
  <2>1. /\ cg' = cg /\ putOld' = FALSE /\ private' = private /\ root' = root
        /\ mounted' = mounted /\ hostMounts' = hostMounts
        /\ Step(r, "rm_old", putOld, "mounts")
        /\ oldRoot' = IF putOld THEN [o \in Runs |-> FALSE] ELSE oldRoot
    BY <1>6 DEF RemovePutOld
  <2>2. CASE putOld BY <2>1, <2>2, StepCases DEF SetsUp
  <2>3. CASE ~putOld
    <3>1. putOld' = putOld BY <2>1, <2>3 DEF TypeOK
    <3>2. QED BY <2>1, <2>3, <3>1, StepCases DEF Fails, Refused, HistSame, InChild
  <2>4. QED BY <2>2, <2>3
<1>7. CASE MountEntry(r)
  BY <1>7 DEF MountEntry, SetsUp, inputVars, histVars, InputsSame, HistSame
<1>8. CASE Exec(r)
  BY <1>8, StepCases DEF Exec, SetsUp, mntVars
<1>9. QED BY <1>1, <1>2, <1>3, <1>4, <1>5, <1>6, <1>7, <1>8 DEF SetupMounts

\* The end of the workload, the cleanup and the kill, with everything they leave.
Exits(r) ==
    /\ pc[r] = "workload" /\ procs' = procs \ {r} /\ cloned' = cloned
    /\ cg' = cg /\ MntSame /\ HistSame
    /\ \/ /\ orphan[r] /\ pc' = [pc EXCEPT ![r] = "done"]
          /\ result' = [result EXCEPT ![r] = "ok"]
       \/ ~orphan[r] /\ pc' = [pc EXCEPT ![r] = "cleanup"] /\ result' = result
Cleans(r) ==
    /\ pc[r] = "cleanup" /\ pc' = [pc EXCEPT ![r] = "done"]
    /\ result' = [result EXCEPT ![r] = IF result[r] = "err" THEN "err" ELSE "ok"]
    /\ cg' = IF cgroups_requested /\ cg.exists /\ procs = {} THEN Absent ELSE cg
    /\ procs' = procs /\ cloned' = cloned /\ MntSame /\ HistSame
Dies(r) ==
    /\ Active(r) /\ faults < MaxFaults /\ faults' = faults + 1
    /\ orphan' = [orphan EXCEPT ![r] = TRUE]
    /\ cloned' = cloned /\ cg' = cg /\ MntSame /\ overlap' = overlap /\ faulted' = faulted
    /\ \/ /\ pc[r] \in InChild \cup {"workload"} /\ pc' = pc /\ result' = result /\ procs' = procs
       \/ /\ pc[r] \notin InChild \cup {"workload"} /\ pc' = [pc EXCEPT ![r] = "done"]
          /\ result' = [result EXCEPT ![r] = "err"] /\ procs' = procs \ {r}
Begins(r) ==
    /\ pc[r] = "idle" /\ pc' = [pc EXCEPT ![r] = "validate"]
    /\ overlap' = [o \in Runs |-> \/ overlap[o]
                                  \/ o \in {q \in Runs \ {r} : Active(q)}
                                  \/ o = r /\ {q \in Runs \ {r} : Active(q)} # {}]
    /\ cloned' = cloned /\ result' = result /\ cg' = cg /\ procs' = procs /\ MntSame
    /\ orphan' = orphan /\ faulted' = faulted /\ faults' = faults

RunStep(r) ==
    Begins(r) \/ Prepares(r) \/ SetsUp(r) \/ Fails(r) \/ Exits(r) \/ Cleans(r) \/ Dies(r)

AllSame ==
    /\ pc' = pc /\ cloned' = cloned /\ result' = result /\ cg' = cg /\ procs' = procs
    /\ MntSame /\ HistSame

\* Every step is one of these of one run, or changes nothing.
LEMMA NextCases ==
    ASSUME ConcurrentRunsAssumption, TypeOK, [Next]_vars
    PROVE  InputsSame /\ (AllSame \/ \E r \in Runs : RunStep(r))
<1> USE DEF mntVars, histVars, inputVars, MntSame, HistSame, InputsSame
<1>1. CASE UNCHANGED vars BY <1>1 DEF vars, AllSame
<1>2. ASSUME NEW r \in Runs, Begin(r) PROVE InputsSame /\ Begins(r)
  BY <1>2 DEF Begin, Begins, Goto
<1>3. ASSUME NEW r \in Runs, WorkloadExits(r) PROVE InputsSame /\ Exits(r)
  <2>1. CASE orphan[r] BY <1>3, <2>1 DEF WorkloadExits, Exits, Ends, Goto
  <2>2. CASE ~orphan[r] BY <1>3, <2>2 DEF WorkloadExits, Exits, Ends, Goto
  <2>3. QED BY <2>1, <2>2
<1>4. ASSUME NEW r \in Runs, CleanupCgroup(r) PROVE InputsSame /\ Cleans(r)
  BY <1>4 DEF CleanupCgroup, Cleans, Ends, Goto
<1>5. ASSUME NEW r \in Runs, Killed(r) PROVE InputsSame /\ Dies(r)
  <2>1. CASE pc[r] \in InChild \cup {"workload"} BY <1>5, <2>1 DEF Killed, Dies
  <2>2. CASE pc[r] \notin InChild \cup {"workload"} BY <1>5, <2>2 DEF Killed, Dies, Ends, Goto
  <2>3. QED BY <2>1, <2>2
<1>6. ASSUME NEW r \in Runs, SystemCallFails(r) PROVE InputsSame /\ Fails(r)
  BY <1>6 DEF SystemCallFails, Fails
<1>7. CASE Finished BY <1>7, <1>1 DEF Finished
<1>8. QED
  BY <1>1, <1>2, <1>3, <1>4, <1>5, <1>6, <1>7, PrepareCases, SetupCases DEF Next, RunStep

-----------------------------------------------------------------------------
(* Type correctness *)

ControlType ==
    /\ pc \in [Runs -> Points] /\ cloned \subseteq Runs
    /\ result \in [Runs -> {"none", "ok", "err"}] /\ procs \subseteq Runs

\* The control state of a step of r, and that it leaves the other runs alone.
LEMMA ControlStep ==
    ASSUME ControlType, NEW r \in Runs, RunStep(r)
    PROVE  ControlType' /\ \A o \in Runs \ {r} : pc'[o] = pc[o]
<1> USE DEF ControlType
<1>1. ASSUME NEW t \in Points, pc' = [pc EXCEPT ![r] = t]
      PROVE  pc' \in [Runs -> Points] /\ \A o \in Runs \ {r} : pc'[o] = pc[o]
  BY <1>1
<1>2. ASSUME NEW t \in {"none", "ok", "err"}, result' = [result EXCEPT ![r] = t]
      PROVE  result' \in [Runs -> {"none", "ok", "err"}]
  BY <1>2
<1>3. CASE Begins(r) BY <1>1, <1>3 DEF Begins, Points, Preparing
<1>4. CASE Prepares(r)
  <2>1. \E t \in Points : pc' = [pc EXCEPT ![r] = t]
    BY <1>4 DEF Prepares, Goes, Points, Preparing, InChild
  <2>2. cloned' \subseteq Runs /\ result' = result /\ procs' \subseteq Runs
    BY <1>4 DEF Prepares, Goes
  <2>3. QED BY <1>1, <2>1, <2>2
<1>5. CASE SetsUp(r)
  <2>1. pc' = pc \/ \E t \in Points : pc' = [pc EXCEPT ![r] = t]
    BY <1>5 DEF SetsUp, Goes, Points, InChild
  <2>2. cloned' \subseteq Runs /\ result' = result /\ procs' \subseteq Runs
    BY <1>5 DEF SetsUp, Goes
  <2>3. QED BY <1>1, <2>1, <2>2
<1>6. CASE Fails(r)
  <2>1. \E t \in Points : pc' = [pc EXCEPT ![r] = t]
    BY <1>6 DEF Fails, Err, Goto, Points
  <2>2. cloned' \subseteq Runs /\ result' = [result EXCEPT ![r] = "err"] /\ procs' \subseteq Runs
    BY <1>6 DEF Fails, Err
  <2>3. QED BY <1>1, <1>2, <2>1, <2>2
<1>7. CASE Exits(r)
  <2>1. \E t \in Points : pc' = [pc EXCEPT ![r] = t] BY <1>7 DEF Exits, Points
  <2>2. /\ cloned' \subseteq Runs /\ procs' \subseteq Runs
        /\ result' = result \/ result' = [result EXCEPT ![r] = "ok"]
    BY <1>7 DEF Exits
  <2>3. QED BY <1>1, <1>2, <2>1, <2>2
<1>8. CASE Cleans(r) BY <1>1, <1>2, <1>8 DEF Cleans, Points
<1>9. CASE Dies(r)
  <2>1. pc' = pc \/ \E t \in Points : pc' = [pc EXCEPT ![r] = t] BY <1>9 DEF Dies, Points
  <2>2. /\ cloned' \subseteq Runs /\ procs' \subseteq Runs
        /\ result' = result \/ result' = [result EXCEPT ![r] = "err"]
    BY <1>9 DEF Dies
  <2>3. QED BY <1>1, <1>2, <2>1, <2>2
<1>10. QED BY <1>3, <1>4, <1>5, <1>6, <1>7, <1>8, <1>9 DEF RunStep

CgType == cg \in [exists : BOOLEAN, cpu : Int, memory : Int \cup {None}, pids : Int \cup {None}]

\* The cgroup's files hold numbers, or nothing.
LEMMA CgStep ==
    ASSUME ConcurrentRunsAssumption, TypeOK, CgroupInv, NEW r \in Runs, RunStep(r)
    PROVE  CgType'
<1>1. CgType BY DEF TypeOK, CgType
<1>2. Fresh \in [exists : BOOLEAN, cpu : Int, memory : Int \cup {None}, pids : Int \cup {None}]
      /\ Absent \in [exists : BOOLEAN, cpu : Int, memory : Int \cup {None}, pids : Int \cup {None}]
  <2>1. Fresh \in [exists : BOOLEAN, cpu : Int, memory : Int \cup {None}, pids : Int \cup {None}]
    BY DEF Fresh
  <2>2. QED BY <2>1 DEF Absent
<1>3. CASE cg' = cg \/ cg' = Fresh \/ cg' = Absent BY <1>1, <1>2, <1>3 DEF CgType
<1>4. CASE Weight \notin {None, Panic} /\ cg' = [cg EXCEPT !.cpu = Weight]
  BY <1>1, <1>4, WeightValue DEF CgType
<1>5. CASE pc[r] = "memory" /\ Memory \notin {None, Panic} /\ cg' = [cg EXCEPT !.memory = Memory]
  <2>1. ValidMemory BY <1>5 DEF CgroupInv
  <2>2. Memory \in Int BY <1>5, <2>1, MemoryValue DEF Memory
  <2>3. QED BY <1>1, <1>5, <2>2 DEF CgType
<1>6. CASE seed.pids \notin {None, Panic} /\ cg' = [cg EXCEPT !.pids = seed.pids]
  <2>1. seed.pids \in Int BY <1>6, SeedType
  <2>2. QED BY <1>1, <1>6, <2>1 DEF CgType
<1>7. CASE Prepares(r)
  <2>1. \/ cg' = cg \/ cg' = Fresh
        \/ Weight \notin {None, Panic} /\ cg' = [cg EXCEPT !.cpu = Weight]
        \/ pc[r] = "memory" /\ Memory \notin {None, Panic} /\ cg' = [cg EXCEPT !.memory = Memory]
        \/ seed.pids \notin {None, Panic} /\ cg' = [cg EXCEPT !.pids = seed.pids]
    BY <1>7 DEF Prepares, Goes
  <2>2. QED BY <2>1, <1>3, <1>4, <1>5, <1>6
<1>8. QED BY <1>3, <1>7 DEF RunStep, Begins, SetsUp, Fails, Exits, Cleans, Dies

RestType ==
    /\ putOld \in BOOLEAN
    /\ private \in [Runs -> BOOLEAN]
    /\ root \in [Runs -> {"host", "bound", "pivoted"}]
    /\ oldRoot \in [Runs -> BOOLEAN]
    /\ mounted \in [Runs -> Nat]
    /\ hostMounts \subseteq {"rootfs"} \cup Nat
    /\ orphan \in [Runs -> BOOLEAN] /\ overlap \in [Runs -> BOOLEAN]
    /\ faulted \in [Runs -> BOOLEAN] /\ faults \in 0..MaxFaults

\* The mounts and the history.
LEMMA RestStep ==
    ASSUME ConcurrentRunsAssumption, RestType, NEW r \in Runs, RunStep(r)
    PROVE  RestType'
<1> USE DEF RestType, MntSame, HistSame
<1>1. CASE Begins(r)
  <2>1. overlap' \in [Runs -> BOOLEAN] BY <1>1 DEF Begins
  <2>2. QED BY <1>1, <2>1 DEF Begins
<1>2. CASE Prepares(r) BY <1>2 DEF Prepares
<1>3. CASE SetsUp(r)
  <2>1. /\ putOld' \in BOOLEAN /\ private' \in [Runs -> BOOLEAN]
        /\ root' \in [Runs -> {"host", "bound", "pivoted"}]
        /\ oldRoot' \in [Runs -> BOOLEAN]
    BY <1>3 DEF SetsUp
  <2>2. mounted' \in [Runs -> Nat] /\ hostMounts' \subseteq {"rootfs"} \cup Nat
    <3>1. \/ mounted' = mounted
          \/ /\ mounted' = [mounted EXCEPT ![r] = mounted[r] + 1]
             /\ hostMounts' = hostMounts \/ Mounting(r, mounted[r] + 1)
      BY <1>3 DEF SetsUp
    <3>2. \/ hostMounts' = hostMounts
          \/ \E x \in {"rootfs", mounted[r] + 1} : hostMounts' = hostMounts \cup {x}
      BY <1>3 DEF SetsUp, Mounting
    <3>3. mounted[r] + 1 \in Nat OBVIOUS
    <3>4. mounted' \in [Runs -> Nat] BY <3>1, <3>3
    <3>5. hostMounts' \subseteq {"rootfs"} \cup Nat BY <3>2, <3>3
    <3>6. QED BY <3>4, <3>5
  <2>3. QED BY <1>3, <2>1, <2>2 DEF SetsUp
<1>4. CASE Fails(r)
  <2>1. faulted' \in [Runs -> BOOLEAN] /\ faults' \in 0..MaxFaults
    <3>1. \/ faulted' = faulted /\ faults' = faults
          \/ faulted' = [faulted EXCEPT ![r] = TRUE] /\ faults' = faults + 1 /\ faults < MaxFaults
      BY <1>4 DEF Fails
    <3>2. faulted' \in [Runs -> BOOLEAN] BY <3>1, Zenon
    <3>3. faults' \in 0..MaxFaults BY <3>1 DEF ConcurrentRunsAssumption
    <3>4. QED BY <3>2, <3>3
  <2>2. QED BY <1>4, <2>1 DEF Fails
<1>5. CASE Exits(r) BY <1>5 DEF Exits
<1>6. CASE Cleans(r) BY <1>6 DEF Cleans
<1>7. CASE Dies(r)
  <2>1. orphan' \in [Runs -> BOOLEAN] /\ faults' \in 0..MaxFaults
    BY <1>7 DEF Dies, ConcurrentRunsAssumption
  <2>2. QED BY <1>7, <2>1 DEF Dies
<1>8. QED BY <1>1, <1>2, <1>3, <1>4, <1>5, <1>6, <1>7 DEF RunStep

\* Every step of a run keeps the types.
LEMMA TypeStep ==
    ASSUME ConcurrentRunsAssumption, TypeOK, CgroupInv, InputsSame, NEW r \in Runs, RunStep(r)
    PROVE  TypeOK'
<1>1. ControlType' BY ControlStep DEF TypeOK, ControlType
<1>2. CgType' BY CgStep
<1>3. RestType' BY RestStep DEF TypeOK, RestType
<1>4. QED BY <1>1, <1>2, <1>3 DEF TypeOK, ControlType, CgType, RestType, InputsSame

-----------------------------------------------------------------------------
(* Confinement *)

MountOf(r) ==
    /\ pc[r] \in (InChild \ {"private"}) \cup {"workload"} => private[r]
    /\ pc[r] \in {"umount", "rm_old", "mounts", "workload"} => root[r] = "pivoted"
    /\ pc[r] \in {"rm_old", "mounts", "workload"} => ~oldRoot[r]

\* A task's mounts are private before the first one is made, "/" is the new root
\* before the old one is unmounted, and a run that disturbs another's .old_root
\* can only take the host's root away from it.
LEMMA MountStep ==
    ASSUME TypeOK, MountInv, hostMounts = {}, NEW r \in Runs, RunStep(r)
    PROVE  MountInv' /\ hostMounts' = {}
<1> USE DEF MntSame, InChild
<1>1. /\ \A o \in Runs : MountOf(o)
      /\ pc \in [Runs -> Points] /\ private \in [Runs -> BOOLEAN]
      /\ root \in [Runs -> {"host", "bound", "pivoted"}] /\ oldRoot \in [Runs -> BOOLEAN]
  BY DEF MountInv, MountOf, TypeOK
<1>2. SUFFICES (\A o \in Runs : MountOf(o)') /\ hostMounts' = {}
  BY DEF MountInv, MountOf
<1>3. \A o \in Runs \ {r} : pc'[o] = pc[o] BY ControlStep DEF ControlType, TypeOK
<1>4. ASSUME MntSame, pc'[r] = pc[r] \/ pc'[r] \notin InChild \cup {"workload"} \/
                    (pc[r] = "mounts" /\ pc'[r] = "workload") \/ pc'[r] = "private"
      PROVE  (\A o \in Runs : MountOf(o)') /\ hostMounts' = {}
  BY <1>1, <1>3, <1>4 DEF MountOf
<1>5. CASE Begins(r) \/ Exits(r) \/ Cleans(r) \/ Dies(r)
  BY <1>1, <1>4, <1>5 DEF Begins, Exits, Cleans, Dies
<1>6. CASE Fails(r) BY <1>1, <1>4, <1>6 DEF Fails, Err, Goto
<1>7. CASE Prepares(r)
  <2>1. MntSame /\ pc'[r] \in {"check", "clone", "cpu", "mkdir", "memory", "pids", "move", "private"}
    BY <1>1, <1>7 DEF Prepares, Goes
  <2>2. QED BY <1>4, <2>1
<1>8. CASE SetsUp(r)
  <2>1. CASE /\ Goes(r, "private", "bind") /\ private' = [private EXCEPT ![r] = TRUE]
             /\ root' = root /\ oldRoot' = oldRoot /\ hostMounts' = hostMounts
    BY <1>1, <1>3, <2>1 DEF Goes, MountOf
  <2>2. CASE /\ Goes(r, "bind", "put_old") /\ root' = [root EXCEPT ![r] = "bound"]
             /\ Mounting(r, "rootfs") /\ private' = private /\ oldRoot' = oldRoot
    <3>1. hostMounts' = {} BY <1>1, <2>2 DEF Mounting, MountOf, Goes
    <3>2. QED BY <1>1, <1>3, <2>2, <3>1 DEF Goes, MountOf
  <2>3. CASE /\ Goes(r, "put_old", "pivot") /\ private' = private /\ root' = root
             /\ oldRoot' = oldRoot /\ hostMounts' = hostMounts
    BY <1>1, <1>3, <2>3 DEF Goes, MountOf
  <2>4. CASE /\ Goes(r, "pivot", "umount") /\ root' = [root EXCEPT ![r] = "pivoted"]
             /\ oldRoot' = [oldRoot EXCEPT ![r] = TRUE] /\ private' = private
             /\ hostMounts' = hostMounts
    BY <1>1, <1>3, <2>4 DEF Goes, MountOf
  <2>5. CASE /\ Goes(r, "umount", "rm_old") /\ oldRoot' = [oldRoot EXCEPT ![r] = FALSE]
             /\ private' = private /\ root' = root /\ hostMounts' = hostMounts
    BY <1>1, <1>3, <2>5 DEF Goes, MountOf
  <2>6. CASE /\ Goes(r, "rm_old", "mounts") /\ oldRoot' = [o \in Runs |-> FALSE]
             /\ private' = private /\ root' = root /\ hostMounts' = hostMounts
    BY <1>1, <1>3, <2>6 DEF Goes, MountOf
  <2>7. CASE /\ pc[r] = "mounts" /\ (hostMounts' = hostMounts \/ Mounting(r, mounted[r] + 1))
             /\ pc' = pc /\ private' = private /\ root' = root /\ oldRoot' = oldRoot
    <3>1. hostMounts' = {} BY <1>1, <2>7 DEF Mounting, MountOf
    <3>2. QED BY <1>1, <2>7, <3>1 DEF MountOf
  <2>8. CASE Goes(r, "mounts", "workload") /\ MntSame
    BY <1>1, <1>4, <2>8 DEF Goes
  <2>9. QED BY <1>8, <2>1, <2>2, <2>3, <2>4, <2>5, <2>6, <2>7, <2>8 DEF SetsUp
<1>9. QED BY <1>5, <1>6, <1>7, <1>8 DEF RunStep

-----------------------------------------------------------------------------
(* The cgroup's members and users *)

UserOf(r) ==
    /\ pc[r] \in {"check", "mkdir"} \/ UsesCgroup(r) => cgroups_requested
    /\ pc[r] \notin {"idle", "validate", "done"} => ValidMemory
    /\ pc[r] \in Preparing \cup {"idle"} => r \notin cloned

\* What is requested and valid is a matter of the inputs.
LEMMA InputFacts ==
    ASSUME InputsSame
    PROVE  /\ cgroups_requested' <=> cgroups_requested
           /\ ValidMemory' <=> ValidMemory
           /\ FitsWord' <=> FitsWord
           /\ Declared' = Declared /\ Weight' = Weight /\ Memory' = Memory
BY DEF InputsSame, cgroups_requested, ValidMemory, FitsWord, Declared, Weight, Memory, Bytes,
       parse_memory_string, Times, cpu_weight

\* Steps keep it: a member joins as its task is released and leaves with it.
LEMMA CgroupStep ==
    ASSUME TypeOK, CgroupInv, InputsSame, NEW r \in Runs, RunStep(r)
    PROVE  CgroupInv'
<1> USE DEF Preparing, InChild
<1>1. /\ pc \in [Runs -> Points] /\ cloned \subseteq Runs /\ procs \subseteq Runs
      /\ (\A o \in Runs : UserOf(o)) /\ \A o \in procs : pc[o] \in InChild \cup {"workload"}
      /\ cg.exists => cgroups_requested /\ ValidMemory
  BY DEF TypeOK, CgroupInv, UserOf
<1>2. \A o \in Runs \ {r} : pc'[o] = pc[o] BY ControlStep DEF ControlType, TypeOK
<1>3. \A o \in Runs \ {r} : o \in cloned' <=> o \in cloned
  BY DEF RunStep, Begins, Prepares, SetsUp, Goes, Fails, Err, Exits, Cleans, Dies
<1>4. \A o \in Runs \ {r} : UserOf(o)'
  BY <1>1, <1>2, <1>3, InputFacts DEF UserOf, UsesCgroup
<1>5. \A o \in procs' \ {r} : pc'[o] \in InChild \cup {"workload"}
  <2>1. procs' \ {r} \subseteq procs
    BY DEF RunStep, Begins, Prepares, SetsUp, Goes, Fails, Err, Exits, Cleans, Dies
  <2>2. QED BY <1>1, <1>2, <2>1
<1>6. UserOf(r)' /\ (r \in procs' => pc'[r] \in InChild \cup {"workload"})
  <2>1. CASE Begins(r) BY <1>1, <2>1, InputFacts DEF Begins, UserOf, UsesCgroup
  <2>2. CASE Prepares(r)
    BY <1>1, <2>2, InputFacts DEF Prepares, Goes, UserOf, UsesCgroup
  <2>3. CASE SetsUp(r) BY <1>1, <2>3, InputFacts DEF SetsUp, Goes, UserOf, UsesCgroup
  <2>4. CASE Fails(r) BY <1>1, <2>4, InputFacts DEF Fails, Err, Goto, UserOf, UsesCgroup
  <2>5. CASE Exits(r) BY <1>1, <2>5, InputFacts DEF Exits, UserOf, UsesCgroup
  <2>6. CASE Cleans(r) BY <1>1, <2>6, InputFacts DEF Cleans, UserOf, UsesCgroup
  <2>7. CASE Dies(r) BY <1>1, <2>7, InputFacts DEF Dies, UserOf, UsesCgroup
  <2>8. QED BY <2>1, <2>2, <2>3, <2>4, <2>5, <2>6, <2>7 DEF RunStep
<1>7. cg'.exists => cgroups_requested /\ ValidMemory
  <2>1. cg' = cg \/ (pc[r] \in {"cpu", "memory", "pids", "mkdir"}) \/ cg' = Absent
    BY DEF RunStep, Begins, Prepares, SetsUp, Goes, Fails, Exits, Cleans, Dies
  <2>2. Absent.exists = FALSE BY DEF Absent, Fresh
  <2>3. QED BY <1>1, <2>1, <2>2 DEF UserOf, UsesCgroup
<1>8. QED BY <1>4, <1>5, <1>6, <1>7, InputFacts DEF CgroupInv, UserOf

-----------------------------------------------------------------------------
(* A run that is alone *)

AloneOf(r) ==
    ~overlap[r] =>
          /\ pc[r] = "mkdir" => ~cg.exists
          /\ UsesCgroup(r) => cg.exists
          /\ pc[r] \in {"pivot", "umount", "rm_old"} => putOld
          /\ pc[r] = "umount" => oldRoot[r]

\* A run is going on before each of its steps but the first, and none begins twice.
LEMMA ActiveStep ==
    ASSUME TypeOK, NEW r \in Runs, RunStep(r)
    PROVE  /\ ~Begins(r) => Active(r) /\ overlap' = overlap
           /\ \A o \in Runs : Active(o)' => Active(o) \/ (o = r /\ Begins(r))
           /\ \A o \in Runs : Started(o) => Started(o)'
<1>1. pc \in [Runs -> Points] /\ \A o \in Runs \ {r} : pc'[o] = pc[o]
  BY ControlStep DEF ControlType, TypeOK
<1>2. ~Begins(r) => Active(r) /\ overlap' = overlap
  <2>1. Prepares(r) => Active(r) /\ overlap' = overlap BY DEF Prepares, Goes, Active, HistSame
  <2>2. SetsUp(r) => Active(r) /\ overlap' = overlap BY DEF SetsUp, Goes, Active, HistSame
  <2>3. Fails(r) => Active(r) /\ overlap' = overlap
    BY DEF Fails, Active, Preparing, InChild
  <2>4. QED BY <2>1, <2>2, <2>3 DEF RunStep, Exits, Cleans, Dies, Active, HistSame
<1>3. pc[r] # "idle" => pc'[r] # "idle"
  BY <1>1 DEF RunStep, Begins, Prepares, SetsUp, Goes, Fails, Err, Goto, Exits, Cleans, Dies
<1>4. QED BY <1>1, <1>2, <1>3 DEF Active, Started

\* Two runs at the same time have both noticed.
LEMMA OverlapStep ==
    ASSUME TypeOK, AloneInv, NEW r \in Runs, RunStep(r), NEW o \in Runs, NEW q \in Runs, o # q,
           Active(o)', Active(q)'
    PROVE  overlap'[o]
<1>1. overlap \in [Runs -> BOOLEAN] BY DEF TypeOK
<1>2. CASE ~Begins(r)
  BY <1>2, ActiveStep DEF AloneInv
<1>3. CASE Begins(r)
  <2>1. (Active(o) \/ o = r) /\ (Active(q) \/ q = r) BY ActiveStep
  <2>2. CASE o = r
    <3>1. q \in {p \in Runs \ {r} : Active(p)} BY <2>1, <2>2
    <3>2. QED BY <1>3, <2>2, <3>1 DEF Begins
  <2>3. CASE o # r BY <1>3, <2>1, <2>3 DEF Begins
  <2>4. QED BY <2>2, <2>3
<1>4. QED BY <1>2, <1>3

\* What a run that is alone relies on, nobody else changes.
LEMMA AloneStep ==
    ASSUME TypeOK, CgroupInv, AloneInv, InputsSame, NEW r \in Runs, RunStep(r)
    PROVE  AloneInv'
<1>1. /\ pc \in [Runs -> Points] /\ overlap \in [Runs -> BOOLEAN]
      /\ oldRoot \in [Runs -> BOOLEAN] /\ putOld \in BOOLEAN /\ CgType
      /\ \A o \in Runs : AloneOf(o)
  BY DEF TypeOK, AloneInv, AloneOf, CgType
<1>2. \A o \in Runs \ {r} : pc'[o] = pc[o] BY ControlStep DEF ControlType, TypeOK
<1>3. \A o \in Runs : overlap[o] => overlap'[o]
  BY ActiveStep DEF Begins
<1>4. ASSUME NEW o \in Runs \ {r} PROVE AloneOf(o)'
  <2>1. CASE ~Active(o) BY <1>2, <2>1 DEF AloneOf, Active, UsesCgroup
  <2>2. CASE Active(o) /\ ~Begins(r)
    <3>1. overlap[o] BY <2>2, ActiveStep DEF AloneInv
    <3>2. QED BY <1>3, <3>1 DEF AloneOf
  <2>3. CASE Begins(r)
    <3>1. cg' = cg /\ putOld' = putOld /\ oldRoot' = oldRoot BY <2>3 DEF Begins, MntSame
    <3>2. QED BY <1>1, <1>2, <1>3, <3>1, InputFacts DEF AloneOf, UsesCgroup
  <2>4. QED BY <2>1, <2>2, <2>3
<1>5. AloneOf(r)'
  <2>1. CASE ~(Prepares(r) \/ SetsUp(r) \/ Dies(r))
    <3>1. pc'[r] \in {"validate", "done", "cleanup"}
      BY <1>1, <2>1 DEF RunStep, Begins, Fails, Err, Goto, Exits, Cleans
    <3>2. QED BY <3>1 DEF AloneOf, UsesCgroup
  <2>2. CASE Dies(r)
    <3>1. pc'[r] = "done" \/ (pc' = pc /\ cg' = cg /\ MntSame /\ overlap' = overlap)
      BY <1>1, <2>2 DEF Dies
    <3>2. QED BY <1>1, <3>1, InputFacts DEF AloneOf, UsesCgroup, MntSame
  <2>3. CASE Prepares(r)
    <3>1. pc'[r] = "mkdir" => ~cg'.exists BY <1>1, <2>3 DEF Prepares, Goes
    <3>2. ~overlap[r] /\ UsesCgroup(r)' => cg'.exists
      <4>1. ~overlap[r] /\ UsesCgroup(r)' => cg.exists \/ cg' = Fresh
        BY <1>1, <2>3, InputFacts DEF Prepares, Goes, UsesCgroup, AloneOf
      <4>2. cg.exists => cg'.exists BY <1>1, <2>3 DEF Prepares, Goes, CgType
      <4>3. Fresh.exists BY DEF Fresh
      <4>4. QED BY <4>1, <4>2, <4>3
    <3>3. pc'[r] \notin {"pivot", "umount", "rm_old"} BY <1>1, <2>3 DEF Prepares, Goes
    <3>4. QED BY <1>3, <3>1, <3>2, <3>3 DEF AloneOf
  <2>4. CASE SetsUp(r)
    <3>1. pc'[r] # "mkdir" /\ ~UsesCgroup(r)' BY <1>1, <2>4 DEF SetsUp, Goes, UsesCgroup
    <3>2. ~overlap[r] /\ pc'[r] \in {"pivot", "umount", "rm_old"} => putOld'
      BY <1>1, <2>4 DEF SetsUp, Goes, AloneOf
    <3>3. pc'[r] = "umount" => oldRoot'[r] BY <1>1, <2>4 DEF SetsUp, Goes
    <3>4. QED BY <1>3, <3>1, <3>2, <3>3 DEF AloneOf
  <2>5. QED BY <2>1, <2>2, <2>3, <2>4
<1>6. QED BY <1>4, <1>5, OverlapStep DEF AloneInv, AloneOf

\* Why a run may fail.
Blamed(r) ==
    \/ overlap[r] \/ faulted[r] \/ orphan[r]
    \/ ~seed.valid \/ ~ValidMemory \/ ~seed.rootfs
    \/ build = "debug" /\ ~FitsWord

\* A refusal has a reason: a panic is a number that does not fit a debug build.
LEMMA RefusalBlamed ==
    ASSUME ConcurrentRunsAssumption, TypeOK, MountInv, AloneInv, NEW r \in Runs, Refused(r)
    PROVE  Blamed(r)
<1>1. SUFFICES ASSUME ~overlap[r] PROVE Blamed(r)
  BY DEF Blamed
<1>2. /\ pc[r] = "mkdir" => ~cg.exists
      /\ pc[r] \in {"cpu", "memory", "pids", "move"} => cg.exists
      /\ pc[r] \in {"pivot", "umount", "rm_old"} => putOld
      /\ pc[r] = "umount" => oldRoot[r]
  BY <1>1 DEF AloneInv, UsesCgroup
<1>3. pc[r] = "pivot" => private[r] BY DEF MountInv, InChild
<1>4. ASSUME Weight = Panic PROVE build = "debug" /\ ~FitsWord
  <2>1. seed.shares # None
    BY <1>4 DEF Weight, Panic, ConcurrentRunsAssumption
  <2>2. seed.shares \in Nat BY <2>1, SeedType
  <2> DEFINE p == Times(seed.shares, 10000)
  <2>3. p = Panic
    <3>1. p \in Int BY <2>2, TimesType
    <3>2. p # Panic => Weight = Clamp(p \div 1024, 1, 10000) BY <2>1 DEF Weight, cpu_weight
    <3>3. Clamp(p \div 1024, 1, 10000) >= 1 BY <3>1 DEF Clamp
    <3>4. QED BY <1>4, <3>2, <3>3 DEF Panic
  <2>4. ~(seed.shares * 10000 < Word) /\ build # "release"
    <3>1. seed.shares # Panic BY <2>2 DEF Panic
    <3>2. (seed.shares * 10000) % Word \in Nat BY <2>2 DEF ConcurrentRunsAssumption
    <3>3. QED BY <2>3, <3>1, <3>2 DEF Times, Panic
  <2>5. build = "debug" BY <2>4 DEF ConcurrentRunsAssumption, TypeOK
  <2>6. QED BY <2>1, <2>4, <2>5 DEF FitsWord
<1>5. seed.memory # None /\ Memory = Panic => ~ValidMemory BY DEF Memory, ValidMemory
<1>6. ~(seed.pids # None /\ seed.pids = Panic) BY SeedType DEF Panic
<1>7. QED BY <1>2, <1>3, <1>4, <1>5, <1>6 DEF Refused, Blamed

\* A run that fails has a reason, and reasons stay.
LEMMA BlameStep ==
    ASSUME ConcurrentRunsAssumption, TypeOK, MountInv, AloneInv, LeftoversAreHarmless, InputsSame,
           NEW r \in Runs, RunStep(r)
    PROVE  LeftoversAreHarmless'
<1>1. /\ \A o \in Runs : result[o] = "err" => Blamed(o)
      /\ result \in [Runs -> {"none", "ok", "err"}] /\ overlap \in [Runs -> BOOLEAN]
      /\ orphan \in [Runs -> BOOLEAN] /\ faulted \in [Runs -> BOOLEAN]
  BY DEF LeftoversAreHarmless, Blamed, TypeOK
<1>2. SUFFICES \A o \in Runs : result'[o] = "err" => Blamed(o)'
  BY DEF LeftoversAreHarmless, Blamed
<1>3. \A o \in Runs : overlap[o] => overlap'[o] BY ActiveStep DEF Begins
<1>4. \A o \in Runs : (faulted[o] => faulted'[o]) /\ (orphan[o] => orphan'[o])
  BY <1>1 DEF RunStep, Begins, Prepares, SetsUp, Fails, Exits, Cleans, Dies, HistSame
<1>5. \A o \in Runs : Blamed(o) => Blamed(o)'
  BY <1>3, <1>4, InputFacts DEF Blamed, InputsSame
<1>6. \A o \in Runs \ {r} : result'[o] = result[o]
  <2>1. result' = result \/ \E how \in {"ok", "err"} : result' = [result EXCEPT ![r] = how]
    BY DEF RunStep, Begins, Prepares, SetsUp, Goes, Exits, Cleans, Fails, Err, Dies
  <2>2. QED BY <1>1, <2>1
<1>7. CASE Fails(r)
  <2>1. Refused(r) \/ faulted'[r] BY <1>1, <1>7 DEF Fails
  <2>2. Blamed(r)' BY <1>5, <2>1, RefusalBlamed DEF Blamed
  <2>3. QED BY <1>1, <1>5, <1>6, <2>2
<1>8. CASE Dies(r)
  <2>1. orphan'[r] BY <1>1, <1>8 DEF Dies
  <2>2. Blamed(r)' BY <2>1 DEF Blamed
  <2>3. QED BY <1>1, <1>5, <1>6, <2>2
<1>9. CASE Begins(r) \/ Prepares(r) \/ SetsUp(r) \/ Exits(r) \/ Cleans(r)
  <2>1. result'[r] = "err" => result[r] = "err"
    BY <1>1, <1>9 DEF Begins, Prepares, SetsUp, Goes, Exits, Cleans
  <2>2. QED BY <1>1, <1>5, <1>6, <2>1
<1>10. QED BY <1>7, <1>8, <1>9 DEF RunStep

-----------------------------------------------------------------------------
(* The last run and the cgroup *)

\* A run that was cloned and not killed ends in the cleanup, which finds no member
\* once all others have ended.
LEMMA LastStep ==
    ASSUME TypeOK, CgroupInv, LastRunRemovesCgroup, InputsSame, NEW r \in Runs, RunStep(r)
    PROVE  LastRunRemovesCgroup'
<1>1. SUFFICES ASSUME \A o \in Runs : pc'[o] = "done" /\ o \in cloned' /\ ~orphan'[o]
               PROVE  ~cg'.exists
  BY DEF LastRunRemovesCgroup
<1>2. /\ pc \in [Runs -> Points] /\ orphan \in [Runs -> BOOLEAN] /\ procs \subseteq Runs
      /\ \A o \in Runs : pc[o] \in Preparing \cup {"idle"} => o \notin cloned
      /\ \A o \in procs : pc[o] \in InChild \cup {"workload"}
      /\ cg.exists => cgroups_requested
  BY DEF TypeOK, CgroupInv
<1>3. pc'[r] = "done" /\ r \in cloned' /\ ~orphan'[r] BY <1>1
<1>4. Cleans(r)
  <2>1. ~Begins(r) BY <1>2, <1>3 DEF Begins
  <2>2. ~Prepares(r) BY <1>2, <1>3 DEF Prepares, Goes
  <2>3. ~SetsUp(r) BY <1>2, <1>3 DEF SetsUp, Goes
  <2>4. ~Fails(r)
    <3>1. SUFFICES ASSUME Fails(r) PROVE FALSE OBVIOUS
    <3>2. orphan' = orphan /\ pc[r] \in Preparing \ {"clone"} BY <1>2, <1>3, <3>1 DEF Fails, Err, Goto
    <3>3. cloned' = cloned BY <3>1, <3>2 DEF Fails, Err
    <3>4. QED BY <1>2, <1>3, <3>2, <3>3
  <2>5. ~Exits(r) BY <1>2, <1>3 DEF Exits, HistSame
  <2>6. ~Dies(r) BY <1>2, <1>3 DEF Dies
  <2>7. QED BY <2>1, <2>2, <2>3, <2>4, <2>5, <2>6 DEF RunStep
<1>5. \A o \in Runs : pc[o] \in {"done", "cleanup"}
  <2>1. \A o \in Runs \ {r} : pc'[o] = pc[o] BY ControlStep DEF ControlType, TypeOK
  <2>2. QED BY <1>1, <1>4, <2>1 DEF Cleans
<1>6. procs = {} BY <1>2, <1>5 DEF InChild
<1>7. Absent.exists = FALSE BY DEF Absent, Fresh
<1>8. QED BY <1>2, <1>4, <1>6, <1>7 DEF Cleans

-----------------------------------------------------------------------------
(* The limits *)

Fits == build = "release" => FitsWord

\* With two runs started before and after, nobody was the third.
LEMMA TwoBefore ==
    ASSUME TypeOK, NEW r \in Runs, RunStep(r), AtMostTwo'
    PROVE  AtMostTwo
BY ActiveStep DEF AtMostTwo

\* The directory of a run that uses it goes away only with another run's cleanup.
GoneBy(r) == UsesCgroup(r) /\ ~cg.exists => \E o \in Runs \ {r} : pc[o] = "done"

\* A step that leaves a run without its directory is the cleanup of another run.
LEMMA GoneStep ==
    ASSUME TypeOK, CgroupInv, InputsSame, \A o \in Runs : GoneBy(o), NEW r \in Runs, RunStep(r),
           NEW q \in Runs
    PROVE  GoneBy(q)'
<1>1. pc \in [Runs -> Points] /\ CgType BY DEF TypeOK, CgType
<1>2. \A o \in Runs \ {r} : pc'[o] = pc[o] BY ControlStep DEF ControlType, TypeOK
<1>3. SUFFICES ASSUME UsesCgroup(q)', ~cg'.exists PROVE \E o \in Runs \ {q} : pc'[o] = "done"
  BY DEF GoneBy
<1>4. \A o \in Runs : pc[o] = "done" => pc'[o] = "done"
  <2>1. pc[r] # "done" BY ActiveStep DEF Active, Begins
  <2>2. QED BY <1>2, <2>1
<1>5. CASE UsesCgroup(q) /\ ~cg.exists BY <1>4, <1>5 DEF GoneBy
<1>6. CASE cg.exists
  <2>1. Cleans(r)
    BY <1>1, <1>3, <1>6 DEF RunStep, Begins, Prepares, Goes, SetsUp, Fails, Exits, Dies, CgType
  <2>2. pc'[r] = "done" BY <1>1, <2>1 DEF Cleans
  <2>3. q # r BY <1>3, <2>2 DEF UsesCgroup
  <2>4. QED BY <2>2, <2>3
<1>7. CASE ~UsesCgroup(q) /\ ~cg.exists
  <2>1. q = r BY <1>2, <1>3, <1>7, InputFacts DEF UsesCgroup
  <2>2. Fresh.exists BY DEF Fresh
  <2>3. FALSE
    <3>1. pc'[r] \in {"cpu", "memory", "pids", "move", "clone"} /\ (pc'[r] = "clone" => cgroups_requested)
      BY <1>3, <2>1, InputFacts DEF UsesCgroup
    <3>2. Prepares(r)
      BY <1>1, <1>7, <2>1, <3>1 DEF RunStep, Begins, SetsUp, Goes, Fails, Err, Goto, Exits, Cleans, Dies, UsesCgroup
    <3>3. QED BY <1>1, <1>3, <1>7, <2>1, <2>2, <3>1, <3>2 DEF Prepares, Goes, UsesCgroup
  <2>4. QED BY <2>3
<1>8. QED BY <1>5, <1>6, <1>7

\* What a step writes to the cgroup is what the Seed declares.
LEMMA WrittenValues ==
    ASSUME ConcurrentRunsAssumption, TypeOK, CgroupInv, NEW r \in Runs, RunStep(r), Fits
    PROVE  \/ cg' = cg
           \/ cg' = Fresh /\ ~cg.exists /\ pc[r] = "mkdir"
           \/ cg' = Absent /\ procs = {} /\ Cleans(r)
           \/ cg' = [cg EXCEPT !.cpu = Declared.cpu] /\ cg.exists
           \/ cg' = [cg EXCEPT !.memory = Declared.memory] /\ cg.exists
           \/ cg' = [cg EXCEPT !.pids = Declared.pids] /\ cg.exists
<1>1. CASE Prepares(r)
  <2>1. Weight \notin {None, Panic} => Weight = Declared.cpu BY WeightValue DEF Fits
  <2>2. pc[r] = "memory" /\ Memory \notin {None, Panic} => Memory = Declared.memory
    BY MemoryValue DEF Memory, Fits, CgroupInv
  <2>3. seed.pids = Declared.pids BY DEF Declared
  <2>4. QED BY <1>1, <2>1, <2>2, <2>3 DEF Prepares, Goes
<1>2. QED BY <1>1 DEF RunStep, Begins, SetsUp, Fails, Exits, Cleans, Dies

\* A limit that is not requested is the one a fresh directory has.
LEMMA DefaultLimits ==
    ASSUME ConcurrentRunsAssumption, TypeOK
    PROVE  /\ Weight = None => Declared.cpu = Fresh.cpu
           /\ ValidMemory /\ Memory = None => Declared.memory = Fresh.memory
           /\ seed.pids = None => Declared.pids = Fresh.pids
<1>1. Weight = None => seed.shares = None
  <2>1. SUFFICES ASSUME seed.shares # None, Weight = None PROVE FALSE OBVIOUS
  <2>2. seed.shares \in Nat BY <2>1, SeedType
  <2>3. cpu_weight(seed.shares) \in Int
    <3>1. Times(seed.shares, 10000) \in Int BY <2>2, TimesType
    <3>2. QED BY <3>1 DEF cpu_weight, Clamp, Panic
  <2>4. QED BY <2>1, <2>3 DEF Weight, ConcurrentRunsAssumption
<1>2. ValidMemory /\ Memory = None => seed.memory = None
  BY MemoryValue DEF ConcurrentRunsAssumption
<1>3. QED BY <1>1, <1>2 DEF Declared, Fresh

\* The limits are the default or the declared ones.
LEMMA FreshStep ==
    ASSUME ConcurrentRunsAssumption, TypeOK, CgroupInv, FreshOrDeclared, Fits,
           InputsSame, NEW r \in Runs, RunStep(r)
    PROVE  FreshOrDeclared'
<1>1. CgType BY DEF TypeOK, CgType
<1>2. Absent.exists = FALSE BY DEF Absent, Fresh
<1>3. Declared' = Declared BY InputFacts
<1>4. SUFFICES ASSUME cg'.exists
               PROVE  /\ cg'.cpu \in {Fresh.cpu, Declared.cpu}
                      /\ cg'.memory \in {Fresh.memory, Declared.memory}
                      /\ cg'.pids \in {Fresh.pids, Declared.pids}
  BY <1>3 DEF FreshOrDeclared
<1>5. CASE cg' = Fresh BY <1>5
<1>6. CASE /\ cg.exists
           /\ \/ cg' = cg
              \/ cg' = [cg EXCEPT !.cpu = Declared.cpu]
              \/ cg' = [cg EXCEPT !.memory = Declared.memory]
              \/ cg' = [cg EXCEPT !.pids = Declared.pids]
  <2>1. /\ cg.cpu \in {Fresh.cpu, Declared.cpu}
        /\ cg.memory \in {Fresh.memory, Declared.memory}
        /\ cg.pids \in {Fresh.pids, Declared.pids}
    BY <1>6 DEF FreshOrDeclared
  <2>2. /\ cg'.cpu \in {cg.cpu, Declared.cpu}
        /\ cg'.memory \in {cg.memory, Declared.memory}
        /\ cg'.pids \in {cg.pids, Declared.pids}
    BY <1>1, <1>6 DEF CgType
  <2>3. QED BY <2>1, <2>2
<1>7. QED BY <1>2, <1>4, <1>5, <1>6, WrittenValues

\* A cgroup with all three limits as declared is the declared one.
LEMMA CgEqual ==
    ASSUME NEW c \in [exists : BOOLEAN, cpu : Int, memory : Int \cup {None}, pids : Int \cup {None}],
           c.exists, c.cpu = Declared.cpu, c.memory = Declared.memory, c.pids = Declared.pids
    PROVE  c = Declared
<1>1. c = [exists |-> c.exists, cpu |-> c.cpu, memory |-> c.memory, pids |-> c.pids] OBVIOUS
<1>2. c.exists = TRUE OBVIOUS
<1>3. Declared = [exists |-> TRUE, cpu |-> Declared.cpu, memory |-> Declared.memory,
                  pids |-> Declared.pids]
  BY DEF Declared
<1>4. QED BY <1>1, <1>2, <1>3

\* Once a run has written a limit it stays as declared, with two runs.
LEMMA WrittenStep ==
    ASSUME ConcurrentRunsAssumption, TypeOK, CgroupInv, FreshOrDeclared, Fits, InputsSame,
           AtMostTwo, \A o \in Runs : Written(o) /\ GoneBy(o), NEW r \in Runs, RunStep(r),
           NEW q \in Runs
    PROVE  Written(q)'
<1>1. pc \in [Runs -> Points] /\ CgType BY DEF TypeOK, CgType
<1>2. \A o \in Runs \ {r} : pc'[o] = pc[o] BY ControlStep DEF ControlType, TypeOK
<1>3. Declared' = Declared BY InputFacts
<1>4. SUFFICES ASSUME UsesCgroup(q)', cg'.exists
               PROVE  /\ pc'[q] # "cpu" => cg'.cpu = Declared.cpu
                      /\ pc'[q] \notin {"cpu", "memory"} => cg'.memory = Declared.memory
                      /\ pc'[q] \in {"clone", "move"} => cg'.pids = Declared.pids
  BY <1>3 DEF Written
<1>5. CASE ~cg.exists
  <2>1. pc[r] = "mkdir" /\ cg' = Fresh
    <3>1. Absent.exists = FALSE BY DEF Absent, Fresh
    <3>2. QED BY <1>4, <1>5, <3>1, WrittenValues
  <2>2. pc'[r] = "cpu"
    <3>1. cg' # cg BY <1>4, <1>5
    <3>2. QED BY <1>1, <2>1, <3>1
          DEF RunStep, Begins, Prepares, Goes, SetsUp, Fails, Exits, Cleans, Dies
  <2>3. CASE q = r BY <2>2, <2>3
  <2>4. CASE q # r
    <3>1. UsesCgroup(q) BY <1>2, <1>4, <2>4, InputFacts DEF UsesCgroup
    <3>2. PICK o \in Runs \ {q} : pc[o] = "done" BY <1>5, <3>1 DEF GoneBy
    <3>3. o # r /\ Started(o) /\ Started(q) /\ Started(r)
      BY <2>1, <3>1, <3>2 DEF Started, UsesCgroup
    <3>4. QED BY <2>4, <3>2, <3>3 DEF AtMostTwo
  <2>5. QED BY <2>3, <2>4
<1>6. CASE cg.exists
  <2>1. /\ cg.cpu \in {Fresh.cpu, Declared.cpu}
        /\ cg.memory \in {Fresh.memory, Declared.memory}
        /\ cg.pids \in {Fresh.pids, Declared.pids}
    BY <1>6 DEF FreshOrDeclared
  <2>2. /\ cg'.cpu \in {cg.cpu, Declared.cpu}
        /\ cg'.memory \in {cg.memory, Declared.memory}
        /\ cg'.pids \in {cg.pids, Declared.pids}
    <3>1. \/ cg' = cg
          \/ cg' = [cg EXCEPT !.cpu = Declared.cpu]
          \/ cg' = [cg EXCEPT !.memory = Declared.memory]
          \/ cg' = [cg EXCEPT !.pids = Declared.pids]
      <4>1. Absent.exists = FALSE BY DEF Absent, Fresh
      <4>2. QED BY <1>4, <1>6, <4>1, WrittenValues
    <3>2. QED BY <1>1, <3>1 DEF CgType
  <2>3. UsesCgroup(q) => /\ pc[q] # "cpu" => cg.cpu = Declared.cpu
                         /\ pc[q] \notin {"cpu", "memory"} => cg.memory = Declared.memory
                         /\ pc[q] \in {"clone", "move"} => cg.pids = Declared.pids
    BY <1>6 DEF Written
  <2>4. CASE pc'[q] = pc[q] BY <1>4, <2>2, <2>3, <2>4, InputFacts DEF UsesCgroup
  <2>5. CASE q = r /\ pc'[r] # pc[r]
    <3>1. Prepares(r)
      <4>1. pc'[r] \in {"cpu", "memory", "pids", "move", "clone"} BY <1>4, <2>5 DEF UsesCgroup
      <4>2. QED BY <1>1, <4>1, <2>5
            DEF RunStep, Begins, SetsUp, Goes, Fails, Err, Goto, Exits, Cleans, Dies
    <3>2. CASE pc'[r] = "cpu" BY <2>5, <3>2
    <3>3. CASE pc'[r] = "memory"
      <4>1. pc[r] = "cpu" /\ (\/ Weight = None
                              \/ cg' = [cg EXCEPT !.cpu = Weight] /\ Weight \notin {None, Panic})
        BY <1>1, <3>1, <3>3 DEF Prepares, Goes
      <4>2. cg'.cpu = Declared.cpu
        BY <1>1, <2>1, <2>2, <4>1, DefaultLimits, WeightValue DEF CgType, Fits
      <4>3. QED BY <2>5, <3>3, <4>2
    <3>4. CASE pc'[r] = "pids"
      <4>1. pc[r] = "memory" /\ (\/ Memory = None
                                 \/ cg' = [cg EXCEPT !.memory = Memory] /\ Memory # None)
        BY <1>1, <3>1, <3>4 DEF Prepares, Goes
      <4>2. ValidMemory BY <4>1 DEF CgroupInv
      <4>3. cg'.memory = Declared.memory
        <5>1. CASE Memory = None BY <2>1, <2>2, <4>2, <5>1, DefaultLimits
        <5>2. CASE cg' = [cg EXCEPT !.memory = Memory] /\ Memory # None
          BY <1>1, <4>2, <5>2, MemoryValue DEF CgType, Fits, Memory
        <5>3. QED BY <4>1, <5>1, <5>2
      <4>4. cg.cpu = Declared.cpu BY <2>3, <2>5, <4>1 DEF UsesCgroup
      <4>5. QED BY <2>2, <2>5, <3>4, <4>3, <4>4
    <3>5. CASE pc'[r] = "clone"
      <4>1. cgroups_requested BY <1>4, <2>5, <3>5, InputFacts DEF UsesCgroup
      <4>2. pc[r] = "pids" /\ (seed.pids = None \/ cg' = [cg EXCEPT !.pids = seed.pids])
        BY <1>1, <3>1, <3>5, <4>1 DEF Prepares, Goes
      <4>3. cg'.pids = Declared.pids
        <5>1. Declared.pids = seed.pids BY DEF Declared
        <5>2. QED BY <1>1, <2>1, <2>2, <4>2, <5>1, DefaultLimits DEF CgType
      <4>4. cg.cpu = Declared.cpu /\ cg.memory = Declared.memory
        BY <2>3, <2>5, <4>2 DEF UsesCgroup
      <4>5. QED BY <2>2, <2>5, <3>5, <4>3, <4>4
    <3>6. CASE pc'[r] = "move"
      <4>1. pc[r] = "clone" /\ cgroups_requested BY <1>1, <3>1, <3>6 DEF Prepares, Goes
      <4>2. cg.cpu = Declared.cpu /\ cg.memory = Declared.memory /\ cg.pids = Declared.pids
        BY <2>3, <2>5, <4>1 DEF UsesCgroup
      <4>3. QED BY <2>2, <4>2
    <3>7. QED BY <1>4, <2>5, <3>2, <3>3, <3>4, <3>5, <3>6 DEF UsesCgroup
  <2>6. QED BY <1>2, <2>4, <2>5
<1>7. QED BY <1>5, <1>6

\* A member of the cgroup joins it with the declared limits and keeps them there.
LEMMA MemberStep ==
    ASSUME ConcurrentRunsAssumption, TypeOK, CgroupInv, Fits, InputsSame,
           \A o \in Runs : Written(o), \A o \in procs : cg = Declared,
           NEW r \in Runs, RunStep(r), NEW q \in procs'
    PROVE  cg' = Declared
<1>1. pc \in [Runs -> Points] /\ CgType BY DEF TypeOK, CgType
<1>2. Declared.exists = TRUE BY DEF Declared
<1>3. CASE q \in procs
  <2>1. cg = Declared BY <1>3
  <2>2. cg' \in [exists : BOOLEAN, cpu : Int, memory : Int \cup {None}, pids : Int \cup {None}]
    BY CgStep DEF CgType
  <2>3. /\ cg'.exists /\ cg'.cpu = Declared.cpu /\ cg'.memory = Declared.memory
        /\ cg'.pids = Declared.pids
    <3>1. \/ cg' = cg
          \/ cg' = [cg EXCEPT !.cpu = Declared.cpu]
          \/ cg' = [cg EXCEPT !.memory = Declared.memory]
          \/ cg' = [cg EXCEPT !.pids = Declared.pids]
      BY <1>2, <1>3, <2>1, WrittenValues
    <3>2. QED BY <1>1, <1>2, <2>1, <3>1 DEF CgType
  <2>4. QED BY <2>2, <2>3, CgEqual
<1>4. CASE q \notin procs
  <2>1. pc[r] = "move" /\ cg.exists /\ cg' = cg
    BY <1>4 DEF RunStep, Begins, Prepares, SetsUp, Goes, Fails, Err, Exits, Cleans, Dies
  <2>2. cg.cpu = Declared.cpu /\ cg.memory = Declared.memory /\ cg.pids = Declared.pids
    BY <2>1 DEF Written, UsesCgroup
  <2>3. QED BY <1>1, <2>1, <2>2, CgEqual DEF CgType
<1>5. QED BY <1>3, <1>4

-----------------------------------------------------------------------------
(* The theorems *)

\* The invariant holds before any run.
LEMMA RunsInvInit ==
    ASSUME ConcurrentRunsAssumption, Init
    PROVE  RunsInv
<1>1. /\ seed \in Seeds /\ build \in Builds /\ pc = [r \in Runs |-> "idle"] /\ cloned = {}
      /\ result = [r \in Runs |-> "none"] /\ cg = Absent /\ procs = {} /\ putOld = FALSE
      /\ private = [r \in Runs |-> FALSE] /\ root = [r \in Runs |-> "host"]
      /\ oldRoot = [r \in Runs |-> FALSE] /\ mounted = [r \in Runs |-> 0] /\ hostMounts = {}
      /\ orphan = [r \in Runs |-> FALSE] /\ overlap = [r \in Runs |-> FALSE]
      /\ faulted = [r \in Runs |-> FALSE] /\ faults = 0
  BY DEF Init
<1>2. /\ cg.exists = FALSE
      /\ cg \in [exists : BOOLEAN, cpu : Int, memory : Int \cup {None}, pids : Int \cup {None}]
  <2>1. Fresh \in [exists : BOOLEAN, cpu : Int, memory : Int \cup {None}, pids : Int \cup {None}]
    BY DEF Fresh
  <2>2. QED BY <1>1, <2>1 DEF Absent
<1>3. \A r \in Runs : pc[r] = "idle" BY <1>1
<1>4. TypeOK
  <2>1. pc \in [Runs -> Points] BY <1>1 DEF Points
  <2>2. faults \in 0..MaxFaults /\ mounted \in [Runs -> Nat] BY <1>1 DEF ConcurrentRunsAssumption
  <2>3. QED BY <1>1, <1>2, <2>1, <2>2 DEF TypeOK
<1>5. MountInv /\ Confined BY <1>1, <1>3 DEF MountInv, Confined, InChild
<1>6. CgroupInv BY <1>1, <1>2, <1>3 DEF CgroupInv, UsesCgroup
<1>7. AloneInv BY <1>3 DEF AloneInv, Active, UsesCgroup
<1>8. LimitsInv BY <1>2, <1>3 DEF LimitsInv, FreshOrDeclared, Written, UsesCgroup
<1>9. LimitsAsDeclared /\ LeftoversAreHarmless /\ LastRunRemovesCgroup
  BY <1>1, <1>2 DEF LimitsAsDeclared, LeftoversAreHarmless, LastRunRemovesCgroup
<1>10. QED BY <1>4, <1>5, <1>6, <1>7, <1>8, <1>9 DEF RunsInv

\* A step that changes nothing keeps it.
LEMMA RunsInvSame ==
    ASSUME RunsInv, InputsSame, AllSame
    PROVE  RunsInv'
<1> USE DEF AllSame, MntSame, HistSame, InputsSame, RunsInv
<1>1. TypeOK' BY DEF TypeOK
<1>2. MountInv' /\ Confined' BY DEF MountInv, Confined
<1>3. CgroupInv' BY InputFacts DEF CgroupInv, UsesCgroup
<1>4. AloneInv' BY InputFacts DEF AloneInv, Active, UsesCgroup
<1>5. LimitsInv'
  BY InputFacts DEF LimitsInv, FreshOrDeclared, Written, UsesCgroup, AtMostTwo, Started
<1>6. LimitsAsDeclared' BY InputFacts DEF LimitsAsDeclared, AtMostTwo, Started
<1>7. LeftoversAreHarmless' BY InputFacts DEF LeftoversAreHarmless
<1>8. LastRunRemovesCgroup' BY DEF LastRunRemovesCgroup
<1>9. QED BY <1>1, <1>2, <1>3, <1>4, <1>5, <1>6, <1>7, <1>8

\* Every step of a run keeps it.
LEMMA RunsInvStep ==
    ASSUME ConcurrentRunsAssumption, RunsInv, InputsSame, NEW r \in Runs, RunStep(r)
    PROVE  RunsInv'
<1> USE DEF RunsInv
<1>1. TypeOK' BY TypeStep
<1>2. MountInv' /\ hostMounts' = {} BY MountStep DEF Confined
<1>3. Confined' BY <1>2 DEF Confined, MountInv
<1>4. CgroupInv' BY CgroupStep
<1>5. AloneInv' BY AloneStep
<1>6. LeftoversAreHarmless' BY BlameStep
<1>7. LastRunRemovesCgroup' BY LastStep
<1>8. \A o \in Runs : GoneBy(o) BY DEF LimitsInv, GoneBy
<1>9. Fits' <=> Fits BY InputFacts DEF Fits, InputsSame
<1>10. LimitsInv'
  <2>1. \A q \in Runs : GoneBy(q)' BY <1>8, GoneStep
  <2>2. Fits => FreshOrDeclared' BY FreshStep DEF LimitsInv, Fits
  <2>3. ASSUME Fits, AtMostTwo' PROVE \A q \in Runs : Written(q)'
    <3>1. AtMostTwo BY <2>3, TwoBefore
    <3>2. FreshOrDeclared /\ \A o \in Runs : Written(o) BY <2>3, <3>1 DEF LimitsInv, Fits
    <3>3. QED BY <1>8, <2>3, <3>1, <3>2, WrittenStep
  <2>4. QED BY <1>9, <2>1, <2>2, <2>3 DEF LimitsInv, GoneBy, Fits
<1>11. LimitsAsDeclared'
  <2>1. ASSUME Fits, AtMostTwo', NEW q \in procs' PROVE cg' = Declared
    <3>1. AtMostTwo BY <2>1, TwoBefore
    <3>2. (\A o \in Runs : Written(o)) /\ \A o \in procs : cg = Declared
      BY <2>1, <3>1 DEF LimitsInv, LimitsAsDeclared, Fits
    <3>3. QED BY <2>1, <3>2, MemberStep
  <2>2. Declared' = Declared BY InputFacts
  <2>3. QED BY <1>9, <2>1, <2>2 DEF LimitsAsDeclared, Fits
<1>12. QED BY <1>1, <1>2, <1>3, <1>4, <1>5, <1>6, <1>7, <1>10, <1>11

\* The inductive invariant of the runs of one Seed, for any number of them.
THEOREM RunsInvCorrect == Spec => []RunsInv
<1>1. Init => RunsInv BY RunsInvInit, ConcurrentRunsAssumption
<1>2. RunsInv /\ [Next]_vars => RunsInv'
  <2>1. ASSUME RunsInv, [Next]_vars PROVE RunsInv'
    <3>1. InputsSame /\ (AllSame \/ \E r \in Runs : RunStep(r))
      BY <2>1, NextCases, ConcurrentRunsAssumption DEF RunsInv
    <3>2. QED BY <2>1, <3>1, RunsInvSame, RunsInvStep, ConcurrentRunsAssumption
  <2>2. QED BY <2>1
<1>3. QED BY <1>1, <1>2, PTL DEF Spec

\* An exec'ed workload lives in its own root, and no mount of any run reaches the
\* host, whatever the runs do to each other's .old_root.
THEOREM ConfinedCorrect == Spec => []Confined
<1>1. RunsInv => Confined BY DEF RunsInv
<1>2. QED BY <1>1, RunsInvCorrect, PTL

\* With at most two runs started, a released workload is in a cgroup with the
\* declared limits.
THEOREM LimitsCorrect == Spec => []LimitsAsDeclared
<1>1. RunsInv => LimitsAsDeclared BY DEF RunsInv
<1>2. QED BY <1>1, RunsInvCorrect, PTL

\* A run fails only for a reason of its own, never because of what was left behind.
THEOREM LeftoversCorrect == Spec => []LeftoversAreHarmless
<1>1. RunsInv => LeftoversAreHarmless BY DEF RunsInv
<1>2. QED BY <1>1, RunsInvCorrect, PTL

\* When every run has been cloned and has ended without a kill, the cgroup is gone.
THEOREM LastRunCorrect == Spec => []LastRunRemovesCgroup
<1>1. RunsInv => LastRunRemovesCgroup BY DEF RunsInv
<1>2. QED BY <1>1, RunsInvCorrect, PTL
=============================================================================
