---------------------------- MODULE VolumesProofs ----------------------------
(***************************************************************************)
(* Proofs about Volumes: its inductive invariant, that a secret stays in    *)
(* memory, that a detach is complete, and that neither an emptyDir nor a    *)
(* named volume loses what was written to it.                               *)
(***************************************************************************)
EXTENDS Volumes, SequenceTheorems, TLAPS

-----------------------------------------------------------------------------
(* What a step can do to the directories and the mounts on them *)

NewMount == [mode |-> "1777", files |-> {}]

Keeps == disk' = disk /\ tmpfs' = tmpfs
AddsDir(p) == disk' = WithDir(p) /\ tmpfs' = tmpfs
AddsMount(p) == disk' = disk /\ tmpfs' = [tmpfs EXCEPT ![p] = Append(tmpfs[p], NewMount)]
Replaces(p, mount) ==
    disk' = disk /\ tmpfs' = [tmpfs EXCEPT ![p] = [tmpfs[p] EXCEPT ![Len(tmpfs[p])] = mount]]
WritesDisk(p, files) ==
    tmpfs' = tmpfs /\ disk' = [q \in DOMAIN disk \cup {p} |-> IF q = p THEN files ELSE disk[q]]
Unmounts(p) == disk' = disk /\ tmpfs' = [tmpfs EXCEPT ![p] = SubSeq(tmpfs[p], 1, Len(tmpfs[p]) - 1)]
RemovesDir(p) == tmpfs' = tmpfs /\ disk' = [q \in DOMAIN disk \ {p} |-> disk[q]]

\* A change of the visible files of p to `files`.
Changes(p, files) ==
    IF tmpfs[p] # <<>> THEN Replaces(p, [Top(p) EXCEPT !.files = files]) ELSE WritesDisk(p, files)

\* A call in progress is an attach or a detach.
LEMMA IdleCall ==
    Idle.call = "none" /\ Idle.at = "idle"
BY DEF Idle

\* The visible files of a directory are files.
LEMMA VisibleFiles ==
    ASSUME VTypeOK, NEW p \in Paths
    PROVE  /\ Visible(p) \subseteq Files
           /\ tmpfs[p] # <<>> => /\ Len(tmpfs[p]) \in 1..Len(tmpfs[p])
                                  /\ Top(p) \in Mounts
<1>1. tmpfs[p] \in Seq(Mounts)
  BY DEF VTypeOK
<1>2. CASE tmpfs[p] = <<>>
  BY <1>2 DEF Visible, VTypeOK
<1>3. CASE tmpfs[p] # <<>>
  <2>1. Len(tmpfs[p]) \in 1..Len(tmpfs[p]) /\ Top(p) \in Mounts
    BY <1>1, <1>3 DEF Top
  <2>2. QED BY <2>1, <1>3 DEF Visible, Mounts
<1>4. QED BY <1>2, <1>3

\* The directory of a call on a volume that has one is a path of the manifest.
LEMMA HereIsPath ==
    ASSUME VTypeOK, OpInv, op # Idle, op.at \in AttachSteps \cup DetachSteps
    PROVE  Here \in Paths /\ op.vol \in volumes /\ HasDirectory(op.vol)
BY DEF VTypeOK, OpInv, Here, Paths

\* Writing an item puts a file of that key into the directory and leaves the
\* files of other keys.
LEMMA WriteChanges ==
    ASSUME VTypeOK, OpInv, VolumesAssumption, WriteItem
    PROVE  \E files \in SUBSET Files :
              /\ Changes(Here, files)
              /\ \A f \in files : f \in Visible(Here) \/ f.content = Content(op.vol)
<1>1. op # Idle /\ op.at = "write" /\ op.i \in 1..Len(op.keys) /\ op.keys \in Seq(Keys)
  <2>1. op.call = "attach" /\ op.at = "write" /\ op.i <= Len(op.keys)
    BY DEF WriteItem, At
  <2>2. op # Idle
    BY <2>1, IdleCall
  <2>3. op.i \in Nat \ {0} /\ op.keys \in Seq(Keys)
    BY <2>2 DEF VTypeOK
  <2>4. QED BY <2>1, <2>2, <2>3
<1>2. Here \in Paths /\ op.vol \in volumes /\ HasDirectory(op.vol)
  BY <1>1, HereIsPath DEF AttachSteps
<1>3. op.keys[op.i] \in Keys
  BY <1>1
<1>4. Visible(Here) \subseteq Files
  BY <1>2, VisibleFiles
<1>5. Content(op.vol) \in Secrets \cup {"config", "data"}
  BY <1>2 DEF Content, VolumesAssumption, VTypeOK, HasDirectory, Kinds
<1> DEFINE k == op.keys[op.i]
           files == Visible(Here)
           new == {f \in files : f.key # k} \cup
                         {File(k, Content(op.vol),
                               IF \E f \in files : f.key = k
                               THEN (CHOOSE f \in files : f.key = k).mode ELSE "0644")}
<1>6. new \subseteq Files
  <2>1. (IF \E f \in files : f.key = k
         THEN (CHOOSE f \in files : f.key = k).mode ELSE "0644") \in {"0644", "0444", "0400"}
    BY <1>4 DEF Files
  <2>2. QED BY <2>1, <1>3, <1>4, <1>5 DEF Files, File
<1>7. Changes(Here, new)
  <2>1. CASE tmpfs[Here] # <<>>
    BY <2>1, <1>2 DEF WriteItem, ChangeFiles, Changes, Replaces, Visible, Top
  <2>2. CASE tmpfs[Here] = <<>>
    <3>1. tmpfs' = tmpfs /\ disk' = [WithDir(Here) EXCEPT ![Here] = new]
      <4>1. WithDir(Here)[Here] = Visible(Here)
        BY <2>2 DEF WithDir, Visible
      <4>2. QED BY <4>1, <2>2 DEF WriteItem, ChangeFiles
    <3>2. QED BY <3>1, <2>2 DEF Changes, WritesDisk, WithDir
  <2>3. QED BY <2>1, <2>2
<1>8. \A f \in new : f \in Visible(Here) \/ f.content = Content(op.vol)
  BY DEF File
<1>9. QED BY <1>6, <1>7, <1>8

\* Without a mount the files of a directory are those on disk.
LEMMA DiskChanges ==
    ASSUME NEW p, tmpfs[p] = <<>>
    PROVE  /\ WithDir(p)[p] = Visible(p)
           /\ \A files : tmpfs' = tmpfs /\ disk' = [WithDir(p) EXCEPT ![p] = files]
                            => Changes(p, files)
<1>1. WithDir(p)[p] = Visible(p)
  BY DEF WithDir, Visible
<1>2. \A files : [WithDir(p) EXCEPT ![p] = files]
                   = [q \in DOMAIN disk \cup {p} |-> IF q = p THEN files ELSE disk[q]]
  BY DEF WithDir
<1>3. QED BY <1>1, <1>2 DEF Changes, WritesDisk

\* Setting permissions leaves what the files hold.
LEMMA PermissionsChange ==
    ASSUME VTypeOK, OpInv, SetPermissions
    PROVE  \E files \in SUBSET Files :
              /\ Changes(Here, files)
              /\ \A f \in files : \E g \in Visible(Here) : f.content = g.content
<1>1. op # Idle /\ op.at = "perms"
  BY IdleCall DEF SetPermissions, At
<1>2. Here \in Paths
  BY <1>1, HereIsPath DEF AttachSteps
<1>3. Visible(Here) \subseteq Files
  BY <1>2, VisibleFiles
<1> DEFINE k == op.keys[op.i]
           mode == IF op.vol.kind = "secret" THEN "0400" ELSE "0444"
           new == {IF f.key = k THEN [f EXCEPT !.mode = mode] ELSE f : f \in Visible(Here)}
<1>4. \A f \in Files : [f EXCEPT !.mode = mode] \in Files /\ [f EXCEPT !.mode = mode].content = f.content
  BY DEF Files
<1>5. new \subseteq Files /\ \A f \in new : \E g \in Visible(Here) : f.content = g.content
  BY <1>3, <1>4
<1>6. Changes(Here, new)
  <2>1. CASE tmpfs[Here] # <<>>
    BY <2>1, <1>2 DEF SetPermissions, ChangeFiles, Changes, Replaces, Visible, Top
  <2>2. CASE tmpfs[Here] = <<>>
    BY <2>2, DiskChanges DEF SetPermissions, ChangeFiles
  <2>3. QED BY <2>1, <2>2
<1>7. QED BY <1>5, <1>6

\* What the container writes is added to the files of its emptyDir.
LEMMA OwnChanges ==
    ASSUME VTypeOK, NEW v \in volumes, v.kind = "emptyDir",
           ChangeFiles(get_emptydir_path(v),
                       LAMBDA files : files \cup {File("own", "data", "0644")})
    PROVE  LET p == get_emptydir_path(v)
               new == Visible(p) \cup {File("own", "data", "0644")}
           IN p \in Paths /\ new \in SUBSET Files /\ Changes(p, new)
<1> DEFINE p == get_emptydir_path(v)
           new == Visible(p) \cup {File("own", "data", "0644")}
<1>1. p \in Paths
  BY DEF Paths, HasDirectory
<1>2. new \in SUBSET Files
  <2>1. File("own", "data", "0644") \in Files
    BY DEF Files, File
  <2>2. Visible(p) \subseteq Files
    BY <1>1, VisibleFiles
  <2>3. QED BY <2>1, <2>2
<1>3. CASE tmpfs[p] # <<>>
  BY <1>3, <1>1, <1>2 DEF ChangeFiles, Changes, Replaces, Visible, Top
<1>4. CASE tmpfs[p] = <<>>
  BY <1>4, <1>1, <1>2, DiskChanges DEF ChangeFiles
<1>5. QED BY <1>1, <1>2, <1>3, <1>4

-----------------------------------------------------------------------------
(* Every step does one of these things to the directories *)

Exposed(m) == m.mode # "0700" /\ \E f \in m.files : IsSecret(f)

Effect(p) ==
    \/ AddsDir(p)
    \/ p \in DOMAIN disk /\ AddsMount(p)
    \/ tmpfs[p] # <<>> /\ \E m \in Mounts : ~Exposed(m) /\ Replaces(p, m)
    \/ /\ p \in DOMAIN disk /\ tmpfs[p] = <<>>
       /\ \E files \in SUBSET Files : (\A f \in files : ~IsSecret(f)) /\ WritesDisk(p, files)
    \/ tmpfs[p] # <<>> /\ Unmounts(p)
    \/ tmpfs[p] = <<>> /\ RemovesDir(p)

\* A change of a directory's files that brings no secret to a place it may not be.
LEMMA SafeChange ==
    ASSUME VTypeOK, SecretsStayInMemory, NEW p \in Paths, p \in DOMAIN disk,
           NEW files \in SUBSET Files, Changes(p, files),
           (\E f \in files : IsSecret(f)) =>
                \/ \E g \in Visible(p) : IsSecret(g)
                \/ tmpfs[p] # <<>> /\ Top(p).mode = "0700"
    PROVE  Effect(p)
<1>1. CASE tmpfs[p] # <<>>
  <2> DEFINE m == [Top(p) EXCEPT !.files = files]
  <2>1. Len(tmpfs[p]) \in 1..Len(tmpfs[p]) /\ Top(p) \in Mounts
    BY <1>1, VisibleFiles
  <2>2. m \in Mounts /\ m.mode = Top(p).mode /\ m.files = files
    BY <2>1 DEF Mounts
  <2>3. (\E g \in Visible(p) : IsSecret(g)) => Top(p).mode = "0700"
    <3>1. Len(tmpfs[p]) \in DOMAIN tmpfs[p]
      BY <2>1 DEF VTypeOK
    <3>2. QED BY <3>1, <1>1 DEF SecretsStayInMemory, Top, Visible
  <2>4. ~Exposed(m)
    BY <2>2, <2>3 DEF Exposed
  <2>5. QED BY <1>1, <2>2, <2>4 DEF Effect, Changes
<1>2. CASE tmpfs[p] = <<>>
  <2>1. \A g \in Visible(p) : ~IsSecret(g)
    BY <1>2 DEF Visible, SecretsStayInMemory
  <2>2. QED BY <1>2, <2>1 DEF Effect, Changes
<1>3. QED BY <1>1, <1>2

\* An attach step in progress: what every proof about one starts from.
LEMMA AttachStep ==
    ASSUME VTypeOK, OpInv, NEW at \in AttachSteps, At("attach", at)
    PROVE  /\ op # Idle /\ op.at = at /\ Here \in Paths
           /\ op.vol \in volumes /\ HasDirectory(op.vol)
           /\ at # "mkdir" => Here \in DOMAIN disk
<1>1. op # Idle /\ op.at = at
  BY IdleCall DEF At
<1>2. QED BY <1>1, HereIsPath DEF OpInv, AttachSteps

\* The same for a detach step.
LEMMA DetachStep ==
    ASSUME VTypeOK, OpInv, NEW at \in DetachSteps, At("detach", at)
    PROVE  /\ op # Idle /\ op.at = at /\ Here \in Paths
           /\ op.vol \in volumes /\ HasDirectory(op.vol)
<1>1. op # Idle /\ op.at = at
  BY IdleCall DEF At
<1>2. QED BY <1>1, HereIsPath DEF OpInv, DetachSteps

\* The steps of an attach.
LEMMA AttachEffect ==
    ASSUME VolumesAssumption, VolumesInv, Attaching
    PROVE  Keeps \/ (Effect(Here) /\ Here \in Paths /\ HasDirectory(op.vol))
<1> USE DEF VolumesInv
<1>1. CASE ValidateHostpath \/ EnsureNamedVolume \/ LoadSecret \/ ItemsDone
  <2>1. CASE ValidateHostpath BY <2>1 DEF ValidateHostpath, ReturnsAt, fsVars, Keeps
  <2>2. CASE EnsureNamedVolume BY <2>2 DEF EnsureNamedVolume, Keeps
  <2>3. CASE LoadSecret BY <2>3 DEF LoadSecret, fsVars, Keeps
  <2>4. CASE ItemsDone BY <2>4 DEF ItemsDone, fsVars, Keeps
  <2>5. QED BY <1>1, <2>1, <2>2, <2>3, <2>4
<1>2. CASE CreateDir
  <2>1. Here \in Paths /\ HasDirectory(op.vol) BY <1>2, AttachStep DEF CreateDir, AttachSteps
  <2>2. QED BY <1>2, <2>1 DEF CreateDir, Effect, AddsDir
<1>3. CASE MountTmpfs
  <2>1. Here \in Paths /\ HasDirectory(op.vol) /\ Here \in DOMAIN disk
    BY <1>3, AttachStep DEF MountTmpfs, AttachSteps
  <2>2. disk' = disk BY <1>3 DEF MountTmpfs
  <2>3. CASE BadSize BY <1>3, <2>2, <2>3 DEF MountTmpfs, Keeps
  <2>4. CASE ~BadSize
    <3>1. tmpfs' = [tmpfs EXCEPT ![Here] = Append(@, [mode |-> "1777", files |-> {}])]
      BY <1>3, <2>4 DEF MountTmpfs
    <3>2. AddsMount(Here) BY <2>2, <3>1 DEF AddsMount, NewMount
    <3>3. QED BY <2>1, <3>2 DEF Effect
  <2>5. QED BY <2>3, <2>4
<1>4. CASE RestrictDir
  <2> DEFINE m == [Top(Here) EXCEPT !.mode = "0700"]
  <2>1. Here \in Paths /\ HasDirectory(op.vol) /\ op # Idle /\ op.at = "chmod"
    BY <1>4, AttachStep DEF RestrictDir, AttachSteps
  <2>2. tmpfs[Here] # <<>>
    BY <2>1 DEF OpInv
  <2>3. m \in Mounts /\ m.mode = "0700"
    BY <2>1, <2>2, VisibleFiles DEF Mounts
  <2>4. Replaces(Here, m)
    BY <1>4 DEF RestrictDir, Replaces, Top
  <2>5. QED BY <2>1, <2>2, <2>3, <2>4 DEF Effect, Exposed
<1>5. CASE WriteItem
  <2>1. /\ Here \in Paths /\ Here \in DOMAIN disk /\ op # Idle /\ op.at = "write"
        /\ op.vol \in volumes /\ HasDirectory(op.vol)
    BY <1>5, AttachStep DEF WriteItem, AttachSteps
  <2>2. PICK files \in SUBSET Files :
              /\ Changes(Here, files)
              /\ \A f \in files : f \in Visible(Here) \/ f.content = Content(op.vol)
    BY <1>5, WriteChanges
  <2>3. op.vol.kind = "secret" => tmpfs[Here] # <<>> /\ Top(Here).mode = "0700"
    BY <2>1 DEF OpInv
  <2>4. op.vol.kind # "secret" => Content(op.vol) \notin Secrets
    BY DEF Content, VolumesAssumption
  <2>5. QED BY <2>1, <2>2, <2>3, <2>4, SafeChange DEF IsSecret
<1>6. CASE SetPermissions
  <2>1. Here \in Paths /\ HasDirectory(op.vol) /\ Here \in DOMAIN disk
    BY <1>6, AttachStep DEF SetPermissions, AttachSteps
  <2>2. PICK files \in SUBSET Files :
              /\ Changes(Here, files)
              /\ \A f \in files : \E g \in Visible(Here) : f.content = g.content
    BY <1>6, PermissionsChange
  <2>3. QED BY <2>1, <2>2, SafeChange DEF IsSecret
<1>7. QED BY <1>1, <1>2, <1>3, <1>4, <1>5, <1>6 DEF Attaching

\* The steps of a detach.
LEMMA DetachEffect ==
    ASSUME VolumesInv, Detaching
    PROVE  Keeps \/ (Effect(Here) /\ Here \in Paths /\ HasDirectory(op.vol))
<1> USE DEF VolumesInv
<1>1. CASE NothingToDetach
  BY <1>1 DEF NothingToDetach, ReturnsAt, fsVars, Keeps
<1>2. CASE CleanupExists
  BY <1>2 DEF CleanupExists, fsVars, Keeps
<1>3. CASE UmountFails
  BY <1>3 DEF UmountFails, fsVars, Keeps
<1>4. CASE UnmountIfMounted
  <2>1. Here \in Paths /\ HasDirectory(op.vol) BY <1>4, DetachStep DEF UnmountIfMounted, DetachSteps
  <2>2. CASE tmpfs[Here] = <<>> BY <1>4, <2>2 DEF UnmountIfMounted, Keeps
  <2>3. CASE tmpfs[Here] # <<>>
    <3>1. Unmounts(Here) BY <1>4, <2>3 DEF UnmountIfMounted, Unmounts
    <3>2. QED BY <2>1, <2>3, <3>1 DEF Effect
  <2>4. QED BY <2>2, <2>3
<1>5. CASE RemoveDir
  <2>1. Here \in Paths /\ HasDirectory(op.vol)
    BY <1>5, DetachStep DEF RemoveDir, DetachSteps, At
  <2>2. CASE tmpfs[Here] = <<>> BY <1>5, <2>1, <2>2 DEF RemoveDir, Effect, RemovesDir
  <2>3. CASE tmpfs[Here] # <<>>
    <3>1. Changes(Here, {})
      BY <1>5, <2>1, <2>3 DEF RemoveDir, ChangeFiles, Changes, Replaces, Top
    <3>2. QED BY <2>1, <2>3, <3>1, SafeChange DEF MountedExists
  <2>4. QED BY <2>2, <2>3
<1>6. QED BY <1>1, <1>2, <1>3, <1>4, <1>5 DEF Detaching

\* Every step of the system, and which directory it can be about.
LEMMA StepEffect ==
    ASSUME VolumesAssumption, VolumesInv, VNext
    PROVE  \/ Keeps
           \/ op # Idle /\ HasDirectory(op.vol) /\ Here \in Paths /\ Effect(Here)
           \/ /\ op = Idle
              /\ \E v \in attached : /\ ContainerWrites(v) /\ v.kind = "emptyDir"
                                     /\ get_emptydir_path(v) \in Paths
                                     /\ Effect(get_emptydir_path(v))
<1> USE DEF VolumesInv
<1>1. ASSUME NEW v \in volumes, attach_volume(v) \/ detach_volume(v) PROVE Keeps
  BY <1>1 DEF attach_volume, detach_volume, Call, fsVars, Keeps
<1>2. ASSUME NEW v \in volumes, ContainerWrites(v)
      PROVE  Keeps \/ /\ op = Idle /\ v \in attached /\ v.kind = "emptyDir"
                      /\ get_emptydir_path(v) \in Paths /\ Effect(get_emptydir_path(v))
  <2> DEFINE p == get_emptydir_path(v)
  <2>1. op = Idle /\ v \in attached
    BY <1>2 DEF ContainerWrites
  <2>2. CASE /\ v.kind = "emptyDir" /\ p \in DOMAIN disk
             /\ ChangeFiles(p, LAMBDA files : files \cup {File("own", "data", "0644")})
    <3> DEFINE new == Visible(p) \cup {File("own", "data", "0644")}
    <3>1. p \in Paths /\ new \in SUBSET Files /\ Changes(p, new)
      BY <2>2, OwnChanges
    <3>2. ~IsSecret(File("own", "data", "0644"))
      BY DEF IsSecret, File, VolumesAssumption
    <3>3. QED BY <3>1, <3>2, <2>1, <2>2, SafeChange
  <2>3. CASE UNCHANGED <<disk, tmpfs>> BY <2>3 DEF Keeps
  <2>4. QED BY <1>2, <2>2, <2>3 DEF ContainerWrites
<1>3. CASE BadRef BY <1>3 DEF BadRef, ReturnsAt, fsVars, Keeps
<1>4. CASE Attaching
  <2>1. op # Idle
    BY <1>4, IdleCall DEF Attaching, ValidateHostpath, ReturnsAt, EnsureNamedVolume, CreateDir,
       MountTmpfs, RestrictDir, LoadSecret, WriteItem, SetPermissions, ItemsDone, At
  <2>2. QED BY <1>4, <2>1, AttachEffect
<1>5. CASE Detaching
  <2>1. op # Idle
    BY <1>5, IdleCall DEF Detaching, NothingToDetach, ReturnsAt, CleanupExists, UnmountIfMounted,
       UmountFails, RemoveDir, At
  <2>2. QED BY <1>5, <2>1, DetachEffect
<1>6. CASE CallFails BY <1>6 DEF CallFails, fsVars, Keeps
<1>7. CASE Commands
  BY <1>7 DEF Commands, delete_secret, create_secret_from_literal, cmd_volume_create,
     cmd_volume_remove, fsVars, Keeps
<1>8. QED BY <1>1, <1>2, <1>3, <1>4, <1>5, <1>6, <1>7 DEF VNext

-----------------------------------------------------------------------------
(* The directories and mounts stay well formed *)

FsInv ==
    /\ DOMAIN disk \subseteq Paths /\ \A p \in DOMAIN disk : disk[p] \subseteq Files
    /\ DOMAIN tmpfs = Paths
    /\ \A p \in Paths : tmpfs[p] \in Seq(Mounts)
    /\ MountedExists /\ SecretsStayInMemory

\* What has been secret about one directory's mounts.
Hidden(mounts) == \A i \in DOMAIN mounts : ~Exposed(mounts[i])

\* The part of FsInv about the mounts of p.
MountsOK(mounts) == mounts \in Seq(Mounts) /\ Hidden(mounts)

\* The invariant, directory by directory.
LEMMA FsInvParts ==
    FsInv <=> /\ DOMAIN disk \subseteq Paths /\ DOMAIN tmpfs = Paths
              /\ \A p \in DOMAIN disk : disk[p] \subseteq Files /\ \A f \in disk[p] : ~IsSecret(f)
              /\ \A p \in Paths : MountsOK(tmpfs[p]) /\ (tmpfs[p] # <<>> => p \in DOMAIN disk)
BY DEF FsInv, MountedExists, SecretsStayInMemory, MountsOK, Hidden, Exposed

\* The changes a step can make to a stack of mounts keep it well formed.
LEMMA MountsChange ==
    ASSUME NEW mounts, MountsOK(mounts)
    PROVE  /\ MountsOK(Append(mounts, NewMount))
           /\ mounts # <<>> => MountsOK(SubSeq(mounts, 1, Len(mounts) - 1))
           /\ \A m \in Mounts : mounts # <<>> /\ ~Exposed(m) =>
                                   MountsOK([mounts EXCEPT ![Len(mounts)] = m])
<1>1. mounts \in Seq(Mounts) /\ \A i \in 1..Len(mounts) : ~Exposed(mounts[i])
  BY DEF MountsOK, Hidden
<1>2. NewMount \in Mounts /\ ~Exposed(NewMount)
  BY DEF NewMount, Mounts, Exposed
<1>3. MountsOK(Append(mounts, NewMount))
  <2>1. Append(mounts, NewMount) \in Seq(Mounts) /\ Len(Append(mounts, NewMount)) = Len(mounts) + 1
    BY <1>1, <1>2
  <2>2. \A i \in 1..Len(mounts) + 1 : ~Exposed(Append(mounts, NewMount)[i])
    BY <1>1, <1>2
  <2>3. QED BY <2>1, <2>2 DEF MountsOK, Hidden
<1>4. ASSUME mounts # <<>> PROVE MountsOK(SubSeq(mounts, 1, Len(mounts) - 1))
  <2> DEFINE n == Len(mounts) - 1
             s == SubSeq(mounts, 1, n)
  <2>1. s \in Seq(Mounts) /\ Len(s) = n /\ \A i \in 1..n : s[i] = mounts[i]
    <3>1. n \in Nat /\ \A i \in 1..n : mounts[i] \in Mounts
      BY <1>1, <1>4
    <3> HIDE DEF n
    <3>2. /\ s \in Seq(Mounts) /\ Len(s) = IF 1 <= n THEN n - 1 + 1 ELSE 0
          /\ \A i \in 1..n - 1 + 1 : s[i] = mounts[1 + i - 1]
      BY <3>1, SubSeqProperties
    <3> HIDE DEF s
    <3>3. QED BY <3>1, <3>2
  <2>2. QED BY <1>1, <2>1 DEF MountsOK, Hidden
<1>5. ASSUME NEW m \in Mounts, mounts # <<>>, ~Exposed(m)
      PROVE  MountsOK([mounts EXCEPT ![Len(mounts)] = m])
  <2> DEFINE s == [mounts EXCEPT ![Len(mounts)] = m]
  <2>1. s \in Seq(Mounts) /\ Len(s) = Len(mounts)
    BY <1>1, <1>5
  <2>2. \A i \in 1..Len(s) : s[i] = IF i = Len(mounts) THEN m ELSE mounts[i]
    BY <1>1, <1>5
  <2>3. QED BY <1>1, <1>5, <2>1, <2>2 DEF MountsOK, Hidden
<1>6. QED BY <1>3, <1>4, <1>5

\* A step that does one of these things keeps the invariant.
LEMMA EffectKeeps ==
    ASSUME FsInv, NEW p \in Paths, Effect(p), volumes' = volumes
    PROVE  FsInv'
<1> DEFINE Disk == /\ DOMAIN disk \subseteq Paths
                   /\ \A q \in DOMAIN disk : disk[q] \subseteq Files /\ \A f \in disk[q] : ~IsSecret(f)
<1>1. /\ Disk /\ DOMAIN tmpfs = Paths
      /\ \A q \in Paths : MountsOK(tmpfs[q]) /\ (tmpfs[q] # <<>> => q \in DOMAIN disk)
  BY FsInvParts
<1>2. Paths' = Paths
  BY DEF Paths
<1>3. SUFFICES /\ Disk' /\ DOMAIN tmpfs' = Paths
               /\ \A q \in Paths : MountsOK(tmpfs'[q]) /\ (tmpfs'[q] # <<>> => q \in DOMAIN disk')
  BY <1>2 DEF FsInv, MountedExists, SecretsStayInMemory, MountsOK, Hidden, Exposed, IsSecret
<1>5. CASE AddsDir(p)
  BY <1>1, <1>2, <1>5 DEF AddsDir, WithDir
<1>6. CASE p \in DOMAIN disk /\ AddsMount(p)
  <2>1. MountsOK(Append(tmpfs[p], NewMount))
    BY <1>1, MountsChange
  <2>2. QED BY <1>1, <1>2, <1>6, <2>1 DEF AddsMount
<1>7. ASSUME NEW m \in Mounts, tmpfs[p] # <<>>, ~Exposed(m), Replaces(p, m)
      PROVE  /\ Disk' /\ DOMAIN tmpfs' = Paths
             /\ \A q \in Paths : MountsOK(tmpfs'[q]) /\ (tmpfs'[q] # <<>> => q \in DOMAIN disk')
  <2>1. MountsOK([tmpfs[p] EXCEPT ![Len(tmpfs[p])] = m])
    BY <1>1, <1>7, MountsChange
  <2>2. p \in DOMAIN disk
    BY <1>1, <1>7 DEF MountsOK
  <2>3. QED BY <1>1, <1>2, <1>7, <2>1, <2>2 DEF Replaces
<1>8. ASSUME p \in DOMAIN disk, NEW files \in SUBSET Files, \A f \in files : ~IsSecret(f),
             WritesDisk(p, files)
      PROVE  /\ Disk' /\ DOMAIN tmpfs' = Paths
             /\ \A q \in Paths : MountsOK(tmpfs'[q]) /\ (tmpfs'[q] # <<>> => q \in DOMAIN disk')
  BY <1>1, <1>2, <1>8 DEF WritesDisk
<1>9. CASE tmpfs[p] # <<>> /\ Unmounts(p)
  <2>1. MountsOK(SubSeq(tmpfs[p], 1, Len(tmpfs[p]) - 1))
    BY <1>1, <1>9, MountsChange
  <2>2. p \in DOMAIN disk
    BY <1>1, <1>9 DEF MountsOK
  <2>3. QED BY <1>1, <1>2, <1>9, <2>1, <2>2 DEF Unmounts
<1>10. CASE tmpfs[p] = <<>> /\ RemovesDir(p)
  <2>2. \A q \in Paths : q # p => (q \in DOMAIN disk' <=> q \in DOMAIN disk)
    BY <1>10 DEF RemovesDir
  <2>3. \A q \in Paths : MountsOK(tmpfs'[q]) /\ (tmpfs'[q] # <<>> => q \in DOMAIN disk')
    BY <1>1, <1>10, <2>2 DEF RemovesDir
  <2>4. QED BY <1>1, <1>2, <1>10, <2>3 DEF RemovesDir
<1>11. QED BY <1>5, <1>6, <1>7, <1>8, <1>9, <1>10 DEF Effect

\* So does every step of the system.
LEMMA FsStep ==
    ASSUME VolumesAssumption, VolumesInv, VNext
    PROVE  FsInv'
<1>1. FsInv
  BY DEF VolumesInv, VTypeOK, FsInv
<1>2. volumes' = volumes
  BY DEF VNext
<1>3. CASE Keeps
  BY <1>1, <1>2, <1>3 DEF Keeps, FsInv, MountedExists, SecretsStayInMemory, Paths
<1>4. ASSUME NEW p \in Paths, Effect(p) PROVE FsInv'
  BY <1>1, <1>2, <1>4, EffectKeeps
<1>5. QED BY <1>3, <1>4, StepEffect

-----------------------------------------------------------------------------
(* The call in progress *)

\* The operation is idle, or a call with one of these statements next.
OpType ==
    op = Idle \/ op \in [call : {"attach", "detach"}, vol : volumes,
                         at : AttachSteps \cup DetachSteps \cup OtherSteps,
                         i : Nat \ {0}, keys : Seq(Keys), depth : Nat]

DoneType == done.call # "none" => done.vol \in volumes

Control ==
    /\ DOMAIN named \subseteq NamedVolumes
    /\ DOMAIN keystore \subseteq Secrets /\ \A r \in DOMAIN keystore : keystore[r] \in Seq(Keys)
    /\ OpType
    /\ attached \subseteq volumes /\ DoneType
    /\ calls \in 0..MaxCalls /\ vfaults \in 0..MaxFaults

\* Returning ends the call; going on keeps it a call.
LEMMA ReturnControl ==
    ASSUME OpType, op # Idle, attached \subseteq volumes, DoneType, volumes' = volumes,
           NEW ok, NEW failed, Return(ok, failed)
    PROVE  OpType' /\ (attached \subseteq volumes)' /\ DoneType' /\ op' = Idle
BY DEF Return, OpType, DoneType

\* Going on moves the call to its next step and changes nothing else of it.
LEMMA ContinueControl ==
    ASSUME OpType, op # Idle, attached \subseteq volumes, DoneType, volumes' = volumes,
           NEW at \in AttachSteps \cup DetachSteps, Continue(at)
    PROVE  /\ OpType' /\ (attached \subseteq volumes)' /\ DoneType'
           /\ op' = [op EXCEPT !.at = at] /\ op' # Idle /\ op'.at = at
           /\ op'.vol = op.vol /\ op'.call = op.call /\ op'.depth = op.depth
           /\ op'.i = op.i /\ op'.keys = op.keys
<1>1. op \in [call : {"attach", "detach"}, vol : volumes,
              at : AttachSteps \cup DetachSteps \cup OtherSteps,
              i : Nat \ {0}, keys : Seq(Keys), depth : Nat]
  BY DEF OpType
<1>2. op' = [op EXCEPT !.at = at] /\ attached' = attached /\ done' = done
  BY DEF Continue
<1>3. /\ op'.at = at
      /\ op'.vol = op.vol /\ op'.call = op.call /\ op'.depth = op.depth
      /\ op'.i = op.i /\ op'.keys = op.keys
  BY <1>1, <1>2
<1>4. op' # Idle
  BY <1>1, <1>3, IdleCall
<1>5. OpType'
  BY <1>1, <1>2 DEF OpType
<1>6. QED BY <1>2, <1>3, <1>4, <1>5 DEF DoneType

\* The control state of a step that neither starts nor is a call.
LEMMA CommandControl ==
    ASSUME VolumesAssumption, Control, volumes' = volumes,
           \/ Commands
           \/ \E v \in volumes : ContainerWrites(v)
    PROVE  Control'
<1> USE DEF Control, others
<1>1. NamedVolumes' = NamedVolumes
  BY DEF NamedVolumes
<1>2. ASSUME NEW r \in Secrets, delete_secret(r) PROVE Control'
  BY <1>1, <1>2 DEF delete_secret, fsVars, OpType, DoneType
<1>3. ASSUME NEW r \in Secrets, create_secret_from_literal(r, SecretKeys) PROVE Control'
  BY <1>1, <1>3 DEF create_secret_from_literal, fsVars, OpType, DoneType, VolumesAssumption
<1>4. ASSUME NEW n \in NamedVolumes, cmd_volume_create(n) PROVE Control'
  BY <1>1, <1>4 DEF cmd_volume_create, ensure, OpType, DoneType
<1>5. ASSUME NEW n \in NamedVolumes, cmd_volume_remove(n) PROVE Control'
  BY <1>1, <1>5 DEF cmd_volume_remove, OpType, DoneType
<1>6. ASSUME NEW v \in volumes, ContainerWrites(v) PROVE Control'
  <2>1. DOMAIN named' = DOMAIN named /\ UNCHANGED <<keystore, op, done, attached, calls, vfaults>>
    BY <1>6 DEF ContainerWrites
  <2>2. QED BY <1>1, <2>1 DEF OpType, DoneType
<1>7. QED BY <1>2, <1>3, <1>4, <1>5, <1>6 DEF Commands

\* The control state and what is known at the next statement.
Rest ==
    /\ DOMAIN named \subseteq NamedVolumes
    /\ DOMAIN keystore \subseteq Secrets /\ \A r \in DOMAIN keystore : keystore[r] \in Seq(Keys)
    /\ calls \in 0..MaxCalls /\ vfaults \in 0..MaxFaults

\* A step that leaves all of this alone, or only counts a fault.
LEMMA RestKeeps ==
    ASSUME Rest, volumes' = volumes, UNCHANGED <<named, keystore, calls>>,
           vfaults' \in 0..MaxFaults
    PROVE  Rest'
BY DEF Rest, NamedVolumes

\* A call's step that returns.
LEMMA ReturnStep ==
    ASSUME OpType, attached \subseteq volumes, DoneType, Rest', volumes' = volumes, op # Idle,
           NEW ok, NEW failed, Return(ok, failed)
    PROVE  Control' /\ OpInv'
<1>1. OpType' /\ (attached \subseteq volumes)' /\ DoneType' /\ op' = Idle
  BY ReturnControl
<1>2. QED BY <1>1 DEF Control, Rest, OpInv

\* A call's step that goes on, with what is to be known there.
LEMMA ContinueStep ==
    ASSUME OpType, attached \subseteq volumes, DoneType, Rest', volumes' = volumes, op # Idle,
           NEW at \in AttachSteps \cup DetachSteps, Continue(at),
           at \in AttachSteps => op.call = "attach", at \in DetachSteps => op.call = "detach",
           HasDirectory(op.vol), at # "mkdir", at # "exists",
           at \in AttachSteps => Here \in DOMAIN disk',
           at = "perms" => op.i <= Len(op.keys),
           at = "chmod" => tmpfs'[Here] # <<>>,
           at \in {"load", "write", "perms"} /\ op.vol.kind = "secret" =>
              tmpfs'[Here] # <<>> /\ tmpfs'[Here][Len(tmpfs'[Here])].mode = "0700",
           at = "umount" => op.depth = Len(tmpfs'[Here]),
           at = "remove" => tmpfs'[Here] = <<>> \/ op.depth >= 2
    PROVE  Control' /\ OpInv' /\ op' # Idle
<1>1. /\ OpType' /\ (attached \subseteq volumes)' /\ DoneType'
      /\ op' # Idle /\ op'.at = at
      /\ op'.vol = op.vol /\ op'.call = op.call /\ op'.depth = op.depth
      /\ op'.i = op.i /\ op'.keys = op.keys
  BY ContinueControl
<1>2. Here' = Here /\ HasDirectory(op'.vol)
  BY <1>1 DEF Here, get_emptydir_path
<1>3. OpInv'
  BY <1>1, <1>2 DEF OpInv, HasDirectory, Top, AttachSteps, DetachSteps, OtherSteps
<1>4. QED BY <1>1, <1>3 DEF Control, Rest

\* Replacing the topmost mount leaves a topmost mount, with the new mode.
LEMMA ReplacedTop ==
    ASSUME VTypeOK, NEW p \in Paths, tmpfs[p] # <<>>, NEW mount, Replaces(p, mount)
    PROVE  tmpfs'[p] # <<>> /\ tmpfs'[p][Len(tmpfs'[p])] = mount
<1>1. tmpfs[p] \in Seq(Mounts) /\ p \in DOMAIN tmpfs /\ Len(tmpfs[p]) \in 1..Len(tmpfs[p])
  BY VisibleFiles DEF VTypeOK
<1> DEFINE n == Len(tmpfs[p])
           s == [tmpfs[p] EXCEPT ![n] = mount]
<1>2. tmpfs'[p] = s
  BY <1>1 DEF Replaces
<1>3. Len(s) = n /\ s[n] = mount
  BY <1>1
<1>4. QED BY <1>1, <1>2, <1>3

\* A change of the files of a directory leaves the mode of its topmost mount.
LEMMA ChangedTop ==
    ASSUME VTypeOK, NEW p \in Paths, p \in DOMAIN disk, NEW files, Changes(p, files)
    PROVE  /\ p \in DOMAIN disk'
           /\ tmpfs[p] # <<>> => /\ tmpfs'[p] # <<>>
                                 /\ tmpfs'[p][Len(tmpfs'[p])].mode = Top(p).mode
<1>1. CASE tmpfs[p] # <<>>
  <2>1. Top(p) \in Mounts BY <1>1, VisibleFiles
  <2>2. Replaces(p, [Top(p) EXCEPT !.files = files]) BY <1>1 DEF Changes
  <2>3. /\ tmpfs'[p] # <<>>
        /\ tmpfs'[p][Len(tmpfs'[p])] = [Top(p) EXCEPT !.files = files]
    BY <1>1, <2>2, ReplacedTop
  <2>4. [Top(p) EXCEPT !.files = files].mode = Top(p).mode BY <2>1 DEF Mounts
  <2>5. QED BY <2>2, <2>3, <2>4 DEF Replaces
<1>2. CASE tmpfs[p] = <<>>
  BY <1>2 DEF Changes, WritesDisk
<1>3. QED BY <1>1, <1>2

\* What the invariant says of the control state.
LEMMA InvControl ==
    ASSUME VolumesInv
    PROVE  Control /\ Rest /\ OpType /\ attached \subseteq volumes /\ DoneType
BY DEF VolumesInv, VTypeOK, Control, Rest, OpType, DoneType

\* Starting a call.
LEMMA StartStep ==
    ASSUME VolumesAssumption, VolumesInv, volumes' = volumes, NEW v \in volumes,
           NEW call \in {"attach", "detach"}, Call(call, v)
    PROVE  Control' /\ OpInv' /\ op' # Idle
<1> DEFINE depth == IF HasDirectory(v) THEN Len(tmpfs[get_emptydir_path(v)]) ELSE 0
<1>1. v.kind \in Kinds /\ v.items \in Seq(Keys)
  BY DEF VolumesAssumption, VolumesInv, VTypeOK
<1>2. depth \in Nat
  <2>1. CASE HasDirectory(v)
    <3>1. get_emptydir_path(v) \in Paths BY <2>1 DEF Paths
    <3>2. QED BY <2>1, <3>1 DEF VolumesInv, VTypeOK
  <2>2. CASE ~HasDirectory(v) BY <2>2
  <2>3. QED BY <2>1, <2>2
<1>3. op' = [call |-> call, vol |-> v, at |-> FirstStep(call, v), i |-> 1, keys |-> v.items,
             depth |-> depth]
  BY DEF Call
<1>4. /\ FirstStep(call, v) = "mkdir" => call = "attach" /\ HasDirectory(v)
      /\ FirstStep(call, v) = "exists" => call = "detach" /\ HasDirectory(v)
      /\ FirstStep(call, v) \in {"host", "named", "bad_ref"} => ~HasDirectory(v)
      /\ FirstStep(call, v) = "named" => v.kind = "named"
      /\ FirstStep(call, v) \in {"mkdir", "exists", "host", "named", "bad_ref"}
  <2>1. CASE v.kind = "hostPath"
    <3>1. FirstStep(call, v) = "host" BY <2>1 DEF FirstStep
    <3>2. ~HasDirectory(v) BY <2>1 DEF HasDirectory
    <3>3. QED BY <2>1, <3>1, <3>2
  <2>2. CASE v.kind = "named"
    <3>1. FirstStep(call, v) = "named" BY <2>2 DEF FirstStep
    <3>2. ~HasDirectory(v) BY <2>2 DEF HasDirectory
    <3>3. QED BY <2>2, <3>1, <3>2
  <2>3. CASE v.kind = "secret" /\ v.ref = <<>>
    <3>1. FirstStep(call, v) = "bad_ref" BY <2>3 DEF FirstStep
    <3>2. ~HasDirectory(v) BY <2>3 DEF HasDirectory
    <3>3. QED BY <2>3, <3>1, <3>2
  <2>4. CASE v.kind \in {"emptyDir", "config", "secret"} /\ ~(v.kind = "secret" /\ v.ref = <<>>)
    <3>1. HasDirectory(v) BY <2>4 DEF HasDirectory
    <3>2. FirstStep(call, v) = IF call = "attach" THEN "mkdir" ELSE "exists"
      BY <2>4, <3>1 DEF FirstStep
    <3>3. QED BY <3>1, <3>2
  <2>5. QED BY <1>1, <2>1, <2>2, <2>3, <2>4 DEF Kinds
<1>5. OpType' /\ op' # Idle
  BY <1>1, <1>2, <1>3, <1>4 DEF OpType, AttachSteps, DetachSteps, OtherSteps, Idle
<1>6. Here' = get_emptydir_path(v) /\ tmpfs' = tmpfs
  BY <1>3 DEF Here, Call, fsVars, get_emptydir_path
<1>7. OpInv'
  BY <1>3, <1>4, <1>6 DEF OpInv, AttachSteps, DetachSteps, OtherSteps, HasDirectory
<1>8. Rest'
  <2>1. UNCHANGED <<named, keystore, vfaults>> /\ calls' = calls + 1 /\ calls < MaxCalls
    BY DEF Call, fsVars
  <2>2. QED BY <2>1, InvControl DEF Rest, NamedVolumes, VolumesAssumption
<1>9. (attached \subseteq volumes)' /\ DoneType'
  BY InvControl DEF Call, DoneType
<1>10. QED BY <1>5, <1>7, <1>8, <1>9 DEF Control, Rest

\* The steps of attach_volume.
LEMMA AttachControl ==
    ASSUME VolumesAssumption, VolumesInv, volumes' = volumes, Attaching
    PROVE  Control' /\ OpInv'
<1>1. Control /\ Rest /\ OpType /\ attached \subseteq volumes /\ DoneType /\ VTypeOK /\ OpInv
  BY InvControl DEF VolumesInv
<1>2. vfaults \in 0..MaxFaults
  BY <1>1 DEF Rest
<1>3. CASE ValidateHostpath
  <2>1. Rest' /\ op # Idle
    BY <1>1, <1>2, <1>3, RestKeeps, IdleCall DEF ValidateHostpath, ReturnsAt, fsVars, At
  <2>2. QED BY <1>1, <1>3, <2>1, ReturnStep DEF ValidateHostpath, ReturnsAt
<1>4. CASE EnsureNamedVolume
  <2>1. op # Idle /\ op.at = "named" BY <1>4, IdleCall DEF EnsureNamedVolume, At
  <2>2. op.vol \in volumes /\ op.vol.kind = "named" BY <1>1, <2>1 DEF OpType, OpInv
  <2>3. op.vol.name \in NamedVolumes BY <2>2 DEF NamedVolumes
  <2>4. Rest'
    BY <1>1, <1>4, <2>3 DEF Rest, EnsureNamedVolume, ensure, NamedVolumes
  <2>5. QED BY <1>1, <1>4, <2>1, <2>4, ReturnStep DEF EnsureNamedVolume
<1>5. CASE CreateDir
  <2>1. op # Idle /\ op.vol \in volumes /\ HasDirectory(op.vol) /\ op.call = "attach"
    BY <1>1, <1>5, AttachStep DEF CreateDir, AttachSteps, At
  <2>2. Rest' BY <1>1, <1>2, <1>5, RestKeeps DEF CreateDir
  <2>3. CASE Return(TRUE, FALSE) BY <1>1, <2>1, <2>2, <2>3, ReturnStep
  <2>4. CASE Continue("mount")
    <3>1. Here \in DOMAIN disk' BY <1>5 DEF CreateDir, WithDir
    <3>2. QED BY <1>1, <2>1, <2>2, <2>4, <3>1, ContinueStep DEF AttachSteps, DetachSteps
  <2>5. QED BY <1>5, <2>3, <2>4 DEF CreateDir
<1>6. CASE MountTmpfs
  <2>1. /\ op # Idle /\ op.vol \in volumes /\ HasDirectory(op.vol) /\ op.call = "attach"
        /\ Here \in DOMAIN disk /\ Here \in Paths
    BY <1>1, <1>6, AttachStep DEF MountTmpfs, AttachSteps, At
  <2>2. Rest' /\ disk' = disk BY <1>1, <1>2, <1>6, RestKeeps DEF MountTmpfs
  <2>3. op.vol.kind \in {"emptyDir", "config", "secret"}
    BY <2>1 DEF HasDirectory
  <2>4. CASE BadSize
    BY <1>1, <1>6, <2>1, <2>2, <2>4, ReturnStep DEF MountTmpfs
  <2>5. CASE ~BadSize
    <3>1. /\ tmpfs' = [tmpfs EXCEPT ![Here] = Append(@, [mode |-> "1777", files |-> {}])]
          /\ CASE op.vol.kind = "emptyDir" -> Return(TRUE, FALSE)
               [] op.vol.kind = "config"   -> Continue("write")
               [] op.vol.kind = "secret"   -> Continue("chmod")
      BY <1>6, <2>5 DEF MountTmpfs
    <3>2. tmpfs'[Here] # <<>>
      <4>1. tmpfs[Here] \in Seq(Mounts) /\ Here \in DOMAIN tmpfs BY <1>1, <2>1 DEF VTypeOK
      <4>2. tmpfs'[Here] = Append(tmpfs[Here], [mode |-> "1777", files |-> {}]) BY <3>1, <4>1
      <4>3. Len(Append(tmpfs[Here], [mode |-> "1777", files |-> {}])) = Len(tmpfs[Here]) + 1
        BY <4>1
      <4>4. QED BY <4>1, <4>2, <4>3
    <3>3. CASE op.vol.kind = "emptyDir"
      BY <1>1, <2>1, <2>2, <3>1, <3>3, ReturnStep
    <3>4. CASE op.vol.kind = "config"
      <4>1. Continue("write") BY <3>1, <3>4
      <4>2. QED BY <1>1, <2>1, <2>2, <3>4, <4>1, ContinueStep DEF AttachSteps, DetachSteps
    <3>5. CASE op.vol.kind = "secret"
      <4>1. Continue("chmod") BY <3>1, <3>5
      <4>2. QED BY <1>1, <2>1, <2>2, <3>2, <4>1, ContinueStep DEF AttachSteps, DetachSteps
    <3>6. QED BY <2>3, <3>3, <3>4, <3>5
  <2>6. QED BY <2>4, <2>5
<1>7. CASE RestrictDir
  <2>1. /\ op # Idle /\ op.vol \in volumes /\ HasDirectory(op.vol) /\ op.call = "attach"
        /\ Here \in DOMAIN disk /\ Here \in Paths /\ op.at = "chmod"
    BY <1>1, <1>7, AttachStep DEF RestrictDir, AttachSteps, At
  <2>2. Rest' /\ disk' = disk BY <1>1, <1>2, <1>7, RestKeeps DEF RestrictDir
  <2>3. tmpfs[Here] # <<>> BY <1>1, <2>1 DEF OpInv
  <2>4. tmpfs'[Here] # <<>> /\ tmpfs'[Here][Len(tmpfs'[Here])].mode = "0700"
    <3>1. Replaces(Here, [Top(Here) EXCEPT !.mode = "0700"])
      BY <1>7 DEF RestrictDir, Replaces, Top
    <3>2. [Top(Here) EXCEPT !.mode = "0700"].mode = "0700"
      BY <1>1, <2>1, <2>3, VisibleFiles DEF Mounts
    <3>3. QED BY <1>1, <2>1, <2>3, <3>1, <3>2, ReplacedTop
  <2>5. Continue("load") BY <1>7 DEF RestrictDir
  <2>6. QED BY <1>1, <2>1, <2>2, <2>4, <2>5, ContinueStep DEF AttachSteps, DetachSteps
<1>8. CASE LoadSecret
  <2>1. /\ op # Idle /\ op.vol \in volumes /\ HasDirectory(op.vol) /\ op.call = "attach"
        /\ Here \in DOMAIN disk /\ Here \in Paths /\ op.at = "load"
    BY <1>1, <1>8, AttachStep DEF LoadSecret, AttachSteps, At
  <2>2. Rest' /\ disk' = disk /\ tmpfs' = tmpfs
    BY <1>1, <1>2, <1>8, RestKeeps DEF LoadSecret, fsVars
  <2>3. CASE op.vol.ref \notin DOMAIN keystore
    BY <1>1, <1>8, <2>1, <2>2, <2>3, ReturnStep DEF LoadSecret
  <2>4. CASE op.vol.ref \in DOMAIN keystore
    <3>1. /\ op' = [op EXCEPT !.at = "write", !.keys = keystore[op.vol.ref]]
          /\ attached' = attached /\ done' = done
      BY <1>8, <2>4 DEF LoadSecret
    <3>2. /\ op'.call = "attach" /\ op'.vol = op.vol /\ op'.at = "write" /\ op' # Idle
          /\ OpType'
      BY <1>1, <2>1, <2>4, <3>1, IdleCall DEF OpType, Rest, AttachSteps
    <3>3. Here' = Here BY <3>2 DEF Here, get_emptydir_path
    <3>4. op.vol.kind = "secret" => tmpfs[Here] # <<>> /\ Top(Here).mode = "0700"
      BY <1>1, <2>1 DEF OpInv
    <3>5. OpInv'
      BY <2>1, <2>2, <3>2, <3>3, <3>4
      DEF OpInv, HasDirectory, Top, AttachSteps, DetachSteps, OtherSteps
    <3>6. QED BY <1>1, <2>2, <3>1, <3>2, <3>5 DEF Control, Rest, DoneType
  <2>5. QED BY <2>3, <2>4
<1>9. CASE WriteItem
  <2>1. /\ op # Idle /\ op.vol \in volumes /\ HasDirectory(op.vol) /\ op.call = "attach"
        /\ Here \in DOMAIN disk /\ Here \in Paths /\ op.at = "write" /\ op.i <= Len(op.keys)
    BY <1>1, <1>9, AttachStep DEF WriteItem, AttachSteps, At
  <2>2. Rest' BY <1>1, <1>2, <1>9, RestKeeps DEF WriteItem
  <2>3. PICK files \in SUBSET Files : Changes(Here, files) BY <1>1, <1>9, WriteChanges
  <2>4. op.vol.kind = "secret" => tmpfs[Here] # <<>> /\ Top(Here).mode = "0700"
    BY <1>1, <2>1 DEF OpInv
  <2>5. /\ Here \in DOMAIN disk'
        /\ op.vol.kind = "secret" =>
              tmpfs'[Here] # <<>> /\ tmpfs'[Here][Len(tmpfs'[Here])].mode = "0700"
    BY <1>1, <2>1, <2>3, <2>4, ChangedTop
  <2>6. Continue("perms") BY <1>9 DEF WriteItem
  <2>7. QED BY <1>1, <2>1, <2>2, <2>5, <2>6, ContinueStep DEF AttachSteps, DetachSteps
<1>10. CASE SetPermissions
  <2>1. /\ op # Idle /\ op.vol \in volumes /\ HasDirectory(op.vol) /\ op.call = "attach"
        /\ Here \in DOMAIN disk /\ Here \in Paths /\ op.at = "perms"
    BY <1>1, <1>10, AttachStep DEF SetPermissions, AttachSteps, At
  <2>2. Rest' BY <1>1, <1>2, <1>10, RestKeeps DEF SetPermissions
  <2>3. PICK files \in SUBSET Files : Changes(Here, files) BY <1>1, <1>10, PermissionsChange
  <2>4. op.vol.kind = "secret" => tmpfs[Here] # <<>> /\ Top(Here).mode = "0700"
    BY <1>1, <2>1 DEF OpInv
  <2>5. /\ Here \in DOMAIN disk'
        /\ op.vol.kind = "secret" =>
              tmpfs'[Here] # <<>> /\ tmpfs'[Here][Len(tmpfs'[Here])].mode = "0700"
    BY <1>1, <2>1, <2>3, <2>4, ChangedTop
  <2>6. op' = [op EXCEPT !.at = "write", !.i = @ + 1] /\ attached' = attached /\ done' = done
    BY <1>10 DEF SetPermissions
  <2>7. /\ op'.call = "attach" /\ op'.vol = op.vol /\ op'.at = "write" /\ op' # Idle
        /\ OpType'
    <3>1. op \in [call : {"attach", "detach"}, vol : volumes,
                  at : AttachSteps \cup DetachSteps \cup OtherSteps,
                  i : Nat \ {0}, keys : Seq(Keys), depth : Nat]
      BY <1>1, <2>1 DEF OpType
    <3>2. op.i + 1 \in Nat \ {0}
      BY <3>1
    <3>3. op' \in [call : {"attach", "detach"}, vol : volumes,
                   at : AttachSteps \cup DetachSteps \cup OtherSteps,
                   i : Nat \ {0}, keys : Seq(Keys), depth : Nat]
      BY <2>6, <3>1, <3>2 DEF AttachSteps
    <3>4. op'.call = "attach" /\ op'.vol = op.vol /\ op'.at = "write"
      BY <2>1, <2>6, <3>1
    <3>5. QED BY <3>3, <3>4, IdleCall DEF OpType
  <2>8. Here' = Here BY <2>7 DEF Here, get_emptydir_path
  <2>9. OpInv'
    BY <2>1, <2>5, <2>7, <2>8
    DEF OpInv, HasDirectory, Top, AttachSteps, DetachSteps, OtherSteps
  <2>10. QED BY <1>1, <2>2, <2>6, <2>7, <2>9 DEF Control, Rest, DoneType
<1>11. CASE ItemsDone
  <2>1. Rest' /\ op # Idle
    BY <1>1, <1>2, <1>11, RestKeeps, IdleCall DEF ItemsDone, fsVars, At
  <2>2. QED BY <1>1, <1>11, <2>1, ReturnStep DEF ItemsDone
<1>12. QED BY <1>3, <1>4, <1>5, <1>6, <1>7, <1>8, <1>9, <1>10, <1>11 DEF Attaching

\* How deep mounts are stacked.
LEMMA Depths ==
    ASSUME NEW S, NEW s \in Seq(S), NEW d, d = Len(s)
    PROVE  s = <<>> \/ (s # <<>> /\ d = 1) \/ d >= 2
<1>1. d \in Nat BY LenProperties
<1>2. d = 0 => s = <<>> BY EmptySeq
<1>3. QED BY <1>1, <1>2

\* The steps of detach_volume.
LEMMA DetachControl ==
    ASSUME VolumesAssumption, VolumesInv, volumes' = volumes, Detaching
    PROVE  Control' /\ OpInv'
<1>1. Control /\ Rest /\ OpType /\ attached \subseteq volumes /\ DoneType /\ VTypeOK /\ OpInv
  BY InvControl DEF VolumesInv
<1>2. vfaults \in 0..MaxFaults
  BY <1>1 DEF Rest
<1>3. CASE NothingToDetach
  <2>1. ASSUME NEW at, ReturnsAt("detach", at, TRUE) PROVE Control' /\ OpInv'
    <3>1. Rest' /\ op # Idle
      BY <1>1, <1>2, <2>1, RestKeeps, IdleCall DEF ReturnsAt, fsVars, At
    <3>2. QED BY <1>1, <2>1, <3>1, ReturnStep DEF ReturnsAt
  <2>2. QED BY <1>3, <2>1 DEF NothingToDetach
<1>4. CASE CleanupExists
  <2>1. /\ op # Idle /\ HasDirectory(op.vol) /\ op.call = "detach" /\ op.at = "exists"
    BY <1>1, <1>4, DetachStep DEF CleanupExists, DetachSteps, At
  <2>2. Rest' /\ tmpfs' = tmpfs BY <1>1, <1>2, <1>4, RestKeeps DEF CleanupExists, fsVars
  <2>3. CASE Return(TRUE, FALSE) BY <1>1, <2>1, <2>2, <2>3, ReturnStep
  <2>4. CASE Continue("umount")
    <3>1. op.depth = Len(tmpfs'[Here]) BY <1>1, <2>1, <2>2 DEF OpInv
    <3>2. QED BY <1>1, <2>1, <2>2, <2>4, <3>1, ContinueStep DEF AttachSteps, DetachSteps
  <2>5. QED BY <1>4, <2>3, <2>4 DEF CleanupExists
<1>5. CASE UnmountIfMounted
  <2>1. /\ op # Idle /\ HasDirectory(op.vol) /\ op.call = "detach" /\ op.at = "umount"
        /\ Here \in Paths
    BY <1>1, <1>5, DetachStep DEF UnmountIfMounted, DetachSteps, At
  <2>2. Rest' BY <1>1, <1>2, <1>5, RestKeeps DEF UnmountIfMounted
  <2>3. op.depth = Len(tmpfs[Here]) BY <1>1, <2>1 DEF OpInv
  <2>4. tmpfs[Here] \in Seq(Mounts) /\ Here \in DOMAIN tmpfs BY <1>1, <2>1 DEF VTypeOK
  <2>5. tmpfs'[Here] = <<>> \/ op.depth >= 2
    <3>1. CASE tmpfs[Here] = <<>> BY <1>5, <3>1 DEF UnmountIfMounted
    <3>2. CASE tmpfs[Here] # <<>> /\ Len(tmpfs[Here]) = 1
      <4>1. tmpfs'[Here] = SubSeq(tmpfs[Here], 1, Len(tmpfs[Here]) - 1)
        BY <1>5, <2>4, <3>2 DEF UnmountIfMounted
      <4>2. SubSeq(tmpfs[Here], 1, Len(tmpfs[Here]) - 1) = <<>>
        <5>1. Len(tmpfs[Here]) - 1 \in Int /\ Len(tmpfs[Here]) - 1 < 1 BY <3>2
        <5>2. QED BY <5>1, SubSeqEmpty
      <4>3. QED BY <4>1, <4>2
    <3>3. CASE op.depth >= 2 BY <3>3
    <3>4. QED BY <2>3, <2>4, <3>1, <3>2, <3>3, Depths
  <2>6. Continue("remove") BY <1>5 DEF UnmountIfMounted
  <2>7. QED BY <1>1, <2>1, <2>2, <2>5, <2>6, ContinueStep DEF AttachSteps, DetachSteps
<1>6. CASE UmountFails
  <2>1. op # Idle /\ HasDirectory(op.vol) /\ op.call = "detach"
    BY <1>1, <1>6, DetachStep DEF UmountFails, DetachSteps, At
  <2>2. vfaults' \in 0..MaxFaults BY <1>2, <1>6 DEF UmountFails, VolumesAssumption
  <2>3. Rest' BY <1>1, <1>6, <2>2, RestKeeps DEF UmountFails, fsVars
  <2>4. Continue("remove_busy") BY <1>6 DEF UmountFails
  <2>5. QED BY <1>1, <2>1, <2>3, <2>4, ContinueStep DEF AttachSteps, DetachSteps
<1>7. CASE RemoveDir
  <2>1. op # Idle /\ Rest'
    BY <1>1, <1>2, <1>7, RestKeeps, IdleCall DEF RemoveDir
  <2>2. QED BY <1>1, <1>7, <2>1, ReturnStep DEF RemoveDir
<1>8. QED BY <1>3, <1>4, <1>5, <1>6, <1>7 DEF Detaching

\* Every step keeps the control state and what is known of the call.
LEMMA ControlStep ==
    ASSUME VolumesAssumption, VolumesInv, VNext
    PROVE  Control' /\ OpInv'
<1>1. /\ Control /\ Rest /\ OpType /\ attached \subseteq volumes /\ DoneType /\ VTypeOK /\ OpInv
      /\ volumes' = volumes
  BY InvControl DEF VolumesInv, VNext
<1>2. ASSUME NEW v \in volumes, attach_volume(v) \/ detach_volume(v) PROVE Control' /\ OpInv'
  BY <1>1, <1>2, StartStep DEF attach_volume, detach_volume
<1>3. CASE Commands \/ \E v \in volumes : ContainerWrites(v)
  <2>1. Control' BY <1>1, <1>3, CommandControl
  <2>2. CASE op' = Idle BY <2>1, <2>2 DEF OpInv
  <2>3. CASE Commands
    <3>1. disk' = disk /\ tmpfs' = tmpfs /\ op' = op
      BY <2>3 DEF Commands, delete_secret, create_secret_from_literal, cmd_volume_create,
         cmd_volume_remove, fsVars, others
    <3>2. QED BY <1>1, <2>1, <3>1 DEF OpInv, Here, get_emptydir_path, HasDirectory, Top
  <2>4. ASSUME NEW v \in volumes, ContainerWrites(v) PROVE op' = Idle
    BY <2>4 DEF ContainerWrites
  <2>5. QED BY <1>3, <2>1, <2>2, <2>3, <2>4
<1>4. CASE BadRef
  <2>1. PICK c \in {"attach", "detach"} : ReturnsAt(c, "bad_ref", FALSE) BY <1>4 DEF BadRef
  <2>2. op # Idle BY <2>1, IdleCall DEF ReturnsAt, At
  <2>3. Rest' BY <1>1, <2>1, RestKeeps DEF ReturnsAt, fsVars, Rest
  <2>4. QED BY <1>1, <2>1, <2>2, <2>3, ReturnStep DEF ReturnsAt
<1>5. CASE CallFails
  <2>1. op # Idle /\ Return(FALSE, TRUE) BY <1>5 DEF CallFails
  <2>2. vfaults' \in 0..MaxFaults BY <1>1, <1>5 DEF CallFails, VolumesAssumption, Rest
  <2>3. Rest' BY <1>1, <1>5, <2>2, RestKeeps DEF CallFails, fsVars
  <2>4. QED BY <1>1, <2>1, <2>3, ReturnStep
<1>6. QED BY <1>1, <1>2, <1>3, <1>4, <1>5, AttachControl, DetachControl DEF VNext

-----------------------------------------------------------------------------
(* A detach that returned *)

\* A step in the middle of a call, or at its start, leaves the promise about the
\* last detach for later; one outside a call leaves it alone.
LEMMA DetachQuiet ==
    ASSUME VolumesAssumption, VolumesInv, VNext, op' # Idle \/ op = Idle
    PROVE  DetachIsComplete'
<1>1. volumes' = volumes BY DEF VNext
<1>2. CASE op' # Idle BY <1>2 DEF DetachIsComplete
<1>3. CASE op = Idle /\ op' = Idle
  <2>1. DetachIsComplete BY DEF VolumesInv
  <2>2. done' = done /\ (Keeps \/ \E v \in volumes : ContainerWrites(v))
    <3>1. ~Attaching
      BY <1>3, IdleCall DEF Attaching, ValidateHostpath, ReturnsAt, EnsureNamedVolume, CreateDir,
         MountTmpfs, RestrictDir, LoadSecret, WriteItem, SetPermissions, ItemsDone, At
    <3>2. ~Detaching /\ ~BadRef /\ ~CallFails
      BY <1>3, IdleCall DEF Detaching, NothingToDetach, ReturnsAt, CleanupExists,
         UnmountIfMounted, UmountFails, RemoveDir, At, BadRef, CallFails
    <3>3. ASSUME NEW v \in volumes, attach_volume(v) \/ detach_volume(v) PROVE FALSE
      BY <1>3, <3>3, <1>1, StartStep DEF attach_volume, detach_volume
    <3>4. CASE Commands
      BY <3>4 DEF Commands, delete_secret, create_secret_from_literal, cmd_volume_create,
         cmd_volume_remove, fsVars, others, Keeps
    <3>5. ASSUME NEW v \in volumes, ContainerWrites(v) PROVE done' = done
      BY <3>5 DEF ContainerWrites
    <3>6. QED BY <3>1, <3>2, <3>3, <3>4, <3>5 DEF VNext
  <2>3. CASE Keeps
    BY <1>3, <2>1, <2>2, <2>3 DEF DetachIsComplete, Keeps, HasDirectory, get_emptydir_path
  <2>4. ASSUME NEW v \in volumes, ContainerWrites(v), ~Keeps PROVE DetachIsComplete'
    <3> DEFINE p == get_emptydir_path(v)
               new == Visible(p) \cup {File("own", "data", "0644")}
    <3>1. /\ v.kind = "emptyDir" /\ p \in DOMAIN disk
          /\ ChangeFiles(p, LAMBDA files : files \cup {File("own", "data", "0644")})
      BY <2>4 DEF ContainerWrites, Keeps
    <3>2. p \in Paths /\ Changes(p, new)
      BY <3>1, OwnChanges DEF VolumesInv
    <3>3. DOMAIN disk' = DOMAIN disk /\ \A q \in Paths : tmpfs[q] = <<>> => tmpfs'[q] = <<>>
      BY <3>1, <3>2 DEF Changes, Replaces, WritesDisk, VolumesInv, VTypeOK
    <3>4. QED
      <4>1. done.call = "detach" /\ HasDirectory(done.vol) => get_emptydir_path(done.vol) \in Paths
        BY InvControl DEF DoneType, Paths
      <4>2. QED
        BY <1>3, <2>1, <2>2, <3>3, <4>1 DEF DetachIsComplete, HasDirectory, get_emptydir_path
  <2>5. QED BY <2>2, <2>3, <2>4
<1>4. QED BY <1>2, <1>3

\* A detach that returns has done what it says.
LEMMA DetachReturns ==
    ASSUME VolumesAssumption, VolumesInv, VNext, op # Idle, op' = Idle
    PROVE  DetachIsComplete'
<1>1. VTypeOK /\ OpInv /\ OpType /\ MountedExists BY InvControl DEF VolumesInv
<1>2. op.call \in {"attach", "detach"} BY <1>1 DEF OpType
\* An attach, or a volume without a directory: nothing is promised.
<1>3. ASSUME NEW ok, NEW failed, Return(ok, failed), op.call = "attach" \/ ~HasDirectory(op.vol)
      PROVE  DetachIsComplete'
  <2>1. done'.call = op.call /\ done'.vol = op.vol BY <1>3 DEF Return
  <2>2. done'.call # "detach" \/ ~HasDirectory(done'.vol) BY <1>3, <2>1 DEF HasDirectory
  <2>3. QED BY <2>2 DEF DetachIsComplete, HasDirectory
<1>4. CASE Attaching
  <2>1. op.call = "attach"
    BY <1>4 DEF Attaching, ValidateHostpath, ReturnsAt, EnsureNamedVolume, CreateDir,
       MountTmpfs, RestrictDir, LoadSecret, WriteItem, SetPermissions, ItemsDone, At
  <2>2. \/ \E ok, failed : Return(ok, failed)
        \/ UNCHANGED done /\ op'.call = op.call
    <3>1. op \in [call : {"attach", "detach"}, vol : volumes,
                  at : AttachSteps \cup DetachSteps \cup OtherSteps,
                  i : Nat \ {0}, keys : Seq(Keys), depth : Nat]
      BY <1>1 DEF OpType
    <3>2. \A at : Continue(at) => UNCHANGED done /\ op'.call = op.call
      BY <3>1 DEF Continue
    <3>3. CASE ValidateHostpath \/ EnsureNamedVolume \/ ItemsDone
      BY <3>3 DEF ValidateHostpath, ReturnsAt, EnsureNamedVolume, ItemsDone
    <3>4. CASE CreateDir \/ RestrictDir \/ WriteItem
      BY <3>2, <3>4 DEF CreateDir, RestrictDir, WriteItem
    <3>5. CASE MountTmpfs
      <4>1. op.vol.kind \in {"emptyDir", "config", "secret"}
        BY <1>1, <3>5, AttachStep DEF MountTmpfs, AttachSteps, HasDirectory
      <4>2. CASE BadSize BY <3>5, <4>2 DEF MountTmpfs
      <4>3. CASE ~BadSize
        <5>1. CASE op.vol.kind = "emptyDir" BY <3>5, <4>3, <5>1 DEF MountTmpfs
        <5>2. CASE op.vol.kind = "config" BY <3>2, <3>5, <4>3, <5>2 DEF MountTmpfs
        <5>3. CASE op.vol.kind = "secret" BY <3>2, <3>5, <4>3, <5>3 DEF MountTmpfs
        <5>4. QED BY <4>1, <5>1, <5>2, <5>3
      <4>4. QED BY <4>2, <4>3
    <3>6. CASE LoadSecret BY <3>1, <3>6 DEF LoadSecret
    <3>7. CASE SetPermissions BY <3>1, <3>7 DEF SetPermissions
    <3>8. QED BY <1>4, <3>3, <3>4, <3>5, <3>6, <3>7 DEF Attaching
  <2>3. QED BY <1>3, <2>1, <2>2, <1>2, IdleCall
<1>5. CASE BadRef
  <2>1. PICK c \in {"attach", "detach"} : ReturnsAt(c, "bad_ref", FALSE) BY <1>5 DEF BadRef
  <2>2. ~HasDirectory(op.vol) BY <1>1, <2>1 DEF ReturnsAt, At, OpInv, OtherSteps
  <2>3. QED BY <1>3, <2>1, <2>2 DEF ReturnsAt
<1>6. CASE NothingToDetach
  <2>1. PICK at \in {"host", "named"} : ReturnsAt("detach", at, TRUE)
    BY <1>6 DEF NothingToDetach
  <2>2. ~HasDirectory(op.vol) BY <1>1, <2>1 DEF ReturnsAt, At, OpInv, OtherSteps
  <2>3. QED BY <1>3, <2>1, <2>2 DEF ReturnsAt
\* The directory is not there, so nothing is mounted on it either.
<1>7. CASE CleanupExists
  <2>1. Here \in Paths /\ op.at = "exists" /\ op.call = "detach"
    BY <1>1, <1>7, DetachStep DEF CleanupExists, DetachSteps, At
  <2>2. CASE Here \in DOMAIN disk
    <3>1. Continue("umount") BY <1>7, <2>2 DEF CleanupExists
    <3>2. op'.call = op.call BY <3>1, <1>1 DEF Continue, OpType
    <3>3. QED BY <1>2, <3>2, IdleCall
  <2>3. CASE Here \notin DOMAIN disk
    <3>1. Return(TRUE, FALSE) /\ disk' = disk /\ tmpfs' = tmpfs
      BY <1>7, <2>3 DEF CleanupExists, fsVars
    <3>2. tmpfs[Here] = <<>> BY <1>1, <2>1, <2>3 DEF MountedExists
    <3>3. done'.vol = op.vol /\ done'.ok = TRUE BY <3>1 DEF Return
    <3>4. get_emptydir_path(done'.vol) = Here BY <3>3 DEF Here, get_emptydir_path
    <3>5. QED BY <2>3, <3>1, <3>2, <3>3, <3>4 DEF DetachIsComplete, get_emptydir_path
  <2>4. QED BY <2>2, <2>3
<1>8. CASE RemoveDir
  <2>1. /\ op.call = "detach" /\ Return(tmpfs[Here] = <<>>, op.at = "remove_busy")
        /\ op.at \in {"remove", "remove_busy"}
    BY <1>8 DEF RemoveDir
  <2>2. /\ done'.vol = op.vol /\ done'.ok = (tmpfs[Here] = <<>>)
        /\ done'.failed = (op.at = "remove_busy") /\ done'.depth = op.depth
    BY <2>1 DEF Return
  <2>3. get_emptydir_path(done'.vol) = Here BY <2>2 DEF Here, get_emptydir_path
  <2>4. CASE tmpfs[Here] = <<>>
    <3>1. Here \notin DOMAIN disk' /\ tmpfs'[Here] = <<>>
      BY <1>8, <2>4 DEF RemoveDir
    <3>2. QED BY <2>2, <2>3, <2>4, <3>1 DEF DetachIsComplete, get_emptydir_path
  <2>5. CASE tmpfs[Here] # <<>>
    <3>1. done'.failed \/ done'.depth >= 2
      BY <1>1, <2>1, <2>2, <2>5 DEF OpInv
    <3>2. done'.ok = FALSE BY <2>2, <2>5
    <3>3. QED BY <3>1, <3>2 DEF DetachIsComplete
  <2>6. QED BY <2>4, <2>5
<1>9. CASE UnmountIfMounted \/ UmountFails
  <2>1. \E at : Continue(at) BY <1>9 DEF UnmountIfMounted, UmountFails
  <2>2. op'.call = op.call BY <2>1, <1>1 DEF Continue, OpType
  <2>3. QED BY <1>2, <2>2, IdleCall
<1>10. CASE CallFails
  <2>1. done'.failed = TRUE /\ done'.ok = FALSE BY <1>10 DEF CallFails, Return
  <2>2. QED BY <2>1 DEF DetachIsComplete
<1>11. CASE Commands
  BY <1>11 DEF Commands, delete_secret, create_secret_from_literal, cmd_volume_create,
     cmd_volume_remove, fsVars, others
<1>12. ASSUME NEW v \in volumes, attach_volume(v) \/ detach_volume(v) \/ ContainerWrites(v)
       PROVE  FALSE
  BY <1>12 DEF attach_volume, detach_volume, Call, ContainerWrites
<1>13. QED
  BY <1>4, <1>5, <1>6, <1>7, <1>8, <1>9, <1>10, <1>11, <1>12 DEF VNext, Detaching

-----------------------------------------------------------------------------
(* The theorems *)

\* The invariant holds at the start.
LEMMA VolumesInvInit ==
    ASSUME VolumesAssumption, VInit
    PROVE  VolumesInv
<1>1. DOMAIN disk = {} /\ DOMAIN named = {} /\ DOMAIN keystore = {} BY DEF VInit
<1>2. DOMAIN tmpfs = Paths /\ \A p \in Paths : tmpfs[p] = <<>> BY DEF VInit
<1>3. op = Idle /\ done.call = "none" /\ attached = {} /\ calls = 0 /\ vfaults = 0
      /\ volumes \in Manifests
  BY DEF VInit
<1>4. VTypeOK
  <2>0. <<>> \in Seq(Mounts) OBVIOUS
  <2>1. \A p \in Paths : tmpfs[p] \in Seq(Mounts) BY <1>2, <2>0
  <2>2. calls \in 0..MaxCalls /\ vfaults \in 0..MaxFaults BY <1>3 DEF VolumesAssumption
  <2>3. QED BY <1>1, <1>2, <1>3, <2>1, <2>2 DEF VTypeOK
<1>5. OpInv BY <1>3 DEF OpInv
<1>6. MountedExists /\ SecretsStayInMemory
  BY <1>1, <1>2 DEF MountedExists, SecretsStayInMemory
<1>7. DetachIsComplete BY <1>3 DEF DetachIsComplete
<1>8. QED BY <1>4, <1>5, <1>6, <1>7 DEF VolumesInv

\* Every step preserves it.
LEMMA VolumesInvStep ==
    ASSUME VolumesAssumption, VolumesInv, [VNext]_vvars
    PROVE  VolumesInv'
<1>1. CASE UNCHANGED vvars
  <2>1. UNCHANGED <<volumes, disk, tmpfs, named, keystore, op, done, attached, calls, vfaults>>
    BY <1>1 DEF vvars, fsVars
  <2>2. Paths' = Paths /\ NamedVolumes' = NamedVolumes BY <2>1 DEF Paths, NamedVolumes
  <2>3. VTypeOK' BY <2>1, <2>2 DEF VolumesInv, VTypeOK
  <2>4. OpInv' BY <2>1 DEF VolumesInv, OpInv, Here, Top, HasDirectory, get_emptydir_path
  <2>5. MountedExists' /\ SecretsStayInMemory'
    BY <2>1, <2>2 DEF VolumesInv, MountedExists, SecretsStayInMemory
  <2>6. DetachIsComplete'
    BY <2>1 DEF VolumesInv, DetachIsComplete, HasDirectory, get_emptydir_path
  <2>7. QED BY <2>3, <2>4, <2>5, <2>6 DEF VolumesInv
<1>2. CASE VNext
  <2>1. FsInv' BY <1>2, FsStep
  <2>2. Control' /\ OpInv' BY <1>2, ControlStep
  <2>3. volumes' \in Manifests BY <1>2 DEF VNext, VolumesInv, VTypeOK
  <2>4. VTypeOK' /\ MountedExists' /\ SecretsStayInMemory'
    BY <2>1, <2>2, <2>3 DEF FsInv, Control, OpType, DoneType, VTypeOK
  <2>5. DetachIsComplete' BY <1>2, DetachQuiet, DetachReturns
  <2>6. QED BY <2>2, <2>4, <2>5 DEF VolumesInv
<1>3. QED BY <1>1, <1>2

\* The inductive invariant of the volumes: their types, what is known of the
\* directory at each statement of attach_volume and detach_volume, that only a
\* directory that is there carries a mount, and the two properties below.
THEOREM VolumesInvCorrect == VSpec => []VolumesInv
<1>1. VInit => VolumesInv BY VolumesInvInit, VolumesAssumption
<1>2. VolumesInv /\ [VNext]_vvars => VolumesInv' BY VolumesInvStep, VolumesAssumption
<1>3. QED BY <1>1, <1>2, PTL DEF VSpec

\* A secret's value is never on disk and never in a tmpfs that others may enter:
\* the mount comes before the chmod, the chmod before the first write, and no
\* failure in between leads to a write.
THEOREM SecretsCorrect == VSpec => []SecretsStayInMemory
<1>1. VolumesInv => SecretsStayInMemory BY DEF VolumesInv
<1>2. QED BY <1>1, VolumesInvCorrect, PTL

\* detach_volume returns Ok only when the directory and its mounts are gone, and
\* Err only after a failed command or on a directory with two mounts.
THEOREM DetachCorrect == VSpec => []DetachIsComplete
<1>1. VolumesInv => DetachIsComplete BY DEF VolumesInv
<1>2. QED BY <1>1, VolumesInvCorrect, PTL

\* Only `gl volume rm` takes a file from a named volume.
THEOREM NamedCorrect == VSpec => NamedVolumePersists
<1> DEFINE Kept == \A n \in DOMAIN named :
                      \/ n \in DOMAIN named' /\ named[n] \subseteq named'[n]
                      \/ cmd_volume_remove(n)
<1>1. named' = named => Kept OBVIOUS
<1>2. \A name : named' = ensure(name) => Kept BY DEF ensure
<1>3. ASSUME VNext PROVE Kept
  <2>1. ASSUME NEW v \in volumes, attach_volume(v) \/ detach_volume(v) PROVE named' = named
    BY <2>1 DEF attach_volume, detach_volume, Call, fsVars
  <2>2. ASSUME NEW v \in volumes, ContainerWrites(v) PROVE Kept
    BY <2>2, <1>1 DEF ContainerWrites
  <2>3. CASE BadRef BY <1>1, <2>3 DEF BadRef, ReturnsAt, fsVars
  <2>4. CASE Attaching
    BY <1>1, <1>2, <2>4 DEF Attaching, ValidateHostpath, ReturnsAt, EnsureNamedVolume, CreateDir,
       MountTmpfs, RestrictDir, LoadSecret, WriteItem, SetPermissions, ItemsDone, fsVars
  <2>5. CASE Detaching
    BY <1>1, <2>5 DEF Detaching, NothingToDetach, ReturnsAt, CleanupExists,
         UnmountIfMounted, UmountFails, RemoveDir, fsVars
  <2>6. CASE CallFails BY <1>1, <2>6 DEF CallFails, fsVars
  <2>7. CASE Commands
    <3>1. ASSUME NEW r \in Secrets, delete_secret(r) \/ create_secret_from_literal(r, SecretKeys)
          PROVE  named' = named
      BY <3>1 DEF delete_secret, create_secret_from_literal, fsVars
    <3>2. ASSUME NEW n \in NamedVolumes, cmd_volume_create(n) PROVE Kept
      BY <1>2, <3>2 DEF cmd_volume_create
    <3>3. ASSUME NEW n \in NamedVolumes, cmd_volume_remove(n) PROVE Kept
      <4>1. \A m \in DOMAIN named : m # n => m \in DOMAIN named' /\ named'[m] = named[m]
        BY <3>3 DEF cmd_volume_remove
      <4>2. QED BY <3>3, <4>1
    <3>4. QED BY <1>1, <2>7, <3>1, <3>2, <3>3 DEF Commands
  <2>8. QED BY <1>1, <1>3, <2>1, <2>2, <2>3, <2>4, <2>5, <2>6, <2>7 DEF VNext
<1>4. [VNext]_vvars => [Kept]_vvars BY <1>3
<1>5. QED BY <1>4, PTL DEF VSpec, NamedVolumePersists

\* What is visible in a directory changes only with a step about that directory.
LEMMA ElsewhereKeeps ==
    ASSUME VTypeOK, NEW p \in Paths, NEW q \in Paths, p # q, Effect(q)
    PROVE  Visible(p)' = Visible(p)
<1>1. p \in DOMAIN tmpfs BY DEF VTypeOK
<1>2. /\ tmpfs'[p] = tmpfs[p]
      /\ p \in DOMAIN disk' <=> p \in DOMAIN disk
      /\ p \in DOMAIN disk => disk'[p] = disk[p]
  BY <1>1 DEF Effect, AddsDir, WithDir, AddsMount, Replaces, WritesDisk, Unmounts, RemovesDir
<1>3. QED BY <1>2 DEF Visible, Top

\* Two volumes that do not clash have two directories.
LEMMA OwnDirectory ==
    ASSUME NEW v \in volumes, v.kind = "emptyDir", ~NameClash(v),
           NEW w \in volumes, HasDirectory(w), w # v
    PROVE  get_emptydir_path(w) # get_emptydir_path(v)
BY DEF NameClash, HasDirectory, get_emptydir_path

\* A write of the container's own leaves its own data visible.
LEMMA OwnDataStays ==
    ASSUME VTypeOK, NEW v \in volumes, v.kind = "emptyDir", ContainerWrites(v)
    PROVE  HasOwnData(v)'
<1> DEFINE p == get_emptydir_path(v)
           new == Visible(p) \cup {File("own", "data", "0644")}
<1>1. /\ p \in DOMAIN disk
      /\ ChangeFiles(p, LAMBDA files : files \cup {File("own", "data", "0644")})
  BY DEF ContainerWrites
<1>2. p \in Paths /\ Changes(p, new) BY <1>1, OwnChanges
<1>3. Visible(p)' = new
  <2>1. CASE tmpfs[p] # <<>>
    <3>1. Top(p) \in Mounts BY <1>2, <2>1, VisibleFiles
    <3>2. tmpfs'[p] # <<>> /\ tmpfs'[p][Len(tmpfs'[p])] = [Top(p) EXCEPT !.files = new]
      BY <1>2, <2>1, ReplacedTop DEF Changes
    <3>3. [Top(p) EXCEPT !.files = new].files = new BY <3>1 DEF Mounts
    <3>4. p' = p BY DEF get_emptydir_path
    <3>5. QED BY <3>2, <3>3, <3>4 DEF Visible, Top
  <2>2. CASE tmpfs[p] = <<>>
    BY <1>2, <2>2 DEF Changes, WritesDisk, Visible
  <2>3. QED BY <2>1, <2>2
<1>4. File("own", "data", "0644") \in new /\ File("own", "data", "0644").content = "data"
  BY DEF File
<1>5. \E f \in Visible(p)' : f.content = "data" BY <1>3, <1>4
<1>6. QED BY <1>5 DEF HasOwnData

\* What the container wrote into an emptyDir stays visible until that volume is
\* attached again or detached, whatever is done with the others, unless the
\* names give two volumes one directory.
THEOREM EmptyDirCorrect == VSpec => EmptyDirKeepsData
<1> DEFINE Kept == \A v \in attached : v.kind = "emptyDir" /\ ~NameClash(v) /\ HasOwnData(v)
                                         => HasOwnData(v)' \/ op.vol = v
<1>1. ASSUME VolumesInv, VNext PROVE Kept
  <2> SUFFICES ASSUME NEW v \in attached, v.kind = "emptyDir", ~NameClash(v), HasOwnData(v),
                      op.vol # v
               PROVE  HasOwnData(v)'
    OBVIOUS
  <2> DEFINE p == get_emptydir_path(v)
  <2>1. VTypeOK /\ v \in volumes /\ p \in Paths
    BY <1>1, InvControl DEF VolumesInv, Paths, HasDirectory
  <2>2. Visible(p)' = Visible(p) => HasOwnData(v)'
    BY DEF HasOwnData, get_emptydir_path
  <2>3. CASE Keeps BY <2>2, <2>3 DEF Keeps, Visible, Top
  <2>4. CASE op # Idle /\ HasDirectory(op.vol) /\ Here \in Paths /\ Effect(Here)
    <3>1. op.vol \in volumes BY <2>1, <2>4 DEF VTypeOK
    <3>2. Here # p BY <2>1, <2>4, <3>1, OwnDirectory DEF Here
    <3>3. QED BY <2>1, <2>2, <2>4, <3>2, ElsewhereKeeps
  <2>5. ASSUME NEW w \in attached, ContainerWrites(w), w.kind = "emptyDir",
               get_emptydir_path(w) \in Paths, Effect(get_emptydir_path(w))
        PROVE  HasOwnData(v)'
    <3>1. CASE w = v BY <2>1, <2>5, <3>1, OwnDataStays
    <3>2. CASE w # v
      <4>1. w \in volumes /\ HasDirectory(w) BY <1>1, <2>5, InvControl DEF HasDirectory
      <4>2. get_emptydir_path(w) # p BY <2>1, <3>2, <4>1, OwnDirectory
      <4>3. QED BY <2>1, <2>2, <2>5, <4>2, ElsewhereKeeps
    <3>3. QED BY <3>1, <3>2
  <2>6. QED BY <1>1, <2>3, <2>4, <2>5, StepEffect, VolumesAssumption
<1>2. VolumesInv /\ [VNext]_vvars => [Kept]_vvars BY <1>1
<1>3. QED BY <1>2, VolumesInvCorrect, PTL DEF VSpec, EmptyDirKeepsData
=============================================================================
