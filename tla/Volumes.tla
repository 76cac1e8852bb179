------------------------------- MODULE Volumes -------------------------------
(***************************************************************************)
(* The volumes of one container: attach_volume, detach_volume (src/src/     *)
(* volumes), materialize_secret and the keystore (src/src/secrets), and the *)
(* `gl volume` commands other processes run meanwhile.  The caller makes    *)
(* one call at a time and may repeat calls in any order.                    *)
(*                                                                         *)
(* A directory under /var/lib/gl/state can carry several tmpfs mounts on    *)
(* top of each other; only the topmost is visible.                          *)
(***************************************************************************)
EXTENDS Integers, Sequences, FiniteSets, Functions

CONSTANTS
    Manifests,  \* the sets of volumes a container may declare
    HostPaths,  \* the host paths that exist
    Secrets,    \* the references "name@version" the keystore may hold
    Keys,       \* the names of the files of a secret or a config
    SecretKeys, \* the keys of a stored secret, in order
    MaxCalls,   \* bound: calls of attach_volume and detach_volume
    MaxFaults   \* bound: commands and system calls that fail

\* A volume name is the sequence of its parts: "secret-x" is <<"secret", "x">>.
\* ref is <<name, version>>, or <<>> when it does not parse.
Kinds == {"emptyDir", "config", "secret", "named", "hostPath"}

ASSUME VolumesAssumption ==
    /\ MaxCalls \in Nat /\ MaxFaults \in Nat
    /\ SecretKeys \in Seq(Keys)
    /\ "config" \notin Secrets /\ "data" \notin Secrets
    /\ \A v \in UNION Manifests :
                        /\ v.kind \in Kinds
                        /\ v.tmpfs \in BOOLEAN
                        /\ v.size \in {"none", "ok", "bad"}
                        /\ v.items \in Seq(Keys)
                        /\ v.ref = <<>> \/ v.ref \in Secrets

VARIABLES
    volumes,   \* the volumes of the container's manifest
    disk,      \* the state directories: a function from those that exist to
               \* the files on disk in them
    tmpfs,     \* the tmpfs mounts on each, bottom first
    named,     \* the named volumes that exist, with their files
    keystore,  \* the secrets of this process, with their keys
    op,        \* the call in progress: which, on what, where it stands
    done,      \* the call that returned last, and whether with Ok
    attached,  \* volumes attached with Ok and not detached since
    calls, vfaults

fsVars == <<disk, tmpfs, named>>
vvars == <<volumes, fsVars, keystore, op, done, attached, calls, vfaults>>

-----------------------------------------------------------------------------
(* Paths and files *)

\* Mutant: the directory does not depend on the volume.
get_emptydir_path_Shared(v) == <<"vol">>

\* A secret's directory is named after the secret, not after the volume.
get_emptydir_path(v) == IF v.kind = "secret" THEN <<"secret", v.ref[1]>> ELSE v.name

HasDirectory(v) == v.kind \in {"emptyDir", "config"} \/ (v.kind = "secret" /\ v.ref # <<>>)
Paths == {get_emptydir_path(v) : v \in {w \in volumes : HasDirectory(w)}}
NamedVolumes == {v.name : v \in {w \in volumes : w.kind = "named"}}

File(key, content, mode) == [key |-> key, content |-> content, mode |-> mode]
Top(p) == tmpfs[p][Len(tmpfs[p])]

\* create_dir_all of p: whatever is on the path already is left alone.
WithDir(p) == IF p \in DOMAIN disk THEN disk ELSE [q \in DOMAIN disk \cup {p} |->
                                                      IF q = p THEN {} ELSE disk[q]]

\* The visible files of p are changed by f: those of the topmost tmpfs, or those
\* on disk.
ChangeFiles(p, f(_)) ==
    IF tmpfs[p] # <<>>
    THEN /\ tmpfs' = [tmpfs EXCEPT ![p][Len(tmpfs[p])].files = f(@)]
         /\ UNCHANGED disk
    ELSE /\ disk' = [WithDir(p) EXCEPT ![p] = f(@)]
         /\ UNCHANGED tmpfs

Idle == [call |-> "none", vol |-> <<>>, at |-> "idle", i |-> 0, keys |-> <<>>, depth |-> 0]

VInit ==
    /\ volumes \in Manifests
    /\ disk = << >> /\ tmpfs = [p \in Paths |-> <<>>]
    /\ named = << >>
    /\ keystore = << >>
    /\ op = Idle
    /\ done = [call |-> "none", vol |-> <<>>, ok |-> TRUE, depth |-> 0, failed |-> FALSE]
    /\ attached = {}
    /\ calls = 0 /\ vfaults = 0

-----------------------------------------------------------------------------
(* Calls *)

Return(ok, failed) ==
    /\ op' = Idle
    /\ done' = [call |-> op.call, vol |-> op.vol, ok |-> ok, depth |-> op.depth,
                failed |-> failed]
    /\ attached' = CASE op.call = "attach" /\ ok -> attached \cup {op.vol}
                     [] op.call = "detach"       -> attached \ {op.vol}
                     [] OTHER                    -> attached

\* The call goes on at the statement `at`.
Continue(at) == op' = [op EXCEPT !.at = at] /\ UNCHANGED <<done, attached>>

At(call, at) == op.call = call /\ op.at = at

\* First statements of attach_volume and detach_volume for each kind.
FirstStep(call, v) ==
    CASE HasDirectory(v)     -> IF call = "attach" THEN "mkdir" ELSE "exists"
      [] v.kind = "hostPath" -> "host"
      [] v.kind = "named"    -> "named"
      [] v.kind = "secret" /\ v.ref = <<>> -> "bad_ref"

Call(call, v) ==
    /\ op = Idle /\ calls < MaxCalls
    /\ calls' = calls + 1
    /\ op' = [call |-> call, vol |-> v, at |-> FirstStep(call, v), i |-> 1,
              keys |-> v.items,
              depth |-> IF HasDirectory(v) THEN Len(tmpfs[get_emptydir_path(v)]) ELSE 0]
    /\ UNCHANGED <<fsVars, keystore, done, attached, vfaults>>

attach_volume(v) == Call("attach", v)
detach_volume(v) == Call("detach", v)

\* A statement of the call in progress that changes nothing and returns.
ReturnsAt(call, at, ok) ==
    /\ At(call, at)
    /\ Return(ok, FALSE)
    /\ UNCHANGED <<fsVars, keystore, calls, vfaults>>

\* Mutant: named volumes are cleaned up like the others.
DetachNamed_Removes ==
    /\ At("detach", "named")
    /\ named' = [n \in DOMAIN named \ {op.vol.name} |-> named[n]]
    /\ Return(TRUE, FALSE)
    /\ UNCHANGED <<disk, tmpfs, keystore, calls, vfaults>>

\* validate_hostpath; detaching a host path or a named volume does nothing.
ValidateHostpath == ReturnsAt("attach", "host", op.vol.name \in HostPaths)
NothingToDetach ==
    \/ ReturnsAt("detach", "host", TRUE)
    \/ ReturnsAt("detach", "named", TRUE)

\* parse_secret_ref fails.
BadRef == \E c \in {"attach", "detach"} : ReturnsAt(c, "bad_ref", FALSE)

\* ensure_named_volume: an existing volume is used as it is; a new one is made
\* before its size limit is parsed.
ensure(name) == IF name \in DOMAIN named THEN named
                ELSE [n \in DOMAIN named \cup {name} |->
                        IF n = name THEN {} ELSE named[n]]

EnsureNamedVolume ==
    /\ At("attach", "named")
    /\ named' = ensure(op.vol.name)
    /\ Return(op.vol.name \in DOMAIN named \/ op.vol.size # "bad", FALSE)
    /\ UNCHANGED <<disk, tmpfs, keystore, calls, vfaults>>

-----------------------------------------------------------------------------
(* create_emptydir, create_tmpfs_for_config, create_tmpfs_for_secret *)

Here == get_emptydir_path(op.vol)

CreateDir ==
    /\ At("attach", "mkdir")
    /\ disk' = WithDir(Here)
    /\ IF op.vol.kind = "emptyDir" /\ ~op.vol.tmpfs
       THEN Return(TRUE, FALSE) ELSE Continue("mount")
    /\ UNCHANGED <<tmpfs, named, keystore, calls, vfaults>>

\* A size that does not parse fails before the mount (only an emptyDir has one
\* of its own).  A new tmpfs is empty and open to everyone.
BadSize == op.vol.kind = "emptyDir" /\ op.vol.size = "bad"

MountTmpfs ==
    /\ At("attach", "mount")
    /\ IF BadSize THEN Return(FALSE, FALSE) /\ UNCHANGED tmpfs
       ELSE /\ tmpfs' = [tmpfs EXCEPT ![Here] =
                           Append(@, [mode |-> "1777", files |-> {}])]
            /\ CASE op.vol.kind = "emptyDir" -> Return(TRUE, FALSE)
                 [] op.vol.kind = "config"   -> Continue("write")
                 [] op.vol.kind = "secret"   -> Continue("chmod")
    /\ UNCHANGED <<disk, named, keystore, calls, vfaults>>

RestrictDir ==
    /\ At("attach", "chmod")
    /\ tmpfs' = [tmpfs EXCEPT ![Here][Len(tmpfs[Here])].mode = "0700"]
    /\ Continue("load")
    /\ UNCHANGED <<disk, named, keystore, calls, vfaults>>

\* keystore::load_secret clones what is stored under the reference.
LoadSecret ==
    /\ At("attach", "load")
    /\ IF op.vol.ref \in DOMAIN keystore
       THEN /\ op' = [op EXCEPT !.at = "write", !.keys = keystore[op.vol.ref]]
            /\ UNCHANGED <<done, attached>>
       ELSE Return(FALSE, FALSE)
    /\ UNCHANGED <<fsVars, keystore, calls, vfaults>>

\* One item: write (an existing file keeps its mode), then its permissions.
Content(v) == IF v.kind = "secret" THEN v.ref ELSE "config"

WriteItem ==
    /\ At("attach", "write") /\ op.i <= Len(op.keys)
    /\ LET k == op.keys[op.i]
           put(files) == {f \in files : f.key # k} \cup
                         {File(k, Content(op.vol),
                               IF \E f \in files : f.key = k
                               THEN (CHOOSE f \in files : f.key = k).mode ELSE "0644")}
       IN ChangeFiles(Here, put)
    /\ Continue("perms")
    /\ UNCHANGED <<named, keystore, calls, vfaults>>

SetPermissions ==
    /\ At("attach", "perms")
    /\ LET k == op.keys[op.i]
           mode == IF op.vol.kind = "secret" THEN "0400" ELSE "0444"
           set(files) == {IF f.key = k THEN [f EXCEPT !.mode = mode] ELSE f : f \in files}
       IN ChangeFiles(Here, set)
    /\ op' = [op EXCEPT !.at = "write", !.i = @ + 1]
    /\ UNCHANGED <<named, keystore, done, attached, calls, vfaults>>

ItemsDone ==
    /\ At("attach", "write") /\ op.i > Len(op.keys)
    /\ Return(TRUE, FALSE)
    /\ UNCHANGED <<fsVars, keystore, calls, vfaults>>

-----------------------------------------------------------------------------
(* cleanup_emptydir *)

CleanupExists ==
    /\ At("detach", "exists")
    /\ IF Here \in DOMAIN disk THEN Continue("umount") ELSE Return(TRUE, FALSE)
    /\ UNCHANGED <<fsVars, keystore, calls, vfaults>>

\* unmount_if_mounted takes the topmost mount away; its result is ignored, so a
\* failing umount is a step of its own (UmountFails).
UnmountIfMounted ==
    /\ At("detach", "umount")
    /\ tmpfs' = IF tmpfs[Here] = <<>> THEN tmpfs
                ELSE [tmpfs EXCEPT ![Here] = SubSeq(@, 1, Len(@) - 1)]
    /\ Continue("remove")
    /\ UNCHANGED <<disk, named, keystore, calls, vfaults>>

UmountFails ==
    /\ At("detach", "umount") /\ vfaults < MaxFaults /\ tmpfs[Here] # <<>>
    /\ vfaults' = vfaults + 1
    /\ Continue("remove_busy")
    /\ UNCHANGED <<fsVars, keystore, calls>>

\* Mutant: the error of remove_dir_all is dropped like that of the umount.
RemoveDir_Ignored ==
    /\ op.call = "detach" /\ op.at \in {"remove", "remove_busy"}
    /\ IF tmpfs[Here] = <<>>
       THEN disk' = [p \in DOMAIN disk \ {Here} |-> disk[p]] /\ UNCHANGED tmpfs
       ELSE ChangeFiles(Here, LAMBDA files : {})
    /\ Return(TRUE, op.at = "remove_busy")
    /\ UNCHANGED <<named, keystore, calls, vfaults>>

\* remove_dir_all empties what is visible; a directory that is still a mount
\* point cannot be removed itself.
RemoveDir ==
    /\ op.call = "detach" /\ op.at \in {"remove", "remove_busy"}
    /\ IF tmpfs[Here] = <<>>
       THEN disk' = [p \in DOMAIN disk \ {Here} |-> disk[p]] /\ UNCHANGED tmpfs
       ELSE ChangeFiles(Here, LAMBDA files : {})
    /\ Return(tmpfs[Here] = <<>>, op.at = "remove_busy")
    /\ UNCHANGED <<named, keystore, calls, vfaults>>

\* Mutant: a failing mount is ignored.
CallFails_Ignored ==
    /\ op # Idle /\ vfaults < MaxFaults
    /\ op.at = "mount" /\ op.vol.kind = "secret"
    /\ vfaults' = vfaults + 1
    /\ Continue("load")
    /\ UNCHANGED <<fsVars, keystore, calls>>

\* Any other command or system call of the call in progress fails.
CallFails ==
    /\ op # Idle /\ vfaults < MaxFaults
    /\ \/ op.at \in {"mkdir", "mount", "chmod", "write", "perms", "remove", "remove_busy"}
       \/ At("attach", "named") /\ op.vol.name \notin DOMAIN named
    /\ vfaults' = vfaults + 1
    /\ Return(FALSE, TRUE)
    /\ UNCHANGED <<fsVars, keystore, calls>>

-----------------------------------------------------------------------------
(* The container, the keystore and the volume commands *)

\* The container writes a file of its own into a volume it has been given.
ContainerWrites(v) ==
    /\ op = Idle /\ v \in attached
    /\ \/ /\ v.kind = "emptyDir" /\ get_emptydir_path(v) \in DOMAIN disk
          /\ ChangeFiles(get_emptydir_path(v),
                         LAMBDA files : files \cup {File("own", "data", "0644")})
          /\ UNCHANGED named
       \/ /\ v.kind = "named" /\ v.name \in DOMAIN named
          /\ named' = [named EXCEPT ![v.name] = @ \cup {File("own", "data", "0644")}]
          /\ UNCHANGED <<disk, tmpfs>>
    /\ UNCHANGED <<keystore, op, done, attached, calls, vfaults>>

others == <<op, done, attached, calls, vfaults>>

create_secret_from_literal(ref, keys) ==
    /\ keystore' = [r \in DOMAIN keystore \cup {ref} |->
                      IF r = ref THEN keys ELSE keystore[r]]
    /\ UNCHANGED <<fsVars, others>>

delete_secret(ref) ==
    /\ ref \in DOMAIN keystore
    /\ keystore' = [r \in DOMAIN keystore \ {ref} |-> keystore[r]]
    /\ UNCHANGED <<fsVars, others>>

cmd_volume_create(name) ==
    /\ named' = ensure(name)
    /\ UNCHANGED <<disk, tmpfs, keystore, others>>

\* remove_dir_all of a volume, whether or not a container uses it.
cmd_volume_remove(name) ==
    /\ name \in DOMAIN named
    /\ named' = [n \in DOMAIN named \ {name} |-> named[n]]
    /\ UNCHANGED <<disk, tmpfs, keystore, others>>

-----------------------------------------------------------------------------
Attaching ==
    \/ ValidateHostpath \/ EnsureNamedVolume \/ CreateDir \/ MountTmpfs \/ RestrictDir
    \/ LoadSecret \/ WriteItem \/ SetPermissions \/ ItemsDone
Detaching ==
    \/ NothingToDetach \/ CleanupExists \/ UnmountIfMounted \/ UmountFails \/ RemoveDir
Commands ==
    \/ \E r \in Secrets : delete_secret(r) \/ create_secret_from_literal(r, SecretKeys)
    \/ \E n \in NamedVolumes : cmd_volume_create(n) \/ cmd_volume_remove(n)

VNext ==
    /\ \/ \E v \in volumes : attach_volume(v) \/ detach_volume(v) \/ ContainerWrites(v)
       \/ BadRef \/ Attaching \/ Detaching \/ CallFails \/ Commands
    /\ UNCHANGED volumes

VSpec == VInit /\ [][VNext]_vvars

-----------------------------------------------------------------------------
(* Properties *)

\* The statements of a call on a volume with a directory, and of the other calls.
AttachSteps == {"mkdir", "mount", "chmod", "load", "write", "perms"}
DetachSteps == {"exists", "umount", "remove", "remove_busy"}
OtherSteps == {"host", "named", "bad_ref"}

Files == [key : Keys \cup {"own"}, content : Secrets \cup {"config", "data"},
          mode : {"0644", "0444", "0400"}]
Mounts == [mode : {"1777", "0700"}, files : SUBSET Files]

\* Type correctness of the volumes' state.
VTypeOK ==
    /\ volumes \in Manifests
    /\ DOMAIN disk \subseteq Paths /\ \A p \in DOMAIN disk : disk[p] \subseteq Files
    /\ DOMAIN tmpfs = Paths
    /\ \A p \in Paths : tmpfs[p] \in Seq(Mounts)
    /\ DOMAIN named \subseteq NamedVolumes
    /\ DOMAIN keystore \subseteq Secrets /\ \A r \in DOMAIN keystore : keystore[r] \in Seq(Keys)
    /\ op = Idle \/ op \in [call : {"attach", "detach"}, vol : volumes,
                            at : AttachSteps \cup DetachSteps \cup OtherSteps,
                            i : Nat \ {0}, keys : Seq(Keys), depth : Nat]
    /\ attached \subseteq volumes /\ (done.call # "none" => done.vol \in volumes)
    /\ calls \in 0..MaxCalls /\ vfaults \in 0..MaxFaults

IsSecret(f) == f.content \in Secrets

\* A secret's value is never on disk, and is only ever in a tmpfs whose directory
\* nobody else may enter, with every attach, retry, failure and detach of the
\* volumes that share a directory in between.
SecretsStayInMemory ==
    /\ \A p \in DOMAIN disk : \A f \in disk[p] : ~IsSecret(f)
    /\ \A p \in Paths : \A i \in DOMAIN tmpfs[p] :
          (\E f \in tmpfs[p][i].files : IsSecret(f)) => tmpfs[p][i].mode = "0700"

\* detach_volume that returns Ok has left neither the directory nor a mount, and
\* it returns Err only when a command failed or the directory carried two mounts
\* (a second attach stacks one).
DetachIsComplete ==
    (done.call = "detach" /\ HasDirectory(done.vol) /\ op = Idle) =>
        LET p == get_emptydir_path(done.vol) IN
        IF done.ok THEN p \notin DOMAIN disk /\ tmpfs[p] = <<>>
        ELSE done.failed \/ done.depth >= 2

\* What the container has written into an emptyDir stays visible until that very
\* volume is attached again or detached: no call on another volume of the
\* manifest takes it away, unless the two have one directory, being called the
\* same (nothing checks that) or one being a secret x, the other called secret-x.
NameClash(v) == \E w \in volumes \ {v} :
    w.name = v.name \/ (w.kind = "secret" /\ w.ref # <<>> /\ v.name = <<"secret", w.ref[1]>>)
Visible(p) == IF tmpfs[p] # <<>> THEN Top(p).files
              ELSE IF p \in DOMAIN disk THEN disk[p] ELSE {}
HasOwnData(v) == \E f \in Visible(get_emptydir_path(v)) : f.content = "data"

EmptyDirKeepsData ==
    [][\A v \in attached : v.kind = "emptyDir" /\ ~NameClash(v) /\ HasOwnData(v)
         => HasOwnData(v)' \/ op.vol = v]_vvars

\* Every step that takes a file from a named volume is a `gl volume rm`.
NamedVolumePersists ==
    [][\A n \in DOMAIN named :
          \/ n \in DOMAIN named' /\ named[n] \subseteq named'[n]
          \/ cmd_volume_remove(n)]_vvars

-----------------------------------------------------------------------------
(* The inductive invariant *)

\* What is known of the directory at each statement of a call.
OpInv ==
    op # Idle =>
        /\ op.at \in AttachSteps => op.call = "attach" /\ HasDirectory(op.vol)
        /\ op.at \in DetachSteps => op.call = "detach" /\ HasDirectory(op.vol)
        /\ op.at \in OtherSteps => ~HasDirectory(op.vol)
        /\ op.at = "named" => op.vol.kind = "named"
        /\ op.at \in AttachSteps \ {"mkdir"} => Here \in DOMAIN disk
        /\ op.at = "perms" => op.i <= Len(op.keys)
        /\ op.at = "chmod" => tmpfs[Here] # <<>>
        /\ op.at \in {"load", "write", "perms"} /\ op.vol.kind = "secret" =>
              tmpfs[Here] # <<>> /\ Top(Here).mode = "0700"
        /\ op.at \in {"exists", "umount"} => op.depth = Len(tmpfs[Here])
        /\ op.at = "remove" => tmpfs[Here] = <<>> \/ op.depth >= 2

\* Only a directory that is there carries a mount.
MountedExists == \A p \in Paths : tmpfs[p] # <<>> => p \in DOMAIN disk

VolumesInv == VTypeOK /\ OpInv /\ MountedExists /\ SecretsStayInMemory /\ DetachIsComplete
=============================================================================
