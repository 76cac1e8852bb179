--------------------------- MODULE ContainerStart ----------------------------
(***************************************************************************)
(* start_container and container_child_exec (src/src/pod.rs), with the      *)
(* overlays of src/src/isolate/overlay.rs, do_chroot and the container's     *)
(* cgroup, on top of the pod networks of several gardens on one host.        *)
(*                                                                         *)
(* Every run has one container.  The supervisor prepares the root and the    *)
(* cgroup and forks; the child then goes on by itself, also when its         *)
(* supervisor stops or dies before the child has asked to die with it.       *)
(***************************************************************************)
EXTENDS PodNetwork, Sequences

CONSTANTS
    NameOf,     \* the container's name in each run
    Rootfses    \* what the manifests may say: functions from the runs to
                \* [layers |-> a list of layers or a path, found |-> the lower
                \*  directories or the path exist, host |-> the root shows the
                \*  host's /sys/fs/cgroup]

ASSUME StartAssumption ==
    Rootfses \subseteq [Pods -> [layers : BOOLEAN, found : BOOLEAN, host : BOOLEAN]]

Names == {NameOf[p] : p \in Pods}

VARIABLES
    rootfs,    \* the manifests of this behaviour
    stage,     \* how far each run's container is
    overlays,  \* the overlays on /tmp/gl-merged-<name>, bottom first, each
               \* named by the run that mounted it
    root,      \* what the container sees as its root: the path of its own
               \* manifest (p itself), or the overlay of a run
    groups,    \* the gardens with a directory for the container's cgroup
    (* history *)
    before     \* how many overlays the start found on its merged directory

startVars == <<rootfs, stage, overlays, root, groups, before>>
allVars == <<vars, startVars>>

Child == {"forked", "joined", "rooted", "grouped", "started"}   \* it is running

StartInit ==
    /\ Init
    /\ rootfs \in Rootfses
    /\ stage = [p \in Pods |-> "none"]
    /\ overlays = [n \in Names |-> <<>>]
    /\ root = [p \in Pods |-> None]
    /\ groups = {}
    /\ before = [p \in Pods |-> 0]

To(p, s) == stage' = [stage EXCEPT ![p] = s]
At(p, s) == stage[p] = s

-----------------------------------------------------------------------------
(* The supervisor: start_container *)

Starting(p, s) == pc[p] = "running" /\ At(p, s)

\* Mutant: a merged directory that is there already is taken to be mounted.
PrepareRootfs_Reuses(p) ==
    /\ Starting(p, "none")
    /\ overlays' = IF rootfs[p].layers /\ overlays[NameOf[p]] = <<>>
                   THEN [overlays EXCEPT ![NameOf[p]] = <<p>>] ELSE overlays
    /\ before' = [before EXCEPT ![p] = Len(overlays[NameOf[p]])]
    /\ To(p, "prepared")
    /\ UNCHANGED <<vars, rootfs, root, groups>>

\* A path is used as it is; layers are mounted over whatever is on the merged
\* directory, which depends on the container's name only and is never unmounted
\* (cleanup_rootfs is not called).
prepare_rootfs(p) == IF rootfs[p].layers
                     THEN [overlays EXCEPT ![NameOf[p]] = Append(@, p)] ELSE overlays

\* The lower directories, or the path, must be there.
PrepareRootfs(p) ==
    /\ Starting(p, "none")
    /\ rootfs[p].found
    /\ overlays' = prepare_rootfs(p)
    /\ before' = [before EXCEPT ![p] = Len(overlays[NameOf[p]])]
    /\ To(p, "prepared")
    /\ UNCHANGED <<vars, rootfs, root, groups>>

\* setup_cgroup_for_container: create_cgroup takes an existing directory.
SetupCgroup(p) ==
    /\ Starting(p, "prepared")
    /\ groups' = groups \cup {GardenOf[p]}
    /\ To(p, "limited")
    /\ UNCHANGED <<vars, rootfs, overlays, root, before>>

Fork(p) ==
    /\ Starting(p, "limited")
    /\ To(p, "forked")
    /\ UNCHANGED <<vars, rootfs, overlays, root, groups, before>>

\* A missing root, or a call that fails, ends start() and with it gl; the overlay
\* and the network stay.
StartFails(p) ==
    /\ stage[p] \in {"none", "prepared", "limited"}
    /\ "command" \in Faults \/ (At(p, "none") /\ ~rootfs[p].found)
    /\ ContainerFails(p)
    /\ UNCHANGED startVars

-----------------------------------------------------------------------------
(* The child: container_child_exec *)

\* Mutant: the child does not look for the pod's namespace.
EnterNetns_Skips(p) ==
    /\ At(p, "forked")
    /\ joined' = [joined EXCEPT ![p] = Host]
    /\ To(p, "joined")
    /\ UNCHANGED <<podVars, bridge, bound, hostEth0, nsEth0, veth, inside, rootfs, overlays,
                   root, groups, before>>

\* set_pdeathsig, setsid, and setns when the pod's namespace has a name.
EnterNetns(p) ==
    /\ At(p, "forked") /\ Join(p)
    /\ To(p, "joined")
    /\ UNCHANGED <<rootfs, overlays, root, groups, before>>

\* do_chroot: the directory is looked up now, so the topmost overlay counts.
ChangeRoot(p) ==
    /\ At(p, "joined")
    /\ root' = [root EXCEPT ![p] =
                  IF rootfs[p].layers THEN overlays[NameOf[p]][Len(overlays[NameOf[p]])] ELSE p]
    /\ To(p, "rooted")
    /\ UNCHANGED <<vars, rootfs, overlays, groups, before>>

\* move_pid_to_cgroup opens /sys/fs/cgroup/garden/... inside the new root; an
\* error ends the child with exit(127).
MoveToCgroup(p) ==
    /\ At(p, "rooted")
    /\ IF rootfs[root[p]].host /\ GardenOf[p] \in groups
       THEN To(p, "grouped") /\ UNCHANGED vars
       ELSE To(p, "exit127") /\ ContainersGone(p)
    /\ UNCHANGED <<rootfs, overlays, root, groups, before>>

\* chdir, the environment, no_new_privs, CONTAINER_START and execv.
Execv(p) ==
    /\ At(p, "grouped")
    /\ To(p, "started")
    /\ UNCHANGED <<vars, rootfs, overlays, root, groups, before>>

\* A call of the child fails before execv.
ChildFails(p) ==
    /\ "command" \in Faults /\ stage[p] \in Child \ {"started"}
    /\ To(p, "exit127") /\ ContainersGone(p)
    /\ UNCHANGED <<rootfs, overlays, root, groups, before>>

\* The program ends; or the supervisor's SIGTERM or SIGKILL, or its death once the
\* child has asked for PR_SET_PDEATHSIG, ends the child wherever it is.
ChildEnds(p) ==
    /\ \/ At(p, "started")
       \/ stage[p] \in Child /\ pc[p] = "running"
       \/ stage[p] \in Child \ {"forked"} /\ Finished(p)
    /\ To(p, "ended") /\ ContainersGone(p)
    /\ UNCHANGED <<rootfs, overlays, root, groups, before>>

-----------------------------------------------------------------------------
NetworkStep(p) ==
    /\ \/ Setup(p)
       \/ Crash(p)
       \/ stage[p] \in Child \cup {"exit127", "ended"} /\ CleanupNetwork(p)
    /\ UNCHANGED startVars

StartStep(p) ==
    \/ PrepareRootfs(p) \/ SetupCgroup(p) \/ Fork(p) \/ StartFails(p)
    \/ EnterNetns(p) \/ ChangeRoot(p) \/ MoveToCgroup(p) \/ Execv(p)
    \/ ChildFails(p) \/ ChildEnds(p)

AllDone ==
    /\ \A p \in Pods : Finished(p) /\ stage[p] \notin Child
    /\ UNCHANGED allVars

StartNext == (\E p \in Pods : NetworkStep(p) \/ StartStep(p)) \/ AllDone

StartSpec == StartInit /\ [][StartNext]_allVars

\* A child that can go on goes on; the same is asked of the supervisor's start.
Goes(p) ==
    \/ PrepareRootfs(p) \/ SetupCgroup(p) \/ Fork(p)
    \/ EnterNetns(p) \/ ChangeRoot(p) \/ MoveToCgroup(p) \/ Execv(p)
FairStartSpec == StartSpec /\ \A p \in Pods : WF_allVars(Goes(p))

-----------------------------------------------------------------------------
(* Properties *)

\* Type correctness of the containers' state.
StartTypeOK ==
    /\ TypeOK
    /\ rootfs \in Rootfses
    /\ stage \in [Pods -> Child \cup {"none", "prepared", "limited", "exit127", "ended"}]
    /\ overlays \in [Names -> Seq(Pods)]
    /\ root \in [Pods -> Pods \cup {None}]
    /\ groups \subseteq Gardens
    /\ before \in [Pods -> Nat]

\* The container of a running pod is in a namespace with its own pod's eth0 and
\* never on the host's network, although setns is skipped without a word when the
\* namespace has no name, and earlier runs of the garden may have crashed.
ContainerOnPodNetwork ==
    \A p \in Pods : pc[p] = "running" /\ joined[p] # None /\ stage[p] \in Child =>
        joined[p] # Host /\ nsEth0[joined[p]] = p

\* A container never gets the root of a start that was over before its own began,
\* although overlays are never unmounted and gardens share the merged directory
\* of a container name.  (A start that overlaps with its own can get between.)
RootIsNotStale ==
    \A p \in Pods : root[p] # None /\ rootfs[p].layers =>
        \E i \in DOMAIN overlays[NameOf[p]] :
            i > before[p] /\ overlays[NameOf[p]][i] = root[p]

\* What makes it so: from its own start on, a container with layers finds at least
\* its own overlay above those that were there before, and it has no root sooner.
OverlayInv ==
    \A p \in Pods :
        /\ stage[p] = "none" => root[p] = None
        /\ stage[p] # "none" /\ rootfs[p].layers => before[p] < Len(overlays[NameOf[p]])

\* The inductive invariant of the composition.
StartInv == NetworkInv /\ StartTypeOK /\ OverlayInv /\ RootIsNotStale

\* "POD_NET_READY -> CONTAINER_START x N -> CONTAINER_EXIT x N -> POD_EXIT"
\* (README.md): a container that was forked gets to CONTAINER_START and execv,
\* unless it is stopped before.  It does not: the cgroup is written to after
\* chroot, through a path that an ordinary root does not have.
ContainerStarts ==
    \A p \in Pods : At(p, "forked") ~> stage[p] \in {"started", "ended"}
=============================================================================
