----------------------------- MODULE PodNetwork ------------------------------
(***************************************************************************)
(* setup_pod_network and cleanup_network (src/src/pod.rs) with the `ip`      *)
(* commands of src/src/isolate/net.rs, for several supervisors on one host.  *)
(*                                                                         *)
(* Every supervisor is a process of its own; what they share is the kernel's *)
(* network state: the bridge, the named namespaces and the links.  Each `ip` *)
(* command is one step, can fail for reasons of its own, and fails when the  *)
(* name it would create is taken.                                           *)
(***************************************************************************)
EXTENDS Integers, FiniteSets

CONSTANTS
    Pods,       \* the runs of gardens on this host
    GardenOf,   \* garden.meta.id of each run: netns_name is glns-<id>
    VethNames,  \* what the host links may be called: veth-<first eight
                \* characters of meta.name>, one function for each choice
    Address,    \* garden.net.ip of each run, or AutoIp
    AutoIp,
    FirstIp,    \* what a new IpAllocator hands out first
    None, Nic, Host,
    Faults      \* subset of {"command", "crash"}

ASSUME NetworkAssumption ==
    /\ None \notin Pods /\ Nic \notin Pods /\ Host \notin Pods
    /\ Nic # None /\ Host # None
    /\ Faults \subseteq {"command", "crash"}

Gardens == {GardenOf[p] : p \in Pods}
Veths == UNION {{f[p] : p \in Pods} : f \in VethNames}

VARIABLES
    pc,        \* where each supervisor stands
    vethOf,    \* the name of each run's host link
    podIp,     \* pod_ip, once known
    ready,     \* the supervisors that have appended POD_NET_READY
    inside,    \* the runs with a container process in the namespace they joined
    (* the kernel; a namespace is named by the run that created it *)
    bridge,    \* "absent", "down", "up" or "addressed"
    bound,     \* /var/run/netns/glns-<id>: the namespace the name stands for
    joined,    \* the namespace a run's containers are in: a run's, or Host
    hostEth0,  \* the link named eth0 in the host's namespace: Nic, a run's, or None
    nsEth0,    \* the run whose veth peer is eth0 in each namespace
    veth       \* the run that owns each host link, and its state

podVars == <<pc, vethOf, podIp, ready>>
kernel == <<bridge, bound, joined, hostEth0, nsEth0, veth, inside>>
vars == <<podVars, kernel>>

NoLink == [owner |-> None, master |-> FALSE, up |-> FALSE]

Init ==
    /\ pc = [p \in Pods |-> "new"]
    /\ vethOf \in VethNames
    /\ podIp = [p \in Pods |-> None]
    /\ ready = {} /\ inside = {}
    /\ bridge = "absent"
    /\ bound = [g \in Gardens |-> None]
    /\ joined = [p \in Pods |-> None]
    /\ hostEth0 \in {None, Nic}
    /\ nsEth0 = [p \in Pods |-> None]
    /\ veth = [v \in Veths |-> NoLink]

Goto(p, to) == pc' = [pc EXCEPT ![p] = to]
Finished(p) == pc[p] \in {"stopped", "warned", "err", "crashed"}

\* The operator does not run one garden twice at the same time; running it
\* again after its last run has ended, in whatever way, is fine, and so is doing
\* it while containers of that run are still alive.
Begin(p) ==
    /\ pc[p] = "new"
    /\ \A q \in Pods \ {p} : GardenOf[q] = GardenOf[p] =>
          pc[q] = "new" \/ Finished(q)
    /\ Goto(p, "bridge_exists")
    /\ UNCHANGED <<vethOf, podIp, ready, kernel>>

\* A command fails, or the Store refuses the event, and `?` ends start();
\* nothing is undone.
SetupPoints == {"bridge_exists", "add_bridge", "bridge_up", "bridge_addr", "netns_exists",
                "add_netns", "allocate", "add_veth", "move_veth", "master_veth", "up_veth",
                "net_ready"}
CommandFails(p) ==
    /\ "command" \in Faults
    /\ pc[p] \in SetupPoints
    /\ Goto(p, "err")
    /\ UNCHANGED <<vethOf, podIp, ready, kernel>>

-----------------------------------------------------------------------------
(* ensure_bridge *)

BridgeExists(p) ==
    /\ pc[p] = "bridge_exists"
    /\ Goto(p, IF bridge = "absent" THEN "add_bridge" ELSE "netns_exists")
    /\ UNCHANGED <<vethOf, podIp, ready, kernel>>

AddBridge(p) ==
    /\ pc[p] = "add_bridge"
    /\ IF bridge = "absent" THEN bridge' = "down" /\ Goto(p, "bridge_up")
                            ELSE UNCHANGED bridge /\ Goto(p, "err")
    /\ UNCHANGED <<vethOf, podIp, ready, bound, joined, hostEth0, nsEth0, veth, inside>>

BridgeUp(p) ==
    /\ pc[p] = "bridge_up"
    /\ bridge' = "up" /\ Goto(p, "bridge_addr")
    /\ UNCHANGED <<vethOf, podIp, ready, bound, joined, hostEth0, nsEth0, veth, inside>>

BridgeAddr(p) ==
    /\ pc[p] = "bridge_addr"
    /\ bridge' = "addressed" /\ Goto(p, "netns_exists")
    /\ UNCHANGED <<vethOf, podIp, ready, bound, joined, hostEth0, nsEth0, veth, inside>>

-----------------------------------------------------------------------------
(* create_netns and the address *)

NetnsExists(p) ==
    /\ pc[p] = "netns_exists"
    /\ Goto(p, IF bound[GardenOf[p]] = None THEN "add_netns" ELSE "allocate")
    /\ UNCHANGED <<vethOf, podIp, ready, kernel>>

AddNetns(p) ==
    /\ pc[p] = "add_netns"
    /\ IF bound[GardenOf[p]] = None
       THEN bound' = [bound EXCEPT ![GardenOf[p]] = p] /\ Goto(p, "allocate")
       ELSE UNCHANGED bound /\ Goto(p, "err")
    /\ UNCHANGED <<vethOf, podIp, ready, bridge, joined, hostEth0, nsEth0, veth, inside>>

\* Without an address in the manifest a new IpAllocator is asked for one.
AllocateIp(p) ==
    /\ pc[p] = "allocate"
    /\ podIp' = [podIp EXCEPT ![p] = IF Address[p] = AutoIp THEN FirstIp ELSE Address[p]]
    /\ Goto(p, "add_veth")
    /\ UNCHANGED <<vethOf, ready, kernel>>

-----------------------------------------------------------------------------
(* setup_veth_pair *)

\* Mutant: a failure of `ip link add` is ignored.
AddVeth_Ignored(p) ==
    /\ pc[p] = "add_veth"
    /\ IF veth[vethOf[p]] = NoLink /\ hostEth0 = None
       THEN veth' = [veth EXCEPT ![vethOf[p]].owner = p] /\ hostEth0' = p
       ELSE UNCHANGED <<veth, hostEth0>>
    /\ Goto(p, "move_veth")
    /\ UNCHANGED <<vethOf, podIp, ready, bridge, bound, joined, nsEth0, inside>>

\* Both ends are created in the host's namespace, the pod's as eth0.
AddVeth(p) ==
    /\ pc[p] = "add_veth"
    /\ IF veth[vethOf[p]] = NoLink /\ hostEth0 = None
       THEN /\ veth' = [veth EXCEPT ![vethOf[p]].owner = p]
            /\ hostEth0' = p
            /\ Goto(p, "move_veth")
       ELSE UNCHANGED <<veth, hostEth0>> /\ Goto(p, "err")
    /\ UNCHANGED <<vethOf, podIp, ready, bridge, bound, joined, nsEth0, inside>>

\* Whatever is called eth0 on the host moves to the namespace of that name,
\* unless that has an eth0 already.
MoveVeth(p) ==
    /\ pc[p] = "move_veth"
    /\ LET ns == bound[GardenOf[p]] IN
       IF ns # None /\ hostEth0 # None /\ nsEth0[ns] = None
       THEN /\ nsEth0' = [nsEth0 EXCEPT ![ns] = hostEth0]
            /\ hostEth0' = None
            /\ Goto(p, "master_veth")
       ELSE UNCHANGED <<nsEth0, hostEth0>> /\ Goto(p, "err")
    /\ UNCHANGED <<vethOf, podIp, ready, bridge, bound, joined, veth, inside>>

\* Mutant: the host link is brought up without being attached to the bridge.
MasterVeth_Skips(p) ==
    /\ pc[p] = "master_veth"
    /\ Goto(p, "up_veth")
    /\ UNCHANGED <<vethOf, podIp, ready, kernel>>

MasterVeth(p) ==
    /\ pc[p] = "master_veth"
    /\ IF veth[vethOf[p]].owner # None
       THEN veth' = [veth EXCEPT ![vethOf[p]].master = TRUE] /\ Goto(p, "up_veth")
       ELSE UNCHANGED veth /\ Goto(p, "err")
    /\ UNCHANGED <<vethOf, podIp, ready, bridge, bound, joined, hostEth0, nsEth0, inside>>

UpVeth(p) ==
    /\ pc[p] = "up_veth"
    /\ IF veth[vethOf[p]].owner # None
       THEN veth' = [veth EXCEPT ![vethOf[p]].up = TRUE] /\ Goto(p, "net_ready")
       ELSE UNCHANGED veth /\ Goto(p, "err")
    /\ UNCHANGED <<vethOf, podIp, ready, bridge, bound, joined, hostEth0, nsEth0, inside>>

\* The event POD_NET_READY.
NetReady(p) ==
    /\ pc[p] = "net_ready"
    /\ ready' = ready \cup {p}
    /\ Goto(p, "running")
    /\ UNCHANGED <<vethOf, podIp, kernel>>

-----------------------------------------------------------------------------
(* The containers, and the end of a run *)

\* setns of the container processes through /var/run/netns, any time after the
\* supervisor has forked them; when the name is gone by then they stay where
\* they are, in the host's namespace.
Join(p) ==
    /\ p \in ready /\ joined[p] = None
    /\ IF bound[GardenOf[p]] # None
       THEN /\ joined' = [joined EXCEPT ![p] = bound[GardenOf[p]]]
            /\ inside' = inside \cup {p}
       ELSE joined' = [joined EXCEPT ![p] = Host] /\ UNCHANGED inside
    /\ UNCHANGED <<podVars, bridge, bound, hostEth0, nsEth0, veth>>

\* The kernel destroys a namespace nothing refers to, and with its eth0 the
\* host end of the pair.
Destroyed(ns, b, in) ==
    /\ \A g \in Gardens : b[g] # ns
    /\ \A q \in in : joined[q] # ns
Collect(b, in) ==
    LET dead == {ns \in Pods : Destroyed(ns, b, in) /\ nsEth0[ns] # None}
        gone == {nsEth0[ns] : ns \in dead}
    IN /\ nsEth0' = [ns \in Pods |-> IF ns \in dead THEN None ELSE nsEth0[ns]]
       /\ veth' = [v \in Veths |-> IF veth[v].owner \in gone THEN NoLink ELSE veth[v]]

\* The container process of p is gone.
ContainersGone(p) ==
    /\ p \in ready
    /\ inside' = inside \ {p}
    /\ Collect(bound, inside')
    /\ UNCHANGED <<podVars, bridge, bound, joined, hostEth0>>

\* A container cannot be started and `?` ends start(); nothing is undone.
ContainerFails(p) ==
    /\ pc[p] = "running"
    /\ Goto(p, "err")
    /\ UNCHANGED <<vethOf, podIp, ready, kernel>>

\* Mutant: the pod is stopped without deleting its namespace.
CleanupNetwork_Keeps(p) ==
    /\ pc[p] = "running"
    /\ Goto(p, "stopped")
    /\ UNCHANGED <<vethOf, podIp, ready, kernel>>

\* delete_netns; a failure is only a warning, and the stop goes on.  Containers may still be alive
\* (stop_all sends no signal) and keep the namespace in being.
CleanupNetwork(p) ==
    /\ pc[p] = "running"
    /\ \/ /\ bound' = [bound EXCEPT ![GardenOf[p]] = None]
          /\ Collect(bound', inside)
          /\ Goto(p, "stopped")
       \/ /\ "command" \in Faults
          /\ Goto(p, "warned")
          /\ UNCHANGED <<bound, nsEth0, veth>>
    /\ UNCHANGED <<vethOf, podIp, ready, bridge, joined, hostEth0, inside>>

Crash(p) ==
    /\ "crash" \in Faults
    /\ pc[p] # "new" /\ ~Finished(p)
    /\ Goto(p, "crashed")
    /\ UNCHANGED <<vethOf, podIp, ready, kernel>>

-----------------------------------------------------------------------------
Setup(p) ==
    \/ Begin(p) \/ CommandFails(p)
    \/ BridgeExists(p) \/ AddBridge(p) \/ BridgeUp(p) \/ BridgeAddr(p)
    \/ NetnsExists(p) \/ AddNetns(p) \/ AllocateIp(p)
    \/ AddVeth(p) \/ MoveVeth(p) \/ MasterVeth(p) \/ UpVeth(p) \/ NetReady(p)

Step(p) ==
    \/ Setup(p)
    \/ Join(p) \/ ContainersGone(p) \/ ContainerFails(p) \/ CleanupNetwork(p) \/ Crash(p)

AllFinished == (\A p \in Pods : Finished(p)) /\ UNCHANGED vars

Next == (\E p \in Pods : Step(p)) \/ AllFinished

Spec == Init /\ [][Next]_vars

-----------------------------------------------------------------------------
(* Properties *)

\* Type correctness of the supervisors' and the kernel's network state.
TypeOK ==
    /\ pc \in [Pods -> SetupPoints \cup {"new", "running", "stopped", "warned", "err",
                                   "crashed"}]
    /\ vethOf \in VethNames
    /\ ready \subseteq Pods /\ inside \subseteq Pods
    /\ bridge \in {"absent", "down", "up", "addressed"}
    /\ bound \in [Gardens -> Pods \cup {None}]
    /\ joined \in [Pods -> Pods \cup {None, Host}]
    /\ hostEth0 \in Pods \cup {Nic, None}
    /\ nsEth0 \in [Pods -> Pods \cup {None}]
    /\ veth \in [Veths -> [owner : Pods \cup {None}, master : BOOLEAN, up : BOOLEAN]]

\* A pod that reported POD_NET_READY and has not been stopped is connected: the
\* name of its garden stands for a namespace whose eth0 is the peer of its own
\* host link, which is up and on the bridge, whatever other supervisors with
\* the same link name, and earlier runs of the same garden, did or left behind.
ReadyIsConnected ==
    \A p \in ready : pc[p] = "running" =>
        /\ bound[GardenOf[p]] # None
        /\ nsEth0[bound[GardenOf[p]]] = p
        /\ veth[vethOf[p]] = [owner |-> p, master |-> TRUE, up |-> TRUE]

\* What makes it so.  One run of a garden is under way at a time.
Active(p) == pc[p] # "new" /\ ~Finished(p)
OneActive == \A p, q \in Pods : Active(p) /\ Active(q) /\ GardenOf[p] = GardenOf[q] => p = q

\* A namespace comes into being with `ip netns add` of the run it is named by, and
\* a garden's name only ever stands for a namespace of a run of that garden.
Early(p) == pc[p] \in {"new", "bridge_exists", "add_bridge", "bridge_up", "bridge_addr",
                       "netns_exists", "add_netns"}
NamesInv ==
    /\ \A g \in Gardens : bound[g] # None => GardenOf[bound[g]] = g
    /\ \A p \in Pods : Early(p) => nsEth0[p] = None /\ \A g \in Gardens : bound[g] # p

\* The peer of a run's link is in one place: on the host, from the creation of the
\* pair to its move (or for ever, if the move is never made), or in one namespace.
HostEth0Inv ==
    /\ \A p \in Pods : pc[p] = "move_veth" => hostEth0 = p
    /\ \A p \in Pods : hostEth0 = p =>
          /\ pc[p] \in {"move_veth", "err", "crashed"}
          /\ veth[vethOf[p]].owner = p
          /\ \A ns \in Pods : nsEth0[ns] # p
PeerInv ==
    /\ \A a, b \in Pods : nsEth0[a] # None /\ nsEth0[a] = nsEth0[b] => a = b
    /\ \A p, ns \in Pods : nsEth0[ns] = p =>
          pc[p] \in {"master_veth", "up_veth", "net_ready", "running"} \/ Finished(p)
    /\ \A v \in Veths : veth[v].owner # None =>
          /\ v = vethOf[veth[v].owner]
          /\ hostEth0 = veth[v].owner \/ \E ns \in Pods : nsEth0[ns] = veth[v].owner

\* From its move on the peer is where the garden's name leads, and the host's end
\* gets the bridge and the state `up` one after the other.
Moved(p) == pc[p] \in {"master_veth", "up_veth", "net_ready", "running"}
ConnectedInv ==
    \A p \in Pods : Moved(p) =>
        /\ bound[GardenOf[p]] # None /\ nsEth0[bound[GardenOf[p]]] = p
        /\ veth[vethOf[p]].owner = p
        /\ pc[p] # "master_veth" => veth[vethOf[p]].master
        /\ pc[p] \in {"net_ready", "running"} => veth[vethOf[p]].up

\* Containers follow POD_NET_READY; while the pod runs they are where its name leads.
JoinedInv ==
    /\ \A p \in ready : pc[p] = "running" \/ Finished(p)
    /\ \A p \in Pods : joined[p] # None => p \in ready
    /\ \A p \in Pods : pc[p] = "running" /\ joined[p] # None => joined[p] = bound[GardenOf[p]]

\* An eth0 lives in a namespace with a name or a process; that of a stopped pod in
\* one without a name.
NamespaceInv ==
    /\ \A ns \in Pods : nsEth0[ns] # None =>
          (\E g \in Gardens : bound[g] = ns) \/ (\E q \in inside : joined[q] = ns)
    /\ \A p \in Pods : pc[p] = "stopped" =>
          \A g \in Gardens : bound[g] # None => nsEth0[bound[g]] # p

\* The inductive invariant of the pod networks.
NetworkInv ==
    /\ TypeOK /\ OneActive /\ NamesInv /\ HostEth0Inv /\ PeerInv
    /\ ConnectedInv /\ JoinedInv /\ NamespaceInv

\* A network card of the host that is called eth0 is never moved into a pod.
HostNicStays == [][hostEth0 = Nic => hostEth0' = Nic]_vars

\* A stopped pod leaves no link on the host, and its eth0 only where a process is
\* still alive, although nothing ever deletes a link (cleanup_veth is not called):
\* the namespace takes both ends away when its last process has gone.
StoppedLeavesNothing ==
    \A p \in Pods : pc[p] = "stopped" =>
        /\ hostEth0 # p
        /\ \A v \in Veths : veth[v].owner = p => \E ns \in Pods : nsEth0[ns] = p
        /\ \A ns \in Pods : nsEth0[ns] = p => \E q \in inside : joined[q] = ns
=============================================================================
