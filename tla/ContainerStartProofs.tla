------------------------ MODULE ContainerStartProofs -------------------------
(***************************************************************************)
(* The pod networks under running containers are pod networks: every step   *)
(* of the composition is a step of PodNetwork or leaves the network alone,   *)
(* so what holds of the component holds of the composition.                  *)
(***************************************************************************)
EXTENDS ContainerStart, SequenceTheorems, TLAPS

\* The supervisors' and the kernel's own steps.
LEMMA NetworkSteps ==
    ASSUME NEW p \in Pods, NetworkStep(p)
    PROVE  Next
BY DEF NetworkStep, Next, Step

\* The supervisor's part of a container's start fails or touches no network.
LEMMA SupervisorSteps ==
    ASSUME NEW p \in Pods,
           PrepareRootfs(p) \/ SetupCgroup(p) \/ Fork(p) \/ StartFails(p)
    PROVE  [Next]_vars
<1>1. CASE StartFails(p)
  BY <1>1 DEF StartFails, Next, Step
<1>2. CASE PrepareRootfs(p) \/ SetupCgroup(p) \/ Fork(p)
  BY <1>2 DEF PrepareRootfs, SetupCgroup, Fork
<1> QED
  BY <1>1, <1>2

\* The child joins a namespace, ends, or touches no network.
LEMMA ChildSteps ==
    ASSUME NEW p \in Pods,
           \/ EnterNetns(p) \/ ChangeRoot(p) \/ MoveToCgroup(p) \/ Execv(p)
           \/ ChildFails(p) \/ ChildEnds(p)
    PROVE  [Next]_vars
<1>1. CASE EnterNetns(p)
  BY <1>1 DEF EnterNetns, Next, Step
<1>2. CASE ChangeRoot(p) \/ Execv(p)
  BY <1>2 DEF ChangeRoot, Execv
<1>3. CASE MoveToCgroup(p)
  BY <1>3 DEF MoveToCgroup, Next, Step
<1>4. CASE ChildFails(p) \/ ChildEnds(p)
  BY <1>4 DEF ChildFails, ChildEnds, Next, Step
<1> QED
  BY <1>1, <1>2, <1>3, <1>4

\* Starting containers (pod.rs start_container, container_child_exec) uses the
\* pod's network only through PodNetwork's steps: the composed system implements
\* the component's specification.
THEOREM StartImplementsNetwork == StartSpec => Spec
<1>1. StartInit => Init
  BY DEF StartInit
<1>2. [StartNext]_allVars => [Next]_vars
  <2> SUFFICES ASSUME [StartNext]_allVars PROVE [Next]_vars
    OBVIOUS
  <2>1. ASSUME NEW p \in Pods, NetworkStep(p) PROVE [Next]_vars
    BY <2>1, NetworkSteps
  <2>2. ASSUME NEW p \in Pods, StartStep(p) PROVE [Next]_vars
    BY <2>2, SupervisorSteps, ChildSteps DEF StartStep
  <2>3. CASE AllDone \/ UNCHANGED allVars
    BY <2>3 DEF AllDone, allVars
  <2> QED
    BY <2>1, <2>2, <2>3 DEF StartNext
<1> QED
  BY <1>1, <1>2, PTL DEF StartSpec, Spec

-----------------------------------------------------------------------------
(* What one step does, without the commands' details *)

Others(p) == \A q \in Pods \ {p} : pc'[q] = pc[q]
Links == <<hostEth0, nsEth0, veth>>
Processes == <<ready, joined, inside>>

\* The supervisor only moves on, or gives up.
Proceeds(p) ==
    /\ Others(p) /\ UNCHANGED <<bound, Links, joined, inside>>
    /\ \/ /\ pc[p] = "new" /\ pc'[p] = "bridge_exists" /\ ready' = ready
          /\ \A q \in Pods \ {p} : GardenOf[q] = GardenOf[p] => ~Active(q)
       \/ /\ Early(p) /\ pc[p] # "new" /\ ready' = ready
          /\ pc'[p] \in {"add_bridge", "bridge_up", "bridge_addr", "netns_exists",
                         "add_netns", "allocate"}
       \/ pc[p] = "allocate" /\ pc'[p] = "add_veth" /\ ready' = ready
       \/ pc[p] = "net_ready" /\ pc'[p] = "running" /\ ready' = ready \cup {p}
       \/ Active(p) /\ pc'[p] \in {"err", "crashed"} /\ ready' = ready
       \/ pc[p] = "running" /\ pc'[p] = "warned" /\ ready' = ready
NamesIt(p) ==
    /\ pc[p] = "add_netns" /\ pc'[p] = "allocate"
    /\ bound[GardenOf[p]] = None /\ bound' = [bound EXCEPT ![GardenOf[p]] = p]
    /\ Others(p) /\ UNCHANGED <<Links, Processes>>
AddsPair(p) ==
    /\ pc[p] = "add_veth" /\ pc'[p] = "move_veth"
    /\ hostEth0 = None /\ hostEth0' = p
    /\ veth[vethOf[p]] = NoLink /\ veth' = [veth EXCEPT ![vethOf[p]].owner = p]
    /\ Others(p) /\ UNCHANGED <<bound, nsEth0, Processes>>
MovesPeer(p) ==
    /\ pc[p] = "move_veth" /\ pc'[p] = "master_veth"
    /\ bound[GardenOf[p]] # None /\ nsEth0[bound[GardenOf[p]]] = None
    /\ hostEth0 # None /\ hostEth0' = None
    /\ nsEth0' = [nsEth0 EXCEPT ![bound[GardenOf[p]]] = hostEth0]
    /\ Others(p) /\ UNCHANGED <<bound, veth, Processes>>
SetsLink(p) ==
    /\ \/ /\ pc[p] = "master_veth" /\ pc'[p] = "up_veth"
          /\ veth' = [veth EXCEPT ![vethOf[p]].master = TRUE]
       \/ /\ pc[p] = "up_veth" /\ pc'[p] = "net_ready"
          /\ veth' = [veth EXCEPT ![vethOf[p]].up = TRUE]
    /\ Others(p) /\ UNCHANGED <<bound, hostEth0, nsEth0, Processes>>
Joins(p) ==
    /\ p \in ready /\ joined[p] = None
    /\ joined'[p] = IF bound[GardenOf[p]] # None THEN bound[GardenOf[p]] ELSE Host
    /\ \A q \in Pods \ {p} : joined'[q] = joined[q]
    /\ inside \subseteq inside'
    /\ pc' = pc /\ UNCHANGED <<ready, bound, Links>>
Leaves(p) ==
    /\ p \in ready /\ inside' = inside \ {p} /\ Collect(bound, inside')
    /\ pc' = pc /\ UNCHANGED <<ready, bound, joined, hostEth0>>
Unnames(p) ==
    /\ pc[p] = "running" /\ pc'[p] = "stopped"
    /\ bound' = [bound EXCEPT ![GardenOf[p]] = None] /\ Collect(bound', inside)
    /\ Others(p) /\ UNCHANGED <<hostEth0, Processes>>

Effect(p) ==
    \/ Proceeds(p) \/ NamesIt(p) \/ AddsPair(p) \/ MovesPeer(p) \/ SetsLink(p)
    \/ Joins(p) \/ Leaves(p) \/ Unnames(p)

\* Every step of a run has one of these effects, and names are given for good.
LEMMA StepEffect ==
    ASSUME TypeOK, NEW p \in Pods, Step(p)
    PROVE  Effect(p) /\ vethOf' = vethOf
<1> USE DEF podVars, kernel, Goto, Others, Links, Processes, Effect
<1>1. pc \in [Pods -> SetupPoints \cup {"new", "running", "stopped", "warned", "err",
                                        "crashed"}]
      /\ joined \in [Pods -> Pods \cup {None, Host}]
  BY DEF TypeOK
<1>2. CASE Begin(p)
  BY <1>1, <1>2 DEF Begin, Proceeds, Active
<1>3. CASE CommandFails(p) \/ Crash(p) \/ ContainerFails(p)
  BY <1>1, <1>3 DEF CommandFails, Crash, ContainerFails, Proceeds, Active, Finished, SetupPoints
<1>4. CASE BridgeExists(p) \/ NetnsExists(p)
  BY <1>1, <1>4 DEF BridgeExists, NetnsExists, Proceeds, Early
<1>5. CASE AddBridge(p)
  BY <1>1, <1>5 DEF AddBridge, Proceeds, Early, Active, Finished
<1>6. CASE BridgeUp(p) \/ BridgeAddr(p)
  BY <1>1, <1>6 DEF BridgeUp, BridgeAddr, Proceeds, Early
<1>7. CASE AddNetns(p)
  <2>1. CASE bound[GardenOf[p]] = None
    BY <1>1, <1>7, <2>1 DEF AddNetns, NamesIt
  <2>2. CASE bound[GardenOf[p]] # None
    BY <1>1, <1>7, <2>2 DEF AddNetns, Proceeds, Active, Finished
  <2> QED BY <2>1, <2>2
<1>8. CASE AllocateIp(p) \/ NetReady(p)
  BY <1>1, <1>8 DEF AllocateIp, NetReady, Proceeds
<1>9. CASE AddVeth(p)
  <2>1. CASE veth[vethOf[p]] = NoLink /\ hostEth0 = None
    BY <1>1, <1>9, <2>1 DEF AddVeth, AddsPair
  <2>2. CASE ~(veth[vethOf[p]] = NoLink /\ hostEth0 = None)
    BY <1>1, <1>9, <2>2 DEF AddVeth, Proceeds, Active, Finished
  <2> QED BY <2>1, <2>2
<1>10. CASE MoveVeth(p)
  <2>1. CASE bound[GardenOf[p]] # None /\ hostEth0 # None /\ nsEth0[bound[GardenOf[p]]] = None
    BY <1>1, <1>10, <2>1 DEF MoveVeth, MovesPeer
  <2>2. CASE ~(bound[GardenOf[p]] # None /\ hostEth0 # None
               /\ nsEth0[bound[GardenOf[p]]] = None)
    BY <1>1, <1>10, <2>2 DEF MoveVeth, Proceeds, Active, Finished
  <2> QED BY <2>1, <2>2
<1>11. CASE MasterVeth(p) \/ UpVeth(p)
  <2>1. CASE veth[vethOf[p]].owner # None
    BY <1>1, <1>11, <2>1 DEF MasterVeth, UpVeth, SetsLink
  <2>2. CASE veth[vethOf[p]].owner = None
    BY <1>1, <1>11, <2>2 DEF MasterVeth, UpVeth, Proceeds, Active, Finished
  <2> QED BY <2>1, <2>2
<1>12. CASE Join(p)
  <2>1. CASE bound[GardenOf[p]] # None
    BY <1>1, <1>12, <2>1 DEF Join, Joins
  <2>2. CASE bound[GardenOf[p]] = None
    BY <1>1, <1>12, <2>2 DEF Join, Joins
  <2> QED BY <2>1, <2>2
<1>13. CASE ContainersGone(p)
  BY <1>1, <1>13 DEF ContainersGone, Leaves
<1>14. CASE CleanupNetwork(p)
  <2>1. CASE bound' = [bound EXCEPT ![GardenOf[p]] = None] /\ Collect(bound', inside)
             /\ Goto(p, "stopped")
    BY <1>1, <1>14, <2>1 DEF CleanupNetwork, Unnames
  <2>2. CASE Goto(p, "warned") /\ UNCHANGED <<bound, nsEth0, veth>>
    BY <1>1, <1>14, <2>2 DEF CleanupNetwork, Proceeds
  <2> QED BY <1>14, <2>1, <2>2 DEF CleanupNetwork
<1> QED
  BY <1>2, <1>3, <1>4, <1>5, <1>6, <1>7, <1>8, <1>9, <1>10, <1>11, <1>12, <1>13, <1>14
     DEF Step, Setup

\* The kernel's collection takes an eth0 only with its namespace, and with it
\* exactly the host's ends of the pairs it belonged to.
LEMMA CollectEffect ==
    ASSUME TypeOK, NetworkAssumption, NEW b, NEW in, Collect(b, in)
    PROVE  /\ \A ns \in Pods : \/ nsEth0'[ns] = nsEth0[ns]
                               \/ nsEth0'[ns] = None /\ nsEth0[ns] # None /\ Destroyed(ns, b, in)
           /\ \A ns \in Pods : nsEth0[ns] # None /\ Destroyed(ns, b, in) => nsEth0'[ns] = None
           /\ \A v \in Veths :
                 \/ veth'[v] = veth[v]
                 \/ /\ veth'[v] = NoLink
                    /\ \E ns \in Pods : /\ Destroyed(ns, b, in) /\ nsEth0[ns] # None
                                        /\ nsEth0[ns] = veth[v].owner
           /\ \A v \in Veths, ns \in Pods :
                 Destroyed(ns, b, in) /\ nsEth0[ns] # None /\ veth[v].owner = nsEth0[ns] =>
                     veth'[v] = NoLink
           /\ nsEth0' \in [Pods -> Pods \cup {None}]
           /\ veth' \in [Veths -> [owner : Pods \cup {None}, master : BOOLEAN, up : BOOLEAN]]
<1> DEFINE dead == {ns \in Pods : Destroyed(ns, b, in) /\ nsEth0[ns] # None}
           gone == {nsEth0[ns] : ns \in dead}
<1>1. /\ nsEth0' = [ns \in Pods |-> IF ns \in dead THEN None ELSE nsEth0[ns]]
      /\ veth' = [v \in Veths |-> IF veth[v].owner \in gone THEN NoLink ELSE veth[v]]
  BY DEF Collect
<1>2. \A v \in Veths : veth[v].owner \in gone <=>
          \E ns \in Pods : /\ Destroyed(ns, b, in) /\ nsEth0[ns] # None
                           /\ nsEth0[ns] = veth[v].owner
  OBVIOUS
<1>3. NoLink \in [owner : Pods \cup {None}, master : BOOLEAN, up : BOOLEAN]
  BY DEF NoLink
<1>4. /\ nsEth0 \in [Pods -> Pods \cup {None}]
      /\ veth \in [Veths -> [owner : Pods \cup {None}, master : BOOLEAN, up : BOOLEAN]]
  BY DEF TypeOK
<1>5. nsEth0' \in [Pods -> Pods \cup {None}]
  BY <1>1, <1>4
<1>6. veth' \in [Veths -> [owner : Pods \cup {None}, master : BOOLEAN, up : BOOLEAN]]
  <2> HIDE DEF gone
  <2> QED BY <1>1, <1>3, <1>4
<1>7. \A ns \in Pods : \/ nsEth0'[ns] = nsEth0[ns]
                       \/ nsEth0'[ns] = None /\ nsEth0[ns] # None /\ Destroyed(ns, b, in)
  BY <1>1
<1>8. \A ns \in Pods : nsEth0[ns] # None /\ Destroyed(ns, b, in) => nsEth0'[ns] = None
  BY <1>1
<1>9. \A v \in Veths : veth'[v] = IF veth[v].owner \in gone THEN NoLink ELSE veth[v]
  <2> HIDE DEF gone
  <2> QED BY <1>1
<1> HIDE DEF gone
<1> QED
  BY <1>2, <1>5, <1>6, <1>7, <1>8, <1>9

\* Where the runs' gardens and links are.
LEMMA Places ==
    ASSUME TypeOK
    PROVE  /\ \A p \in Pods : GardenOf[p] \in Gardens
           /\ \A p \in Pods : vethOf[p] \in Veths
           /\ \A g \in Gardens : \E p \in Pods : g = GardenOf[p]
BY DEF TypeOK, Gardens, Veths

\* Type correctness: what moves into a namespace is the peer of a run's own link and
\* never the host's card.
LEMMA NetworkTypeStep ==
    ASSUME TypeOK, HostEth0Inv, NetworkAssumption, NEW p \in Pods, Step(p)
    PROVE  TypeOK'
<1> USE DEF podVars, kernel, Goto
<1>1. /\ pc \in [Pods -> SetupPoints \cup {"new", "running", "stopped", "warned", "err",
                                           "crashed"}]
      /\ vethOf \in VethNames /\ ready \subseteq Pods /\ inside \subseteq Pods
      /\ bridge \in {"absent", "down", "up", "addressed"}
      /\ bound \in [Gardens -> Pods \cup {None}]
      /\ joined \in [Pods -> Pods \cup {None, Host}]
      /\ hostEth0 \in Pods \cup {Nic, None}
      /\ nsEth0 \in [Pods -> Pods \cup {None}]
      /\ veth \in [Veths -> [owner : Pods \cup {None}, master : BOOLEAN, up : BOOLEAN]]
  BY DEF TypeOK
<1>2. GardenOf[p] \in Gardens /\ vethOf[p] \in Veths
  BY Places
<1>3. bound[GardenOf[p]] \in Pods \cup {None}
  BY <1>1, <1>2
<1>4. CASE Begin(p) \/ CommandFails(p) \/ Crash(p) \/ ContainerFails(p)
  BY <1>1, <1>4 DEF Begin, CommandFails, Crash, ContainerFails, TypeOK, SetupPoints
<1>5. CASE BridgeExists(p) \/ NetnsExists(p) \/ AllocateIp(p) \/ NetReady(p)
  BY <1>1, <1>5 DEF BridgeExists, NetnsExists, AllocateIp, NetReady, TypeOK, SetupPoints
<1>6. CASE AddBridge(p) \/ BridgeUp(p) \/ BridgeAddr(p)
  BY <1>1, <1>6 DEF AddBridge, BridgeUp, BridgeAddr, TypeOK, SetupPoints
<1>7. CASE AddNetns(p)
  BY <1>1, <1>2, <1>7 DEF AddNetns, TypeOK, SetupPoints
<1>8. CASE AddVeth(p)
  <2>1. pc' \in [Pods -> SetupPoints \cup {"new", "running", "stopped", "warned", "err",
                                           "crashed"}]
    BY <1>1, <1>8 DEF AddVeth, SetupPoints
  <2>2. hostEth0' \in Pods \cup {Nic, None}
        /\ veth' \in [Veths -> [owner : Pods \cup {None}, master : BOOLEAN, up : BOOLEAN]]
    BY <1>1, <1>2, <1>8 DEF AddVeth
  <2> QED BY <1>1, <1>8, <2>1, <2>2 DEF AddVeth, TypeOK
<1>9. CASE MoveVeth(p)
  <2>1. pc' \in [Pods -> SetupPoints \cup {"new", "running", "stopped", "warned", "err",
                                           "crashed"}]
    BY <1>1, <1>9 DEF MoveVeth, SetupPoints
  <2>2. CASE bound[GardenOf[p]] # None /\ hostEth0 # None /\ nsEth0[bound[GardenOf[p]]] = None
    <3>1. /\ hostEth0' \in Pods \cup {Nic, None}
          /\ nsEth0' = [nsEth0 EXCEPT ![bound[GardenOf[p]]] = hostEth0]
      BY <1>1, <1>9, <2>2 DEF MoveVeth
    <3>2. hostEth0 \in Pods
      BY <1>9 DEF MoveVeth, HostEth0Inv
    <3> QED BY <1>1, <1>3, <1>9, <2>1, <3>1, <3>2 DEF MoveVeth, TypeOK
  <2>3. CASE ~(bound[GardenOf[p]] # None /\ hostEth0 # None
               /\ nsEth0[bound[GardenOf[p]]] = None)
    BY <1>1, <1>9, <2>1, <2>3 DEF MoveVeth, TypeOK
  <2> QED BY <2>2, <2>3
<1>10. CASE MasterVeth(p) \/ UpVeth(p)
  <2>1. pc' \in [Pods -> SetupPoints \cup {"new", "running", "stopped", "warned", "err",
                                           "crashed"}]
    BY <1>1, <1>10 DEF MasterVeth, UpVeth, SetupPoints
  <2>2. veth' \in [Veths -> [owner : Pods \cup {None}, master : BOOLEAN, up : BOOLEAN]]
    <3>1. \/ veth' = [veth EXCEPT ![vethOf[p]].master = TRUE]
          \/ veth' = [veth EXCEPT ![vethOf[p]].up = TRUE]
          \/ veth' = veth
      BY <1>10 DEF MasterVeth, UpVeth
    <3>2. CASE veth' = [veth EXCEPT ![vethOf[p]].master = TRUE] BY <1>1, <1>2, <3>2
    <3>3. CASE veth' = [veth EXCEPT ![vethOf[p]].up = TRUE] BY <1>1, <1>2, <3>3
    <3> QED BY <1>1, <3>1, <3>2, <3>3
  <2> QED BY <1>1, <1>10, <2>1, <2>2 DEF MasterVeth, UpVeth, TypeOK
<1>11. CASE Join(p)
  <2>1. joined' \in [Pods -> Pods \cup {None, Host}] /\ inside' \subseteq Pods
    BY <1>1, <1>3, <1>11 DEF Join
  <2> QED BY <1>1, <1>11, <2>1 DEF Join, TypeOK
<1>12. CASE ContainersGone(p)
  <2>1. Collect(bound, inside')
    BY <1>12 DEF ContainersGone
  <2> QED BY <1>1, <1>12, <2>1, CollectEffect DEF ContainersGone, TypeOK
<1>13. CASE CleanupNetwork(p)
  <2>1. pc' \in [Pods -> SetupPoints \cup {"new", "running", "stopped", "warned", "err",
                                           "crashed"}]
    BY <1>1, <1>13 DEF CleanupNetwork
  <2>2. CASE bound' = [bound EXCEPT ![GardenOf[p]] = None] /\ Collect(bound', inside)
    BY <1>1, <1>2, <1>13, <2>1, <2>2, CollectEffect DEF CleanupNetwork, TypeOK
  <2>3. CASE UNCHANGED <<bound, nsEth0, veth>>
    BY <1>1, <1>13, <2>1, <2>3 DEF CleanupNetwork, TypeOK
  <2> QED BY <1>13, <2>2, <2>3 DEF CleanupNetwork
<1> QED
  BY <1>4, <1>5, <1>6, <1>7, <1>8, <1>9, <1>10, <1>11, <1>12, <1>13 DEF Step, Setup

-----------------------------------------------------------------------------
(* The inductive invariant, conjunct by conjunct *)

\* A run begins only when no other run of its garden is under way.
LEMMA OneActiveStep ==
    ASSUME TypeOK, OneActive, NEW p \in Pods, Effect(p)
    PROVE  OneActive'
<1>1. \A q \in Pods \ {p} : pc'[q] = pc[q]
  BY DEF Effect, Proceeds, NamesIt, AddsPair, MovesPeer, SetsLink, Joins, Leaves, Unnames, Others
<1>2. \/ Active(p) \/ ~Active(p)'
      \/ \A q \in Pods \ {p} : GardenOf[q] = GardenOf[p] => ~Active(q)
  BY DEF Effect, Proceeds, NamesIt, AddsPair, MovesPeer, SetsLink, Joins, Leaves, Unnames,
         Active, Finished, Early
<1> QED BY <1>1, <1>2 DEF OneActive, Active, Finished

\* Names lead to namespaces of the garden's own runs, which are made once.
LEMMA NamesStep ==
    ASSUME TypeOK, NetworkAssumption, NamesInv, NEW p \in Pods, Effect(p)
    PROVE  NamesInv'
<1>1. /\ bound \in [Gardens -> Pods \cup {None}] /\ nsEth0 \in [Pods -> Pods \cup {None}]
      /\ GardenOf[p] \in Gardens
  BY Places DEF TypeOK
<1>2. CASE Proceeds(p) \/ AddsPair(p) \/ SetsLink(p) \/ Joins(p)
  BY <1>1, <1>2 DEF Proceeds, AddsPair, SetsLink, Joins, NamesInv, Early, Others, Links, Processes,
                    Active, Finished
<1>3. CASE NamesIt(p)
  BY <1>1, <1>3 DEF NamesIt, NamesInv, Early, Others, Links, NetworkAssumption
<1>4. CASE MovesPeer(p)
  BY <1>1, <1>4 DEF MovesPeer, NamesInv, Early, Others
<1>5. CASE Leaves(p)
  <2>1. \A ns \in Pods : nsEth0'[ns] = nsEth0[ns] \/ nsEth0'[ns] = None
    BY <1>5, CollectEffect DEF Leaves
  <2> QED BY <1>1, <1>5, <2>1 DEF Leaves, NamesInv, Early
<1>6. CASE Unnames(p)
  <2>1. \A ns \in Pods : nsEth0'[ns] = nsEth0[ns] \/ nsEth0'[ns] = None
    BY <1>6, CollectEffect DEF Unnames
  <2>2. \A g \in Gardens : bound'[g] = bound[g] \/ bound'[g] = None
    BY <1>1, <1>6 DEF Unnames
  <2>3. \A q \in Pods : Early(q)' => Early(q)
    BY <1>6 DEF Unnames, Early, Others
  <2> QED BY <1>1, <2>1, <2>2, <2>3 DEF NamesInv, NetworkAssumption
<1> QED BY <1>2, <1>3, <1>4, <1>5, <1>6 DEF Effect

\* A step changes the place of its own run only.
LEMMA OnlyOwnPlace ==
    ASSUME NEW p \in Pods, Effect(p)
    PROVE  \A q \in Pods \ {p} : pc'[q] = pc[q]
BY DEF Effect, Proceeds, NamesIt, AddsPair, MovesPeer, SetsLink, Joins, Leaves, Unnames, Others

\* The host's eth0 is made by a run that then moves it, and by no other.
LEMMA HostEth0Step ==
    ASSUME TypeOK, NetworkAssumption, HostEth0Inv, PeerInv, ConnectedInv,
           NEW p \in Pods, Effect(p), vethOf' = vethOf
    PROVE  HostEth0Inv'
<1>1. /\ hostEth0 \in Pods \cup {Nic, None} /\ nsEth0 \in [Pods -> Pods \cup {None}]
      /\ veth \in [Veths -> [owner : Pods \cup {None}, master : BOOLEAN, up : BOOLEAN]]
      /\ bound \in [Gardens -> Pods \cup {None}]
      /\ GardenOf[p] \in Gardens /\ \A q \in Pods : vethOf[q] \in Veths
  BY Places DEF TypeOK
<1>2. CASE Proceeds(p)
  BY <1>2 DEF Proceeds, HostEth0Inv, Others, Links, Active, Finished, Early
<1>3. CASE NamesIt(p) \/ Joins(p)
  BY <1>3 DEF NamesIt, Joins, HostEth0Inv, Others, Links
<1>4. CASE AddsPair(p)
  <2>1. veth'[vethOf[p]].owner = p
    BY <1>1, <1>4 DEF AddsPair
  <2>2. \A q \in Pods : pc'[q] = "move_veth" => q = p
    BY <1>4, NetworkAssumption DEF AddsPair, HostEth0Inv, Others, NetworkAssumption
  <2>3. \A ns \in Pods : nsEth0[ns] # p
    BY <1>4 DEF AddsPair, PeerInv, Finished
  <2> QED BY <1>4, <2>1, <2>2, <2>3 DEF AddsPair, HostEth0Inv
<1>5. CASE MovesPeer(p)
  <2>1. \A q \in Pods : pc'[q] # "move_veth"
    BY <1>5 DEF MovesPeer, HostEth0Inv, Others
  <2> QED BY <1>5, <2>1 DEF MovesPeer, HostEth0Inv, NetworkAssumption
<1>6. CASE SetsLink(p)
  <2>1. \A v \in Veths : veth'[v].owner = veth[v].owner
    <3>1. CASE veth' = [veth EXCEPT ![vethOf[p]].master = TRUE] BY <1>1, <3>1
    <3>2. CASE veth' = [veth EXCEPT ![vethOf[p]].up = TRUE] BY <1>1, <3>2
    <3> QED BY <1>6, <3>1, <3>2 DEF SetsLink
  <2> QED BY <1>1, <1>6, <2>1 DEF SetsLink, HostEth0Inv, Others
<1>7. CASE Leaves(p) \/ Unnames(p)
  <2>1. PICK b, in : Collect(b, in)
    BY <1>7 DEF Leaves, Unnames
  <2>2. /\ \A ns \in Pods : nsEth0'[ns] = nsEth0[ns] \/ nsEth0'[ns] = None
        /\ \A v \in Veths : veth'[v] = veth[v]
                            \/ \E ns \in Pods : nsEth0[ns] # None /\ nsEth0[ns] = veth[v].owner
    BY <2>1, CollectEffect
  <2>3. hostEth0' = hostEth0 /\ \A q \in Pods : \/ pc'[q] = pc[q]
                                                \/ pc[q] = "running" /\ pc'[q] = "stopped"
    BY <1>7 DEF Leaves, Unnames, Others
  <2> QED BY <1>1, <2>2, <2>3 DEF HostEth0Inv, NetworkAssumption
<1> QED BY <1>2, <1>3, <1>4, <1>5, <1>6, <1>7 DEF Effect

\* The peer of a link is in one namespace, and the link has its peer.
LEMMA PeerStep ==
    ASSUME TypeOK, NetworkAssumption, HostEth0Inv, PeerInv,
           NEW p \in Pods, Effect(p), vethOf' = vethOf
    PROVE  PeerInv'
<1>1. /\ hostEth0 \in Pods \cup {Nic, None} /\ nsEth0 \in [Pods -> Pods \cup {None}]
      /\ veth \in [Veths -> [owner : Pods \cup {None}, master : BOOLEAN, up : BOOLEAN]]
      /\ bound \in [Gardens -> Pods \cup {None}]
      /\ GardenOf[p] \in Gardens /\ \A q \in Pods : vethOf[q] \in Veths
  BY Places DEF TypeOK
<1> DEFINE Late(q) == Moved(q) \/ Finished(q)
<1>2. \A q \in Pods : Late(q) => Late(q)'
  <2>1. Late(p) => Late(p)'
    BY DEF Effect, Proceeds, NamesIt, AddsPair, MovesPeer, SetsLink, Joins, Leaves, Unnames,
           Active, Finished, Early, Moved
  <2> QED BY <2>1, OnlyOwnPlace DEF Finished, Moved
<1>3. CASE Proceeds(p) \/ NamesIt(p) \/ Joins(p)
  <2>1. UNCHANGED <<hostEth0, nsEth0, veth>>
    BY <1>3 DEF Proceeds, NamesIt, Joins, Links
  <2> QED BY <1>2, <2>1 DEF PeerInv, Moved
<1>4. CASE AddsPair(p)
  <2>1. \A v \in Veths : veth'[v].owner = IF v = vethOf[p] THEN p ELSE veth[v].owner
    BY <1>1, <1>4 DEF AddsPair
  <2>2. hostEth0 = None /\ hostEth0' = p /\ nsEth0' = nsEth0
    BY <1>4 DEF AddsPair
  <2>3. \A v \in Veths : veth'[v].owner # None =>
           /\ v = vethOf[veth'[v].owner]
           /\ hostEth0' = veth'[v].owner \/ \E ns \in Pods : nsEth0'[ns] = veth'[v].owner
    <3> SUFFICES ASSUME NEW v \in Veths, veth'[v].owner # None
                 PROVE  /\ v = vethOf[veth'[v].owner]
                        /\ \/ hostEth0' = veth'[v].owner
                           \/ \E ns \in Pods : nsEth0'[ns] = veth'[v].owner
      OBVIOUS
    <3>1. CASE v = vethOf[p] BY <2>1, <2>2, <3>1
    <3>2. CASE v # vethOf[p] BY <2>1, <2>2, <3>2 DEF PeerInv
    <3> QED BY <3>1, <3>2
  <2> QED BY <1>2, <2>2, <2>3 DEF PeerInv, Moved
<1>5. CASE MovesPeer(p)
  <2>1. hostEth0 = p /\ \A ns \in Pods : nsEth0[ns] # p
    BY <1>5 DEF MovesPeer, HostEth0Inv
  <2>2. bound[GardenOf[p]] \in Pods
    BY <1>1, <1>5 DEF MovesPeer
  <2>3. \A ns \in Pods : nsEth0'[ns] = IF ns = bound[GardenOf[p]] THEN p ELSE nsEth0[ns]
    BY <1>1, <1>5, <2>1 DEF MovesPeer
  <2>4. veth' = veth /\ pc'[p] = "master_veth" /\ nsEth0[bound[GardenOf[p]]] = None
    BY <1>5 DEF MovesPeer
  <2>5. \A a, b \in Pods : nsEth0'[a] # None /\ nsEth0'[a] = nsEth0'[b] => a = b
    BY <2>1, <2>3 DEF PeerInv
  <2>6. \A q, ns \in Pods : nsEth0'[ns] = q => Late(q)'
    BY <1>2, <2>3, <2>4 DEF PeerInv, Moved
  <2>7. \A v \in Veths : veth[v].owner # None =>
           v = vethOf[veth[v].owner] /\ \E ns \in Pods : nsEth0'[ns] = veth[v].owner
    BY <2>1, <2>2, <2>3, <2>4 DEF PeerInv
  <2> QED BY <2>4, <2>5, <2>6, <2>7 DEF PeerInv, Moved
<1>6. CASE SetsLink(p)
  <2>1. \A v \in Veths : veth'[v].owner = veth[v].owner
    <3>1. CASE veth' = [veth EXCEPT ![vethOf[p]].master = TRUE] BY <1>1, <3>1
    <3>2. CASE veth' = [veth EXCEPT ![vethOf[p]].up = TRUE] BY <1>1, <3>2
    <3> QED BY <1>6, <3>1, <3>2 DEF SetsLink
  <2>2. UNCHANGED <<hostEth0, nsEth0>>
    BY <1>6 DEF SetsLink
  <2> QED BY <1>2, <2>1, <2>2 DEF PeerInv, Moved
<1>7. CASE Leaves(p) \/ Unnames(p)
  <2>1. PICK b, in : Collect(b, in)
    BY <1>7 DEF Leaves, Unnames
  <2>2. /\ \A ns \in Pods :
              \/ nsEth0'[ns] = nsEth0[ns]
              \/ nsEth0'[ns] = None /\ nsEth0[ns] # None /\ Destroyed(ns, b, in)
        /\ \A v \in Veths : veth'[v] = veth[v] \/ veth'[v] = NoLink
        /\ \A v \in Veths, ns \in Pods :
              Destroyed(ns, b, in) /\ nsEth0[ns] # None /\ veth[v].owner = nsEth0[ns] =>
                  veth'[v] = NoLink
    BY <2>1, CollectEffect
  <2>3. hostEth0' = hostEth0
    BY <1>7 DEF Leaves, Unnames
  <2>4. \A a, c \in Pods : nsEth0'[a] # None /\ nsEth0'[a] = nsEth0'[c] => a = c
    BY <2>2 DEF PeerInv
  <2>5. \A q, ns \in Pods : nsEth0'[ns] = q => Late(q)'
    BY <1>2, <2>2 DEF PeerInv, Moved, NetworkAssumption
  <2>6. \A v \in Veths : veth'[v].owner # None =>
           /\ v = vethOf[veth'[v].owner]
           /\ hostEth0' = veth'[v].owner \/ \E ns \in Pods : nsEth0'[ns] = veth'[v].owner
    <3> SUFFICES ASSUME NEW v \in Veths, veth'[v].owner # None
                 PROVE  /\ v = vethOf[veth'[v].owner]
                        /\ \/ hostEth0' = veth'[v].owner
                           \/ \E ns \in Pods : nsEth0'[ns] = veth'[v].owner
      OBVIOUS
    <3>1. NoLink.owner = None
      BY DEF NoLink
    <3>2. veth'[v] = veth[v] /\ veth'[v] # NoLink
      BY <2>2, <3>1
    <3>3. \A ns \in Pods : nsEth0[ns] = veth[v].owner => nsEth0'[ns] = nsEth0[ns]
      BY <2>2, <3>2
    <3> QED BY <2>3, <3>2, <3>3 DEF PeerInv
  <2> QED BY <2>4, <2>5, <2>6 DEF PeerInv, Moved
<1> QED BY <1>3, <1>4, <1>5, <1>6, <1>7 DEF Effect

\* What a run has connected, no step of another run takes away.
LEMMA ConnectedStep ==
    ASSUME TypeOK, NetworkAssumption, OneActive, HostEth0Inv, PeerInv, ConnectedInv,
           NEW p \in Pods, Effect(p), vethOf' = vethOf
    PROVE  ConnectedInv'
<1>1. /\ nsEth0 \in [Pods -> Pods \cup {None}]
      /\ veth \in [Veths -> [owner : Pods \cup {None}, master : BOOLEAN, up : BOOLEAN]]
      /\ bound \in [Gardens -> Pods \cup {None}]
      /\ \A q \in Pods : GardenOf[q] \in Gardens /\ vethOf[q] \in Veths
  BY Places DEF TypeOK
<1> DEFINE Conn(q) ==
        /\ bound[GardenOf[q]] # None /\ nsEth0[bound[GardenOf[q]]] = q
        /\ veth[vethOf[q]].owner = q
        /\ pc[q] # "master_veth" => veth[vethOf[q]].master
        /\ pc[q] \in {"net_ready", "running"} => veth[vethOf[q]].up
<1>2. SUFFICES ASSUME NEW q \in Pods, Moved(q)' PROVE Conn(q)'
  BY DEF ConnectedInv
<1>3. Moved(q) => Conn(q)
  BY DEF ConnectedInv
<1>4. q # p => pc'[q] = pc[q] /\ Moved(q)
  BY <1>2, OnlyOwnPlace DEF Moved
<1>5. q # p /\ Active(p) => GardenOf[q] # GardenOf[p]
  BY <1>4 DEF OneActive, Active, Moved, Finished
<1>6. CASE Proceeds(p)
  <2>1. UNCHANGED <<bound, nsEth0, veth>>
    BY <1>6 DEF Proceeds, Links
  <2>2. q = p => pc[p] = "net_ready" /\ pc'[p] = "running"
    BY <1>2, <1>6 DEF Proceeds, Moved
  <2>3. Moved(q)
    BY <1>4, <2>2 DEF Moved
  <2>4. CASE q = p BY <1>3, <2>1, <2>2, <2>3, <2>4
  <2>5. CASE q # p BY <1>3, <1>4, <2>1, <2>3, <2>5
  <2> QED BY <2>4, <2>5
<1>7. CASE NamesIt(p)
  <2>1. q # p /\ Active(p)
    BY <1>2, <1>7 DEF NamesIt, Moved, Active, Finished
  <2>2. bound'[GardenOf[q]] = bound[GardenOf[q]]
    BY <1>1, <1>5, <1>7, <2>1 DEF NamesIt
  <2> QED BY <1>3, <1>4, <1>7, <2>1, <2>2 DEF NamesIt, Links
<1>8. CASE AddsPair(p)
  <2>1. q # p
    BY <1>2, <1>8 DEF AddsPair, Moved
  <2>2. vethOf[q] # vethOf[p]
    BY <1>3, <1>4, <1>8, <2>1 DEF AddsPair, NoLink, NetworkAssumption
  <2>3. veth'[vethOf[q]] = veth[vethOf[q]]
    BY <1>1, <1>8, <2>2 DEF AddsPair
  <2> QED BY <1>3, <1>4, <1>8, <2>1, <2>3 DEF AddsPair
<1>9. CASE MovesPeer(p)
  <2>1. hostEth0 = p /\ veth[vethOf[p]].owner = p
    BY <1>9 DEF MovesPeer, HostEth0Inv
  <2>2. CASE q = p
    BY <1>1, <1>9, <2>1, <2>2 DEF MovesPeer
  <2>3. CASE q # p
    <3>1. nsEth0'[bound[GardenOf[q]]] = q
      BY <1>1, <1>3, <1>4, <1>9, <2>3 DEF MovesPeer, NetworkAssumption
    <3> QED BY <1>3, <1>4, <1>9, <2>3, <3>1 DEF MovesPeer
  <2> QED BY <2>2, <2>3
<1>10. CASE SetsLink(p)
  <2>1. Moved(q) /\ UNCHANGED <<bound, nsEth0>>
    BY <1>4, <1>10 DEF SetsLink, Moved
  <2>2. CASE /\ pc[p] = "master_veth" /\ pc'[p] = "up_veth"
             /\ veth' = [veth EXCEPT ![vethOf[p]].master = TRUE]
    <3>1. CASE q = p BY <1>1, <1>3, <2>1, <2>2, <3>1
    <3>2. CASE q # p
      <4>1. vethOf[q] # vethOf[p]
        BY <1>3, <2>1, <2>2, <3>2 DEF ConnectedInv, Moved
      <4> QED BY <1>1, <1>3, <1>4, <2>1, <2>2, <3>2, <4>1
    <3> QED BY <3>1, <3>2
  <2>3. CASE /\ pc[p] = "up_veth" /\ pc'[p] = "net_ready"
             /\ veth' = [veth EXCEPT ![vethOf[p]].up = TRUE]
    <3>1. CASE q = p BY <1>1, <1>3, <2>1, <2>3, <3>1
    <3>2. CASE q # p
      <4>1. vethOf[q] # vethOf[p]
        BY <1>3, <2>1, <2>3, <3>2 DEF ConnectedInv, Moved
      <4> QED BY <1>1, <1>3, <1>4, <2>1, <2>3, <3>2, <4>1
    <3> QED BY <3>1, <3>2
  <2> QED BY <1>10, <2>2, <2>3 DEF SetsLink
<1>11. CASE Joins(p)
  <2>1. UNCHANGED <<pc, bound, nsEth0, veth>>
    BY <1>11 DEF Joins, Links
  <2> QED BY <1>2, <1>3, <2>1 DEF Moved
<1>12. CASE Leaves(p) \/ Unnames(p)
  <2>1. PICK in : Collect(bound', in)
    BY <1>12 DEF Leaves, Unnames
  <2>2. Moved(q) /\ pc'[q] = pc[q] /\ bound'[GardenOf[q]] = bound[GardenOf[q]]
    <3>1. CASE Leaves(p) BY <1>2, <3>1 DEF Leaves, Moved
    <3>2. CASE Unnames(p)
      <4>1. q # p /\ Active(p)
        BY <1>2, <3>2 DEF Unnames, Moved, Active, Finished
      <4> QED BY <1>1, <1>4, <1>5, <3>2, <4>1 DEF Unnames
    <3> QED BY <1>12, <3>1, <3>2
  <2>3. bound[GardenOf[q]] \in Pods /\ nsEth0[bound[GardenOf[q]]] = q
    BY <1>1, <1>3, <2>2
  <2>4. ~Destroyed(bound[GardenOf[q]], bound', in)
    BY <1>1, <2>2 DEF Destroyed
  <2>5. nsEth0'[bound[GardenOf[q]]] = q
    BY <2>1, <2>3, <2>4, CollectEffect
  <2>6. \A ns \in Pods : nsEth0[ns] = q => ns = bound[GardenOf[q]]
    BY <2>3 DEF PeerInv, NetworkAssumption
  <2>7. veth'[vethOf[q]] = veth[vethOf[q]]
    <3>1. veth[vethOf[q]].owner = q
      BY <1>3, <2>2
    <3> QED BY <1>1, <2>1, <2>4, <2>6, <3>1, CollectEffect
  <2> QED BY <1>3, <2>2, <2>5, <2>7
<1> QED BY <1>6, <1>7, <1>8, <1>9, <1>10, <1>11, <1>12 DEF Effect

\* Containers join after POD_NET_READY, where the name of the running pod leads.
LEMMA JoinedStep ==
    ASSUME TypeOK, NetworkAssumption, OneActive, ConnectedInv, JoinedInv,
           NEW p \in Pods, Effect(p)
    PROVE  JoinedInv'
<1>1. /\ joined \in [Pods -> Pods \cup {None, Host}] /\ ready \subseteq Pods
      /\ bound \in [Gardens -> Pods \cup {None}]
      /\ \A q \in Pods : GardenOf[q] \in Gardens
  BY Places DEF TypeOK
<1>2. \/ ready' = ready
      \/ ready' = ready \cup {p} /\ pc'[p] = "running"
  BY DEF Effect, Proceeds, NamesIt, AddsPair, MovesPeer, SetsLink, Joins, Leaves, Unnames, Processes
<1>3. \A q \in ready' : pc'[q] = "running" \/ Finished(q)'
  <2>1. pc[p] = "running" \/ Finished(p) => pc'[p] = "running" \/ Finished(p)'
    BY DEF Effect, Proceeds, NamesIt, AddsPair, MovesPeer, SetsLink, Joins, Leaves, Unnames,
           Active, Finished, Early
  <2> QED BY <1>1, <1>2, <2>1, OnlyOwnPlace DEF JoinedInv, Finished
<1>4. \A q \in Pods :
          \/ joined'[q] = joined[q]
          \/ /\ q = p /\ p \in ready /\ bound' = bound /\ pc' = pc
             /\ joined'[p] = IF bound[GardenOf[p]] # None THEN bound[GardenOf[p]] ELSE Host
  <2>1. CASE Joins(p)
    BY <2>1 DEF Joins
  <2>2. CASE ~Joins(p)
    <3>1. joined' = joined
      BY <2>2 DEF Effect, Proceeds, NamesIt, AddsPair, MovesPeer, SetsLink, Leaves, Unnames, Processes
    <3> QED BY <3>1
  <2> QED BY <2>1, <2>2
<1>5. \A q \in Pods : joined'[q] # None => q \in ready'
  BY <1>2, <1>4 DEF JoinedInv
<1>6. ASSUME NEW q \in Pods, pc'[q] = "running", joined'[q] # None
      PROVE  joined'[q] = bound'[GardenOf[q]]
  <2>1. CASE joined'[q] # joined[q]
    <3>1. bound[GardenOf[p]] # None
      BY <1>4, <1>6, <2>1 DEF ConnectedInv, Moved
    <3> QED BY <1>4, <2>1, <3>1
  <2>2. CASE joined'[q] = joined[q]
    <3>1. q \in ready /\ pc[q] = "running"
      <4>1. q \in ready
        BY <1>6, <2>2 DEF JoinedInv
      <4>2. pc[q] = "running" \/ Finished(q)
        BY <4>1 DEF JoinedInv
      <4>3. CASE q # p BY <1>6, <4>1, <4>3, OnlyOwnPlace
      <4>4. CASE q = p
        <5>1. ~Finished(p)
          BY <1>6, <4>4 DEF Effect, Proceeds, NamesIt, AddsPair, MovesPeer, SetsLink, Joins,
                            Leaves, Unnames, Active, Finished, Early
        <5> QED BY <4>1, <4>2, <4>4, <5>1
      <4> QED BY <4>3, <4>4
    <3>2. joined[q] = bound[GardenOf[q]]
      BY <1>6, <2>2, <3>1 DEF JoinedInv
    <3>3. bound'[GardenOf[q]] = bound[GardenOf[q]]
      <4>1. CASE NamesIt(p) \/ Unnames(p)
        <5>1. q # p /\ Active(p) /\ Active(q)
          BY <1>6, <3>1, <4>1 DEF NamesIt, Unnames, Active, Finished
        <5>2. GardenOf[q] # GardenOf[p]
          BY <5>1 DEF OneActive
        <5> QED BY <1>1, <4>1, <5>2 DEF NamesIt, Unnames
      <4>2. CASE ~(NamesIt(p) \/ Unnames(p))
        BY <4>2 DEF Effect, Proceeds, AddsPair, MovesPeer, SetsLink, Joins, Leaves
      <4> QED BY <4>1, <4>2
    <3> QED BY <2>2, <3>2, <3>3
  <2> QED BY <2>1, <2>2
<1> QED BY <1>3, <1>5, <1>6 DEF JoinedInv

\* An eth0 outlives the name of its namespace only with the processes in it.
LEMMA NamespaceStep ==
    ASSUME TypeOK, NetworkAssumption, NamesInv, HostEth0Inv, PeerInv, ConnectedInv, NamespaceInv,
           NEW p \in Pods, Effect(p)
    PROVE  NamespaceInv'
<1>1. /\ joined \in [Pods -> Pods \cup {None, Host}] /\ inside \subseteq Pods
      /\ bound \in [Gardens -> Pods \cup {None}] /\ nsEth0 \in [Pods -> Pods \cup {None}]
      /\ \A q \in Pods : GardenOf[q] \in Gardens
  BY Places DEF TypeOK
<1> DEFINE Kept(ns) == (\E g \in Gardens : bound[g] = ns) \/ (\E q \in inside : joined[q] = ns)
           Unbound(q) == \A g \in Gardens : bound[g] # None => nsEth0[bound[g]] # q
<1>2. /\ \A ns \in Pods : nsEth0[ns] # None => Kept(ns)
      /\ \A q \in Pods : pc[q] = "stopped" => Unbound(q)
  BY DEF NamespaceInv
<1>3. SUFFICES /\ \A ns \in Pods : nsEth0'[ns] # None => Kept(ns)'
               /\ \A q \in Pods : pc'[q] = "stopped" => Unbound(q)'
  BY DEF NamespaceInv
<1>4. ~Unnames(p) => \A q \in Pods : pc'[q] = "stopped" => pc[q] = "stopped"
  <2>1. ~Unnames(p) => pc'[p] # "stopped" \/ pc[p] = "stopped"
    BY DEF Effect, Proceeds, NamesIt, AddsPair, MovesPeer, SetsLink, Joins, Leaves
  <2> QED BY <2>1, OnlyOwnPlace
<1>5. CASE Proceeds(p) \/ AddsPair(p) \/ SetsLink(p)
  <2>1. UNCHANGED <<bound, nsEth0, inside, joined>> /\ ~Unnames(p)
    BY <1>5 DEF Proceeds, AddsPair, SetsLink, Links, Processes, Unnames, Active, Finished
  <2> QED BY <1>2, <1>4, <2>1
<1>6. CASE NamesIt(p)
  <2>1. UNCHANGED <<nsEth0, inside, joined>> /\ ~Unnames(p)
    BY <1>6 DEF NamesIt, Links, Processes, Unnames
  <2>2. \A g \in Gardens : \/ bound'[g] = bound[g]
                           \/ bound[g] = None /\ bound'[g] = p /\ nsEth0[p] = None
    BY <1>1, <1>6 DEF NamesIt, NamesInv, Early
  <2>3. \A g \in Gardens : bound[g] # None => bound'[g] = bound[g]
    BY <2>2
  <2>4. \A ns \in Pods : nsEth0'[ns] # None => Kept(ns)'
    BY <1>2, <2>1, <2>3 DEF NetworkAssumption
  <2>5. \A q \in Pods : pc'[q] = "stopped" => Unbound(q)'
    BY <1>2, <1>4, <2>1, <2>2 DEF NetworkAssumption
  <2> QED BY <2>4, <2>5
<1>7. CASE MovesPeer(p)
  <2>1. UNCHANGED <<bound, inside, joined>> /\ ~Unnames(p) /\ hostEth0 = p
    BY <1>7 DEF MovesPeer, Processes, Unnames, HostEth0Inv
  <2>2. \A ns \in Pods : nsEth0'[ns] = IF ns = bound[GardenOf[p]] THEN p ELSE nsEth0[ns]
    BY <1>1, <1>7, <2>1 DEF MovesPeer
  <2>3. \A ns \in Pods : nsEth0'[ns] # None => Kept(ns)'
    BY <1>1, <1>2, <2>1, <2>2
  <2>4. pc'[p] # "stopped"
    BY <1>7 DEF MovesPeer
  <2>5. \A q \in Pods : pc'[q] = "stopped" => Unbound(q)'
    BY <1>1, <1>2, <1>4, <2>1, <2>2, <2>4
  <2> QED BY <2>3, <2>5
<1>8. CASE Joins(p)
  <2>1. UNCHANGED <<pc, bound, nsEth0>> /\ inside \subseteq inside'
    BY <1>8 DEF Joins, Links
  <2>2. \A q \in Pods : joined[q] # None => joined'[q] = joined[q]
    BY <1>8 DEF Joins
  <2> QED BY <1>1, <1>2, <2>1, <2>2 DEF NetworkAssumption
<1>9. CASE Leaves(p)
  <2>1. UNCHANGED <<pc, bound, joined>> /\ Collect(bound, inside')
    BY <1>9 DEF Leaves
  <2>2. \A ns \in Pods : /\ nsEth0'[ns] = nsEth0[ns] \/ nsEth0'[ns] = None
                         /\ nsEth0'[ns] # None => ~Destroyed(ns, bound, inside')
    BY <2>1, CollectEffect
  <2>3. \A ns \in Pods : nsEth0'[ns] # None => Kept(ns)'
    BY <2>1, <2>2 DEF Destroyed
  <2>4. \A q \in Pods : pc'[q] = "stopped" => Unbound(q)'
    BY <1>1, <1>2, <2>1, <2>2 DEF NetworkAssumption
  <2> QED BY <2>3, <2>4
<1>10. CASE Unnames(p)
  <2>1. UNCHANGED <<inside, joined>> /\ Collect(bound', inside)
    BY <1>10 DEF Unnames, Processes
  <2>2. \A ns \in Pods : /\ nsEth0'[ns] = nsEth0[ns] \/ nsEth0'[ns] = None
                         /\ nsEth0'[ns] # None => ~Destroyed(ns, bound', inside)
    BY <2>1, CollectEffect
  <2>3. \A ns \in Pods : nsEth0'[ns] # None => Kept(ns)'
    BY <2>1, <2>2 DEF Destroyed
  <2>4. \A g \in Gardens : bound'[g] = IF g = GardenOf[p] THEN None ELSE bound[g]
    BY <1>1, <1>10 DEF Unnames
  <2>5. \A q \in Pods \ {p} : pc'[q] = "stopped" => Unbound(q)'
    BY <1>1, <1>2, <2>2, <2>4, OnlyOwnPlace DEF NetworkAssumption
  <2>6. Unbound(p)'
    <3>1. bound[GardenOf[p]] \in Pods /\ nsEth0[bound[GardenOf[p]]] = p
      BY <1>1, <1>10 DEF Unnames, ConnectedInv, Moved
    <3>2. \A g \in Gardens \ {GardenOf[p]} : bound[g] # None => nsEth0[bound[g]] # p
      <4> SUFFICES ASSUME NEW g \in Gardens \ {GardenOf[p]}, bound[g] # None, nsEth0[bound[g]] = p
                   PROVE  FALSE
        OBVIOUS
      <4>1. bound[g] = bound[GardenOf[p]]
        BY <1>1, <3>1 DEF PeerInv, NetworkAssumption
      <4> QED BY <1>1, <3>1, <4>1 DEF NamesInv
    <3> QED BY <1>1, <2>2, <2>4, <3>2 DEF NetworkAssumption
  <2> QED BY <2>3, <2>5, <2>6
<1> QED BY <1>5, <1>6, <1>7, <1>8, <1>9, <1>10 DEF Effect

\* The empty host satisfies the invariant.
LEMMA NetworkInitial ==
    ASSUME Init, NetworkAssumption
    PROVE  NetworkInv
<1> USE DEF Init
<1>1. TypeOK
  <2>1. NoLink \in [owner : Pods \cup {None}, master : BOOLEAN, up : BOOLEAN]
    BY DEF NoLink
  <2>2. veth \in [Veths -> [owner : Pods \cup {None}, master : BOOLEAN, up : BOOLEAN]]
    BY <2>1
  <2> QED BY <2>2 DEF TypeOK
<1>2. OneActive
  BY DEF OneActive, Active
<1>3. NamesInv
  BY DEF NamesInv, NetworkAssumption
<1>4. HostEth0Inv
  BY DEF HostEth0Inv, NetworkAssumption
<1>5. PeerInv
  BY DEF PeerInv, NoLink, NetworkAssumption
<1>6. ConnectedInv
  BY DEF ConnectedInv, Moved
<1>7. JoinedInv
  BY DEF JoinedInv
<1>8. NamespaceInv
  BY DEF NamespaceInv
<1> QED
  BY <1>1, <1>2, <1>3, <1>4, <1>5, <1>6, <1>7, <1>8 DEF NetworkInv

\* No step of any supervisor, container or of the kernel breaks it.
LEMMA NetworkStepKeeps ==
    ASSUME NetworkInv, [Next]_vars
    PROVE  NetworkInv'
<1>1. ASSUME NEW p \in Pods, Step(p) PROVE NetworkInv'
  <2>1. TypeOK /\ OneActive /\ NamesInv /\ HostEth0Inv /\ PeerInv /\ ConnectedInv /\ JoinedInv
        /\ NamespaceInv
    BY DEF NetworkInv
  <2>2. Effect(p) /\ vethOf' = vethOf
    BY <1>1, <2>1, StepEffect
  <2>3. TypeOK' /\ OneActive' /\ NamesInv' /\ HostEth0Inv'
    BY <1>1, <2>1, <2>2, NetworkTypeStep, OneActiveStep, NamesStep, HostEth0Step, NetworkAssumption
  <2>4. PeerInv' /\ ConnectedInv' /\ JoinedInv' /\ NamespaceInv'
    BY <1>1, <2>1, <2>2, PeerStep, ConnectedStep, JoinedStep, NamespaceStep, NetworkAssumption
  <2> QED BY <2>3, <2>4 DEF NetworkInv
<1>2. CASE UNCHANGED vars
  BY <1>2 DEF vars, podVars, kernel, NetworkInv, TypeOK, OneActive, Active, Finished, NamesInv,
              Early, HostEth0Inv, PeerInv, ConnectedInv, Moved, JoinedInv, NamespaceInv
<1> QED
  BY <1>1, <1>2 DEF Next, AllFinished

\* The inductive invariant holds of any number of supervisors on one host.
THEOREM NetworkInvCorrect == Spec => []NetworkInv
<1>1. Init => NetworkInv
  BY NetworkInitial, NetworkAssumption
<1>2. NetworkInv /\ [Next]_vars => NetworkInv'
  BY NetworkStepKeeps
<1> QED
  BY <1>1, <1>2, PTL DEF Spec

-----------------------------------------------------------------------------
(* What follows for the pods *)

\* setup_pod_network: POD_NET_READY is true while the pod runs.
THEOREM ReadyCorrect == Spec => []ReadyIsConnected
<1>1. NetworkInv => ReadyIsConnected
  <2> SUFFICES ASSUME NetworkInv, NEW p \in ready, pc[p] = "running"
               PROVE  /\ bound[GardenOf[p]] # None
                      /\ nsEth0[bound[GardenOf[p]]] = p
                      /\ veth[vethOf[p]] = [owner |-> p, master |-> TRUE, up |-> TRUE]
    BY DEF ReadyIsConnected
  <2>1. p \in Pods /\ veth[vethOf[p]] \in [owner : Pods \cup {None}, master : BOOLEAN, up : BOOLEAN]
    BY Places DEF NetworkInv, TypeOK
  <2> QED BY <2>1 DEF NetworkInv, ConnectedInv, Moved
<1> QED
  BY <1>1, NetworkInvCorrect, PTL

\* cleanup_network: deleting the namespace is enough to leave nothing on the host.
THEOREM StoppedCorrect == Spec => []StoppedLeavesNothing
<1>1. NetworkInv => StoppedLeavesNothing
  <2> SUFFICES ASSUME NetworkInv, NEW p \in Pods, pc[p] = "stopped"
               PROVE  /\ hostEth0 # p
                      /\ \A v \in Veths : veth[v].owner = p => \E ns \in Pods : nsEth0[ns] = p
                      /\ \A ns \in Pods : nsEth0[ns] = p => \E q \in inside : joined[q] = ns
    BY DEF StoppedLeavesNothing
  <2>1. hostEth0 # p
    BY DEF NetworkInv, HostEth0Inv
  <2>2. \A v \in Veths : veth[v].owner = p => \E ns \in Pods : nsEth0[ns] = p
    BY <2>1, NetworkAssumption DEF NetworkInv, PeerInv, NetworkAssumption
  <2>3. \A ns \in Pods : nsEth0[ns] = p => \E q \in inside : joined[q] = ns
    BY NetworkAssumption DEF NetworkInv, NamespaceInv, NetworkAssumption
  <2> QED BY <2>1, <2>2, <2>3
<1> QED
  BY <1>1, NetworkInvCorrect, PTL

\* setup_veth_pair: `ip link set eth0 netns` never takes the host's own card.
THEOREM HostNicCorrect == Spec => HostNicStays
<1>1. NetworkInv /\ [Next]_vars => [hostEth0 = Nic => hostEth0' = Nic]_vars
  <2> SUFFICES ASSUME NetworkInv, [Next]_vars, hostEth0 = Nic PROVE hostEth0' = Nic
    OBVIOUS
  <2>1. ASSUME NEW p \in Pods, Step(p) PROVE hostEth0' = Nic
    <3>1. Effect(p) /\ HostEth0Inv
      BY <2>1, StepEffect DEF NetworkInv
    <3> QED BY <3>1, NetworkAssumption
          DEF Effect, Proceeds, NamesIt, AddsPair, MovesPeer, SetsLink, Joins, Leaves, Unnames,
              Links, HostEth0Inv, NetworkAssumption
  <2>2. CASE UNCHANGED vars
    BY <2>2 DEF vars, kernel
  <2> QED BY <2>1, <2>2 DEF Next, AllFinished
<1> QED
  BY <1>1, NetworkInvCorrect, PTL DEF Spec, HostNicStays

\* container_child_exec: the silent "enter the namespace if its name exists" puts
\* no container of a running pod on the host's network.
THEOREM OnPodNetworkCorrect == StartSpec => []ContainerOnPodNetwork
<1>1. NetworkInv => ContainerOnPodNetwork
  <2> SUFFICES ASSUME NetworkInv, NEW p \in Pods, pc[p] = "running", joined[p] # None
               PROVE  joined[p] # Host /\ nsEth0[joined[p]] = p
    BY DEF ContainerOnPodNetwork
  <2>1. joined[p] = bound[GardenOf[p]]
    BY DEF NetworkInv, JoinedInv
  <2>2. nsEth0[bound[GardenOf[p]]] = p /\ bound[GardenOf[p]] \in Pods
    BY Places DEF NetworkInv, ConnectedInv, Moved, TypeOK
  <2> QED BY <2>1, <2>2, NetworkAssumption DEF NetworkAssumption
<1> QED
  BY <1>1, NetworkInvCorrect, StartImplementsNetwork, PTL

-----------------------------------------------------------------------------
(* The roots *)

\* A start step mounts at most one overlay, on top, and remembers how many it found.
Mounts(p) ==
    /\ stage[p] = "none" /\ stage' = [stage EXCEPT ![p] = "prepared"]
    /\ overlays' = prepare_rootfs(p)
    /\ before' = [before EXCEPT ![p] = Len(overlays[NameOf[p]])]
    /\ UNCHANGED <<root, groups>>
Roots(p) ==
    /\ stage[p] = "joined" /\ stage' = [stage EXCEPT ![p] = "rooted"]
    /\ root' = [root EXCEPT ![p] =
                  IF rootfs[p].layers THEN overlays[NameOf[p]][Len(overlays[NameOf[p]])] ELSE p]
    /\ UNCHANGED <<overlays, groups, before>>
GoesOn(p) ==
    /\ stage' = stage \/ (stage[p] # "none" /\ \E s \in Child \cup {"limited", "exit127", "ended"} :
                             stage' = [stage EXCEPT ![p] = s])
    /\ groups' \in {groups, groups \cup {GardenOf[p]}}
    /\ UNCHANGED <<overlays, root, before>>

\* Every step is one of the three.
LEMMA StartEffect ==
    ASSUME NEW p \in Pods, NetworkStep(p) \/ StartStep(p)
    PROVE  rootfs' = rootfs /\ (Mounts(p) \/ Roots(p) \/ GoesOn(p))
<1> USE DEF To, At, Starting, Child
<1>1. CASE NetworkStep(p) \/ StartFails(p)
  <2>1. UNCHANGED <<rootfs, stage, overlays, root, groups, before>>
    BY <1>1 DEF NetworkStep, StartFails, startVars
  <2> QED BY <2>1 DEF GoesOn
<1>2. CASE PrepareRootfs(p)
  BY <1>2 DEF PrepareRootfs, Mounts
<1>3. CASE ChangeRoot(p)
  BY <1>3 DEF ChangeRoot, Roots
<1>4. CASE SetupCgroup(p) \/ Fork(p)
  BY <1>4 DEF SetupCgroup, Fork, GoesOn
<1>5. CASE EnterNetns(p) \/ Execv(p)
  BY <1>5 DEF EnterNetns, Execv, GoesOn
<1>6. CASE MoveToCgroup(p)
  <2>1. stage[p] = "rooted" /\ UNCHANGED <<rootfs, overlays, root, groups, before>>
        /\ (To(p, "grouped") \/ To(p, "exit127"))
    BY <1>6 DEF MoveToCgroup
  <2> QED BY <2>1 DEF GoesOn
<1>7. CASE ChildFails(p) \/ ChildEnds(p)
  <2>1. stage[p] \in Child /\ UNCHANGED <<rootfs, overlays, root, groups, before>>
        /\ (To(p, "exit127") \/ To(p, "ended"))
    BY <1>7 DEF ChildFails, ChildEnds
  <2> QED BY <2>1 DEF GoesOn
<1> QED
  BY <1>1, <1>2, <1>3, <1>4, <1>5, <1>6, <1>7 DEF StartStep

\* What an overlay on top does to a merged directory.
LEMMA OnTop ==
    ASSUME NEW s \in Seq(Pods), NEW p \in Pods
    PROVE  /\ Append(s, p) \in Seq(Pods)
           /\ Len(s) \in Nat /\ Len(Append(s, p)) = Len(s) + 1
           /\ DOMAIN s = 1..Len(s) /\ DOMAIN Append(s, p) = 1..(Len(s) + 1)
           /\ \A i \in 1..Len(s) : Append(s, p)[i] = s[i]
BY LenProperties, AppendProperties

\* Merged directories only grow, and a start's own overlay is above what it found.
LEMMA RootStep ==
    ASSUME StartTypeOK, OverlayInv, RootIsNotStale, NetworkAssumption, StartAssumption,
           NEW p \in Pods, NetworkStep(p) \/ StartStep(p), TypeOK'
    PROVE  StartTypeOK' /\ OverlayInv' /\ RootIsNotStale'
<1>1. /\ rootfs \in Rootfses
      /\ stage \in [Pods -> Child \cup {"none", "prepared", "limited", "exit127", "ended"}]
      /\ overlays \in [Names -> Seq(Pods)]
      /\ root \in [Pods -> Pods \cup {None}]
      /\ groups \subseteq Gardens /\ before \in [Pods -> Nat]
  BY DEF StartTypeOK
<1>2. /\ \A q \in Pods : NameOf[q] \in Names /\ overlays[NameOf[q]] \in Seq(Pods)
      /\ GardenOf[p] \in Gardens
      /\ \A q \in Pods : Len(overlays[NameOf[q]]) \in Nat
                         /\ DOMAIN overlays[NameOf[q]] = 1..Len(overlays[NameOf[q]])
  BY <1>1, LenProperties DEF Names, Gardens
<1>3. rootfs' = rootfs /\ (Mounts(p) \/ Roots(p) \/ GoesOn(p))
  BY StartEffect
<1>4. CASE Mounts(p)
  <2>1. \A n \in Names : overlays'[n] = overlays[n] \/ overlays'[n] = Append(overlays[n], p)
    BY <1>1, <1>4 DEF Mounts, prepare_rootfs
  <2>2. overlays' \in [Names -> Seq(Pods)]
    BY <1>1, <1>2, <1>4, OnTop DEF Mounts, prepare_rootfs
  <2>3. before' \in [Pods -> Nat]
    BY <1>1, <1>2, <1>4 DEF Mounts
  <2>4. StartTypeOK'
    <3>1. stage' \in [Pods -> Child \cup {"none", "prepared", "limited", "exit127", "ended"}]
          /\ root' = root /\ groups' = groups
      BY <1>1, <1>4 DEF Mounts
    <3> QED BY <1>1, <1>3, <2>2, <2>3, <3>1 DEF StartTypeOK
  <2>5. ASSUME NEW q \in Pods
        PROVE  /\ Len(overlays[NameOf[q]]) <= Len(overlays'[NameOf[q]])
               /\ \A i \in 1..Len(overlays[NameOf[q]]) :
                     overlays'[NameOf[q]][i] = overlays[NameOf[q]][i]
    <3>1. CASE overlays'[NameOf[q]] = overlays[NameOf[q]]
      BY <1>2, <3>1
    <3>2. CASE overlays'[NameOf[q]] = Append(overlays[NameOf[q]], p)
      BY <1>2, <3>2, OnTop
    <3> QED BY <1>2, <2>1, <3>1, <3>2
  <2>6. ASSUME NEW q \in Pods, stage'[q] # "none", rootfs[q].layers
        PROVE  before'[q] < Len(overlays'[NameOf[q]])
    <3>1. CASE q = p
      <4>1. overlays'[NameOf[p]] = Append(overlays[NameOf[p]], p)
        BY <1>1, <1>2, <1>4, <2>6, <3>1 DEF Mounts, prepare_rootfs
      <4>2. before'[p] = Len(overlays[NameOf[p]])
        BY <1>1, <1>4 DEF Mounts
      <4> QED BY <1>2, <3>1, <4>1, <4>2, OnTop
    <3>2. CASE q # p
      <4>1. before'[q] = before[q] /\ stage'[q] = stage[q]
        BY <1>1, <1>4, <3>2 DEF Mounts
      <4>2. before[q] < Len(overlays[NameOf[q]])
        BY <2>6, <4>1 DEF OverlayInv
      <4>3. /\ before[q] \in Nat /\ Len(overlays[NameOf[q]]) \in Nat
            /\ Len(overlays'[NameOf[q]]) \in Nat
        BY <1>1, <1>2, <2>2, LenProperties
      <4> QED BY <2>5, <4>1, <4>2, <4>3
    <3> QED BY <3>1, <3>2
  <2>7. OverlayInv'
    <3>1. \A q \in Pods : stage'[q] = "none" => root'[q] = None
      BY <1>1, <1>4 DEF Mounts, OverlayInv
    <3> QED BY <1>3, <2>6, <3>1 DEF OverlayInv
  <2>8. ASSUME NEW q \in Pods, root'[q] # None, rootfs[q].layers
        PROVE  \E i \in DOMAIN overlays'[NameOf[q]] :
                   i > before'[q] /\ overlays'[NameOf[q]][i] = root'[q]
    <3>1. root'[q] = root[q]
      BY <1>4 DEF Mounts
    <3>2. PICK i \in DOMAIN overlays[NameOf[q]] :
              i > before[q] /\ overlays[NameOf[q]][i] = root[q]
      BY <2>8, <3>1 DEF RootIsNotStale
    <3>3. i \in 1..Len(overlays'[NameOf[q]]) /\ overlays'[NameOf[q]][i] = root'[q]
      <4>1. Len(overlays'[NameOf[q]]) \in Nat
        BY <1>2, <2>2, LenProperties
      <4>2. /\ i \in 1..Len(overlays[NameOf[q]]) /\ Len(overlays[NameOf[q]]) \in Nat
            /\ Len(overlays[NameOf[q]]) <= Len(overlays'[NameOf[q]])
        BY <1>2, <2>5, <3>2
      <4>3. i \in 1..Len(overlays'[NameOf[q]])
        BY <4>1, <4>2
      <4> QED BY <2>5, <3>1, <3>2, <4>2, <4>3
    <3>4. q # p
      BY <1>4, <2>8, <3>1 DEF Mounts, OverlayInv
    <3>5. before'[q] = before[q]
      BY <1>1, <1>4, <3>4 DEF Mounts
    <3>6. DOMAIN overlays'[NameOf[q]] = 1..Len(overlays'[NameOf[q]])
      BY <1>2, <2>2, LenProperties
    <3> QED BY <3>2, <3>3, <3>5, <3>6
  <2>9. RootIsNotStale'
    BY <1>3, <2>8 DEF RootIsNotStale
  <2> QED BY <2>4, <2>7, <2>9
<1>5. CASE Roots(p)
  <2>1. rootfs[p].layers => before[p] < Len(overlays[NameOf[p]])
    BY <1>5 DEF Roots, OverlayInv
  <2>2. root'[p] \in Pods /\ root' \in [Pods -> Pods \cup {None}]
    <3>1. rootfs[p].layers => overlays[NameOf[p]][Len(overlays[NameOf[p]])] \in Pods
      <4>1. rootfs[p].layers => Len(overlays[NameOf[p]]) \in 1..Len(overlays[NameOf[p]])
        BY <1>1, <1>2, <2>1
      <4> QED BY <1>2, <4>1, ElementOfSeq
    <3> QED BY <1>1, <1>5, <3>1 DEF Roots
  <2>3. StartTypeOK'
    <3>1. stage' \in [Pods -> Child \cup {"none", "prepared", "limited", "exit127", "ended"}]
          /\ overlays' = overlays /\ groups' = groups /\ before' = before
      BY <1>1, <1>5 DEF Roots, Child
    <3> QED BY <1>1, <1>3, <2>2, <3>1 DEF StartTypeOK
  <2>4. OverlayInv'
    <3>1. \A q \in Pods : stage'[q] # "none" => stage[q] # "none"
      BY <1>1, <1>5 DEF Roots
    <3>2. \A q \in Pods : stage'[q] = "none" => root'[q] = None
      BY <1>1, <1>5 DEF Roots, OverlayInv
    <3> QED BY <1>3, <1>5, <3>1, <3>2 DEF Roots, OverlayInv
  <2>5. ASSUME NEW q \in Pods, root'[q] # None, rootfs[q].layers
        PROVE  \E i \in DOMAIN overlays[NameOf[q]] :
                   i > before[q] /\ overlays[NameOf[q]][i] = root'[q]
    <3>1. CASE q = p
      <4>1. root'[p] = overlays[NameOf[p]][Len(overlays[NameOf[p]])]
        BY <1>1, <1>5, <2>5, <3>1 DEF Roots
      <4>2. /\ Len(overlays[NameOf[p]]) \in DOMAIN overlays[NameOf[p]]
            /\ Len(overlays[NameOf[p]]) > before[p]
        BY <1>1, <1>2, <2>1, <2>5, <3>1
      <4> QED BY <3>1, <4>1, <4>2
    <3>2. CASE q # p
      <4>1. root'[q] = root[q]
        BY <1>1, <1>5, <3>2 DEF Roots
      <4> QED BY <2>5, <4>1 DEF RootIsNotStale
    <3> QED BY <3>1, <3>2
  <2>6. RootIsNotStale'
    BY <1>3, <1>5, <2>5 DEF RootIsNotStale, Roots
  <2> QED BY <2>3, <2>4, <2>6
<1>6. CASE GoesOn(p)
  <2>1. UNCHANGED <<overlays, root, before>> /\ groups' \subseteq Gardens
    BY <1>1, <1>2, <1>6 DEF GoesOn
  <2>2. stage' \in [Pods -> Child \cup {"none", "prepared", "limited", "exit127", "ended"}]
        /\ \A q \in Pods : stage'[q] # "none" <=> stage[q] # "none"
    BY <1>1, <1>6 DEF GoesOn, Child
  <2>3. StartTypeOK'
    BY <1>1, <1>3, <2>1, <2>2 DEF StartTypeOK
  <2>4. OverlayInv'
    BY <1>3, <2>1, <2>2 DEF OverlayInv
  <2>5. RootIsNotStale'
    BY <1>3, <2>1 DEF RootIsNotStale
  <2> QED BY <2>3, <2>4, <2>5
<1> QED BY <1>3, <1>4, <1>5, <1>6

\* The inductive invariant of containers starting on top of the pod networks.
THEOREM StartInvCorrect == StartSpec => []StartInv
<1>1. StartInit => StartInv
  <2> SUFFICES ASSUME StartInit PROVE StartInv
    OBVIOUS
  <2>1. NetworkInv
    BY NetworkInitial, NetworkAssumption DEF StartInit
  <2>2. \A n \in Names : overlays[n] \in Seq(Pods)
    BY DEF StartInit
  <2>3. StartTypeOK
    BY <2>1, <2>2 DEF StartInit, StartTypeOK, NetworkInv
  <2>4. OverlayInv /\ RootIsNotStale
    BY DEF StartInit, OverlayInv, RootIsNotStale
  <2> QED BY <2>1, <2>3, <2>4 DEF StartInv
<1>2. StartInv /\ [StartNext]_allVars => StartInv'
  <2> SUFFICES ASSUME StartInv, [StartNext]_allVars PROVE StartInv'
    OBVIOUS
  <2>1. ASSUME NEW p \in Pods, NetworkStep(p) \/ StartStep(p) PROVE StartInv'
    <3>1. [Next]_vars
      BY <2>1, NetworkSteps, SupervisorSteps, ChildSteps DEF StartStep
    <3>2. NetworkInv'
      BY <3>1, NetworkStepKeeps DEF StartInv
    <3>3. StartTypeOK' /\ OverlayInv' /\ RootIsNotStale'
      BY <2>1, <3>2, RootStep, NetworkAssumption, StartAssumption DEF StartInv, NetworkInv
    <3> QED BY <3>2, <3>3 DEF StartInv
  <2>2. CASE UNCHANGED allVars
    <3>1. UNCHANGED vars /\ UNCHANGED startVars
      BY <2>2 DEF allVars
    <3>2. NetworkInv'
      BY <3>1, NetworkStepKeeps DEF StartInv
    <3> QED
      BY <3>1, <3>2 DEF startVars, StartInv, NetworkInv, StartTypeOK, OverlayInv, RootIsNotStale
  <2> QED BY <2>1, <2>2 DEF StartNext, AllDone
<1> QED
  BY <1>1, <1>2, PTL DEF StartSpec

\* prepare_rootfs and do_chroot: a container's root is never an overlay that was
\* there before its own start began, although none is ever unmounted.
THEOREM RootCorrect == StartSpec => []RootIsNotStale
<1>1. StartInv => RootIsNotStale
  BY DEF StartInv
<1> QED
  BY <1>1, StartInvCorrect, PTL

\* What the pods' networks promise, they promise under running containers.
THEOREM NetworkUnderContainers ==
    StartSpec => []ReadyIsConnected /\ []StoppedLeavesNothing /\ HostNicStays
BY StartImplementsNetwork, ReadyCorrect, StoppedCorrect, HostNicCorrect, PTL
=============================================================================
