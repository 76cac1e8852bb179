SPECIFICATION StartSpec
CONSTANTS
    a1 = a1
    a2 = a2
    b1 = b1
    gardenA = gardenA
    gardenB = gardenB
    vethA = vethA
    vethB = vethB
    ipFirst = ipFirst
    Pods = {a1, a2, b1}
    GardenOf <- MCGardenOf
    VethNames <- MCVethNames
    Address <- MCAuto
    AutoIp = AutoIp
    FirstIp = ipFirst
    None = None
    Nic = Nic
    Faults = {"command", "crash"}
    Host = Host
    web = web
    NameOf <- MCNameOf
    Rootfses <- MCRootfses
INVARIANTS
    ContainerOnPodNetwork
    RootIsNotStale
    
    StoppedLeavesNothing
PROPERTIES
    HostNicStays
