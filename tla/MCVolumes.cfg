SPECIFICATION VSpec
CONSTANTS
    Manifests <- MCManifests
    HostPaths <- MCHostPaths
    Secrets <- MCSecrets
    Keys = {"k1", "k2"}
    SecretKeys <- MCSecretKeys
    MaxCalls = 4
    MaxFaults = 1
INVARIANTS
    
    DetachIsComplete
PROPERTIES
    NamedVolumePersists
    EmptyDirKeepsData
CHECK_DEADLOCK FALSE
