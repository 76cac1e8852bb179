SPECIFICATION ISpec
CONSTANTS
    Sources <- MCSources
    MaxImports = 3
INVARIANTS
    RegisteredBlobExists
