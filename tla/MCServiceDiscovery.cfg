SPECIFICATION ServiceSpec
CONSTANTS
    web = web
    other = other
    Pods = {web, other}
    FirstSubnet = 253
    EndSubnet = 255
    FirstHost = 252
    EndHost = 254
    Pieces <- MCPieces
    Namings <- MCNamings
    Services <- MCServices
    MaxWrites = 2

    
    
    
PROPERTIES
    UnregisterIsExact
CHECK_DEADLOCK FALSE
