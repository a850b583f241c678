SPECIFICATION GrantSpec
CONSTANTS
    a1 = a1
    dir = dir
    file = file
    long1 = long1
    long2 = long2
    cmd = cmd
    dirBytes = dirBytes
    longBytes = longBytes
    fileBytes = fileBytes
    Agents <- MCAgents
    FilePaths <- MCFilePaths
    ExecPaths <- MCExecPaths
    PrefixPaths <- MCPrefixPaths
    KeyBytes <- MCKeyBytes
    StaticKeys <- MCStaticKeys
    OperatorPolicies <- MCOperatorPolicies
    DefaultExecPolicy <- MCDefaultExecPolicy
    AllowCapacity = 1
    Durations = {0, 2}
    MaxGrants = 2
    MaxSnapshots = 1
INVARIANTS
    GrantTypeOK
    NoLingeringFileAccess
    StrayRulesWereSaved
PROPERTIES
    ExpiredGrantRevoked
