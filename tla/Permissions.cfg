SPECIFICATION PermSpec
CONSTANTS
    a1 = a1
    doc = doc
    key = key
    tmp = tmp
    t1 = t1
    t2 = t2
    Tasks = {t1, t2}
    Agents <- MCAgents
    FilePaths <- MCFilePaths
    ExecPaths <- MCExecPaths
    PrefixPaths <- MCPrefixPaths
    KeyBytes <- MCKeyBytes
    StaticKeys <- MCStaticKeys
    OperatorPolicies <- MCOperatorPolicies
    DefaultExecPolicy <- MCDefaultExecPolicy
    Resources <- MCFilePaths
    AutoDeny <- MCAutoDeny
    AutoApprove <- MCAutoApprove
    ClassOf <- MCClassOf
    Timeout <- MCTimeout
    RiskyExecs = {}
    Justifications = {0}
    AllowCapacity = 2
    Durations = {1}
    MaxGrants = 1
    MaxSnapshots = 0
    PerMinute = 1
    PerHour = 3
    DenyCooldown = 1
    Minute = 1
    Hour = 1
    ResourceCooldown = 0
    MaxCooldown = 0
    MaxPending = 2
    MaxHistory = 1
    MaxGrantTotal = 1
    Day = 2
    MaxBoots = 2
INVARIANTS
    PermTypeOK
    NoOrphans
    SettledOnce
    HistoryMatchesAudit
    AnswerMatchesAudit
    BudgetRespected
PROPERTIES
    ImplementsLedger
    EveryRequestAnswered
