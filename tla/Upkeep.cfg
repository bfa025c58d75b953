SPECIFICATION UpkeepSpec
CONSTANTS
    customer = customer
    client = client
    acme = acme
    k1 = k1
    k2 = k2
    h1 = h1
    c1 = c1
    Publishers = {a, b}
    Selects = 2
    Contents = {0, 1, 2}
    Empty = 0
    MaxVersions = 4
    MaxConfigEdits = 1
    MaxPublishing = 4
    NoPublisher = NoPublisher
    Clerks = {a, b}
    Records = {customer, client, acme}
    PartyRoles = {customer, client}
    Parties = {acme}
    Alikes <- Homonyms
    InitialRecords = {customer, acme}
    MaxClerking = 5
    Designers = {a, b}
    Tabs = {t1, t2}
    Jobs = {j1}
    Attributes = {weight}
    FieldCodes = {c1, c2}
    NoCode = NoCode
    RowIds = {1, 2}
    MaxDesigns = 4
    Importers = {a, b}
    Operators = {u, v}
    Keys = {k1, k2}
    Sheets <- Workbooks
    Modes = {"CREATE_ONLY", "CREATE_AND_UPDATE", "VALIDATE_ONLY"}
    MaxUploads = 2
    MaxClerkWrites = 2
    MaxConfirms = 3
    Workers = {a, b}
    MaxRuleChanges = 1
    MaxOutages = 1
    Visitors = {a, b}
    Writers = {c, d}
    MaxListChanges = 2
    MaxLosses = 1
    Replicas = {a, b}
    Tables <- InOrder
    Hashes = {h1, h2}
    NoHash = NoHash
    MaxRowEdits = 1
    Loner = a
    MaxRuns = 3
    MaxSharedRuns = 2
    CallRetries = 1
    MaxCalls = 2
    MaxSharedCalls = 1
    MaxRestores = 1
    Schedulers = {a, b}
    PoolSize = 2
    MaxDues = 3
INVARIANTS LockLeavesNoConflict ArchivesAgree SavedDataStaysWhole TokensConfirmOnce CurrentCopiesAreComplete CachedListsAreCurrent SheetIsABackup OverlapNeedsALostConnection
PROPERTIES RulesReachEveryWorker DueRunsHappen
CHECK_DEADLOCK FALSE
