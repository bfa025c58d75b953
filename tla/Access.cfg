SPECIFICATION AccessSpec
CONSTANTS
    r1 = r1
    r2 = r2
    p1 = p1
    p2 = p2
    f1 = f1
    f2 = f2
    u1 = u1
    u2 = u2
    u3 = u3
    super = super
    clerk = clerk
    chargesView = chargesView
    documentsView = documentsView
    chargesRead = chargesRead
    documentsRead = documentsRead
    telegram = telegram
    ui = ui
    backup = backup
    Devices = {r1, r2}
    Passwords = {p1, p2}
    MaxSessions = 2
    MaxTokens = 3
    MaxLinks = 2
    MaxAsking = 4
    NoDevice = NoDevice
    Admins = {r1, r2}
    Users = {u1, u2, u3}
    BuiltIn = u1
    Roles = {super, clerk}
    SuperAdmin = super
    Codes = {chargesView, documentsView, chargesRead, documentsRead}
    Pages = {chargesView, documentsView}
    Grants <- PageGrants
    Order <- PageOrder
    Offers <- Submitted
    MaxAdmin = 4
    NoAdmin = NoAdmin
    Editors = {r1, r2}
    Groups = {telegram, backup}
    Telegram = telegram
    AppInfo = ui
    Fields = {f1, f2}
    Values = {0, 1}
    Default = 0
    Secrets <- SecretKeys
    Needs <- NeededKeys
    MaxEdits = 3
    NoEditor = NoEditor
    Workers = {1}
    Readers = {r1, r2}
    TTL = 2
    MaxClock = 4
    MaxPolicy = 2
    Owners = {o}
    Hooks = {h, g}
    Accounts = {a}
    Chats = {c}
    NoOne = NoOne
    MaxBots = 2
    MaxPairings = 2
    MaxUpdates = 1
    MaxDisconnects = 1
    MaxSaves = 2
    MaxNow = 5
    MaxEvents = 3
    BackupRuns = {1}
    Keep = 2
    Burst = 1
    Threshold = 2
    Limit = 1
    Cooldown = 2
    Duration = 1
    NoTime = NoTime
    Callers = {r1, r2}
    Limits = {3}
    MaxAdmissions = 4
    MaxTurns = 1
SYMMETRY Alike
INVARIANTS SecretsWorkOnce ResetsTakeHold StalenessBounded BotKeepsItsPlace
PROPERTIES AdministratorsCoexist
CHECK_DEADLOCK FALSE
