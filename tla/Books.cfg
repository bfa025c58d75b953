SPECIFICATION BooksSpec
CONSTANTS
    r1 = r1
    r2 = r2
    a1 = a1
    a2 = a2
    f1 = f1
    withTax = withTax
    builtIn = builtIn
    Rules = {r1, r2}
    Fees = {f1}
    Mappings = {withTax, builtIn}
    Taxed = {withTax}
    Legacy = builtIn
    Priorities = {0, 1}
    Admins = {a1, a2}
    MaxCommands = 2
    Documents <- SomeDocuments
    InitialRules <- SomeRules
    Free = Free
    Journals = {j1}
    Keepers = {a1, a2}
    Approvers = {p1}
    Months = {1, 2}
    Forms <- SomeForms
    MaxPeriodChanges = 1
    Nobody = Nobody
    TypeOf <- SomeChart
    FiscalYears <- SomeYears
    Entries <- SomeEntries
    Asks <- SomeLedgerAsks
    Users = {u1}
    Offices = {o1}
    PageSize = 2
    MaxEntries = 3
    MaxLinks = 1
    MaxDrawn = 2
    None = 0
    sale = sale
    extra = extra
    bill = bill
    receipt = receipt
    payout = payout
    note = note
    joint = joint
    storage = storage
    job = job
    charge = charge
    Papers = {sale, joint, extra, bill, receipt, payout, note}
    PaperOf <- SomePapers
    Jobs = {job}
    JobCharges = {charge, storage}
    ChargeOf <- SomeCharges
    Today = 100
    InitialBooks <- SomeBooks
    Boards = {b1}
    MaxCommits = 2
    MaxMeanwhile = 1
    MaxBegun = 2
    MaxDashed = 1
    MaxUnbumped = 1
    NoJob = NoJob
    NoDoc = NoDoc
    NoDate = NoDate
    Clerks = {a1, a2}
    Allowed = {{"reference", "order", "close"}, {"order"}}
    MaxMoves = 4
    NoClerk = NoClerk
    usd = usd
    khr = khr
    Currencies = {usd, khr}
    Scale = 2
    Cent = 2
    Fine = 2
    Days = {1}
    Invoices = {d1}
    Editors = {a1, a2}
    SomeSaves <- SomeAsksToSave
    RateValues = {9}
    InitialRates <- SomeStores
    MaxRateChanges = 1
    MaxSaves = 3
    Blank = Blank
    pickup = pickup
    drop = drop
    Planners = {a1, a2}
    PlaceRoles = {pickup, drop}
    Submissions <- SomeLists
    MaxStopId = 5
    MaxRouteSaves = 4
    MaxRetirements = 1
SYMMETRY Interchangeable
INVARIANTS EntryBalances PostedJournalsBalance ReportsReconcile PagesMissNothing CommandStatusesByCommand PostedAmountsExplained RoutesStayInOrder ListsReconcile
CHECK_DEADLOCK FALSE
