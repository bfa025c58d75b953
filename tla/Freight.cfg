SPECIFICATION FreightSpec
CONSTANTS
    q1 = q1
    q2 = q2
    r1 = r1
    r2 = r2
    t1 = t1
    t2 = t2
    k1 = k1
    j1 = j1
    n1 = n1
    c1 = c1
    f1 = f1
    a1 = a1
    a2 = a2
    Quotes = {q1, q2}
    Quoters = {r1, r2}
    Terms = {t1, t2}
    NoTerms = NoTerms
    Keys = {k1}
    NoKey = NoKey
    MaxRevisions = 2
    MaxBookings = 2
    MaxQuoting = 4
    Asked = {}
    Nobody = Nobody
    Jobs = {j1}
    Clerks = {r1, r2}
    MaxBoxes = 2
    Labels = {n1}
    Unlabelled = Unlabelled
    MaxLegs = 2
    MaxMarks = 2
    MaxLeg = 2
    Codes = {c1}
    Files = {f1}
    NoJob = NoJob
    MaxClerking = 3
    Typists = {r1, r2}
    Fields = {a1, a2}
    Words = {"", "1"}
    Attributes <- Settings
    MaxPages = 2
    MaxTypings = 1
    MaxFormEdits = 1
    MaxLines = 1
    MaxSaves = 2
SYMMETRY Alike
INVARIANTS RetriesGetOneOrder
PROPERTIES SavesChangeWhatWasTyped OffersStand ChecksOutliveTheWait
CHECK_DEADLOCK FALSE
