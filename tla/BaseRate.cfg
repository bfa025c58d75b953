SPECIFICATION RatesSpec
CONSTANTS
    usd = usd
    khr = khr
    Currencies = {usd, khr}
    Scale = 2
    Cent = 2
    Fine = 2
    Days = {1}
    Invoices = {d1}
    Editors = {a}
    SomeSaves <- SomeAsksToSave
    RateValues = {9}
    InitialRates <- SomeStores
    MaxRateChanges = 1
    MaxSaves = 2
    Blank = Blank
INVARIANT BaseDocumentsCarryRateOne
CHECK_DEADLOCK FALSE
