SPECIFICATION BillingSpec
CONSTANTS
    c1 = c1
    c2 = c2
    r1 = r1
    r2 = r2
    Charges = {c1}
    Totals = {1}
    Requests = {r1, r2}
    MayDo = {"issue", "bill_charge"}
    MaxInvoices = 3
    MaxShared = 3
    Free = Free
INVARIANTS BilledOnce
CHECK_DEADLOCK FALSE
