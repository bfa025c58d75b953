SPECIFICATION BillingSpec
CONSTANTS
    c1 = c1
    c2 = c2
    r1 = r1
    r2 = r2
    Charges = {c1, c2}
    Totals = {0, 1}
    Requests = {r1, r2}
    MayDo = {"save", "delete", "issue", "bill_charge", "bill_order"}
    MaxInvoices = 3
    MaxShared = 2
    Free = Free
SYMMETRY Interchangeable
INVARIANTS IssuingBillsOnce LoneCommandsBillOnce

CHECK_DEADLOCK FALSE
