SPECIFICATION Spec
CONSTANTS
  p1 = p1
  p2 = p2
  i1 = i1
  r1 = r1
  r2 = r2
  k1 = k1
  k2 = k2
  k3 = k3
  past = past
  today = today
  Payments = {p1, p2}
  Invoices = {i1}
  Totals = {2}
  Requests = {r1, r2}
  MayDo <- ReverserAndCashier
  Keys = {k1, k2}
  Payload <- TwoKeys
  Periods = {today}
  PeriodOf <- OnePeriod
  Today = today
  Free = Free
  NoDoc = NoDoc
  NoKey = NoKey
INVARIANTS PaidIsAllocated
