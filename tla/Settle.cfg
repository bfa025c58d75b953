SPECIFICATION Spec
CONSTANTS
  p1 = p1
  p2 = p2
  i1 = i1
  r1 = r1
  r2 = r2
  k1 = k1
  k2 = k2
  k3 = k3
  past = past
  today = today
  Payments = {p1, p2}
  Invoices = {i1}
  Totals = {2, 4}
  Requests = {r1, r2}
  MayDo <- AccountantAndCashier
  Keys = {k1, k2, k3}
  Payload <- ThreeKeys
  Periods = {today}
  PeriodOf <- OnePeriod
  Today = today
  Free = Free
  NoDoc = NoDoc
  NoKey = NoKey
INVARIANTS NoOverAllocation RetriedKeySettlesOnce
PROPERTIES ImplementsSettlement PaidDriftsOnlyByStaleReversal
