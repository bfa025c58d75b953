SPECIFICATION Spec
CONSTANTS
  p1 = p1
  p2 = p2
  i1 = i1
  r1 = r1
  r2 = r2
  k1 = k1
  k2 = k2
  k3 = k3
  past = past
  today = today
  Payments = {p1}
  Invoices = {i1}
  Totals = {1, 2}
  Requests = {r1, r2}
  MayDo <- EditorAndPoster
  Keys = {k1}
  Payload <- OneKey
  Periods = {today}
  PeriodOf <- OnePeriod
  Today = today
  Free = Free
  NoDoc = NoDoc
  NoKey = NoKey
INVARIANTS PostedTermsFrozen
