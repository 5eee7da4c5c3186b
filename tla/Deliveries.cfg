SPECIFICATION Spec
CONSTANTS
  j1 = j1
  j2 = j2
  Courier = {c1}
  Job = {j1, j2}
  Round = {n1}
  Request = {q1, q2}
  Report = {"collected"}
  Fanout = 1
  PayingJob = {j1, j2}
  Mortal = {q1, q2}
  NoRow = NoRow
  Free = Free
  Pay <- MCPay
  Amount = {1}
  LastPeriod = 1
  Idle = Idle
  Declared <- MCDeclared
  Teller = {t1}
INVARIANTS DeliveredImpliesCredited CreditedImpliesCompleted
SYMMETRY Symmetry
