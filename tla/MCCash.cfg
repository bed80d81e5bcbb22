SPECIFICATION MCSpec
CONSTANTS
  r1 = r1  r2 = r2  t1 = t1  t9 = t9
  kOpen1 = kOpen1  kOpen2 = kOpen2  kIn = kIn  kExp = kExp
  kClose1 = kClose1  kSale = kSale  kPay = kPay  kRefund = kRefund
  Registers = {r1, r2}
  Terminals = {t1, t9}
  Known = {t1}
  Keys = {kOpen1, kOpen2, kIn, kExp, kClose1, kSale, kPay, kRefund}
  Procs = {p1, p2}
  Amounts <- MCAmounts
  Requests <- TillRequests
  None = None
INVARIANTS TillsOK NoOverdraft ClosedTillsReconcile AnswersAreTrue
PROPERTIES KeepsTheLedger EveryRequestEnds
