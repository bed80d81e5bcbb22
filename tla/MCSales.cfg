SPECIFICATION MCSpec
CONSTANTS
  s1 = s1  s2 = s2  s3 = s3  r1 = r1  t1 = t1  t2 = t2
  k1 = k1  k2 = k2  m1 = m1
  Sales = {s1, s2, s3}
  Products <- MCProducts
  Registers = {r1}
  Terminals = {t1, t2}
  Keys = {k1, k2}
  ManualKeys = {m1}
  Procs = {p1, p2}
  Requests <- MCRequests
  None = None
  Total <- MCTotal
  Items <- MCItems
  Credit = {s1, s2}
  TerminalOf <- MCTerminalOf
  Stock0 <- MCStock0
INVARIANTS RecordsAgree StockConserved AnswersAreTrue
PROPERTIES KeepsTheLedger EveryRequestEnds
