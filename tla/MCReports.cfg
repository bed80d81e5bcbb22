SPECIFICATION ReportsSpec
CONSTANTS
  Sales = {1, 2, 3}
  SaleData <- MCSaleData
  Products = {1, 2}
  CategoryOf <- MCCategoryOf
  Price <- MCPrice
  Cost <- MCCost
  Terminals = {"t1", "t2"}
  Warehouses = {"w1", "w2"}
  BranchOf <- MCBranchOf
  Users = {"ana", "luis"}
  Moments = {1, 2}
  Limits = {1, 2, 3}
  Methods = {"CASH", "CARD"}
  Opening <- MCOpening
  Stock0 <- MCStock0
  Unset = Unset
  BatchSize = 2
  PageSize = 2
  Filters <- MCFilters
  MaxExpenses = 1
INVARIANTS ReportsAgree ScanCountsOnce PagesMissOnlyWhatLeft
