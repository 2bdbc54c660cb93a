SPECIFICATION Spec
CONSTANTS
  cash = cash  loan = loan  mortgage = mortgage  card = card  rub = rub
  Operation = {o1, o2, o3}
  Account = {cash, loan, card}
  Currency = {rub}
  CurrencyOf <- MCCurrencyOf
  ManualAmount = {1, 2}
  Key = {}
  NoKey = NoKey
  ManualRequest = ManualRequest
  DebtAccount = {loan, card}
  KindOf <- MCKindOf
  Payment = {p1, p2}
  NoDebt = NoDebt
  NoOperation = NoOperation
SYMMETRY Interchangeable
CHECK_DEADLOCK FALSE
INVARIANTS
  IInv
  LoanBalanceExplained
  DeletedDebtForgotten
  ReportsAgree
