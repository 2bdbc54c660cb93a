SPECIFICATION Spec
CONSTANTS
  a = a  b = b  rub = rub
  d1 = d1  d2 = d2  r1 = r1  r2 = r2
  h1 = h1  h2 = h2
  Operation = {o1, o2}
  Account = {a, b}
  Currency = {rub}
  CurrencyOf <- MCCurrencyOf
  ManualAmount = {1}
  Key = {k1, k2}
  NoKey = NoKey
  ManualRequest = ManualRequest
  Document = {d1, d2}
  Row = {r1, r2}
  DocumentOf <- TwoSidesDocumentOf
  DocumentAccount <- TwoSidesAccount
  AmountOf <- TwoSidesAmountOf
  Unreadable = {}
  Hash = {h1, h2}
  NoHash = NoHash
  HashOf <- TwoSidesHashOf
  FingerprintOf <- TwoSidesFingerprintOf
  NoRow = NoRow
  NoAccount = NoAccount
  NoOperation = NoOperation
SYMMETRY Interchangeable
CHECK_DEADLOCK FALSE
INVARIANTS
  Consistent
  StatementMoneyPosted
PROPERTIES
  ImportedOperationsFinal
