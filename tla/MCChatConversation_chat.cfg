SPECIFICATION FairSpec
CONSTANTS
    r1 = r1
    r2 = r2
    a1 = a1
    h1 = h1
    h2 = h2
    NoRow = NoRow
    NoAccount = NoAccount
    Row = {r1, r2}
    Account = {a1}
    Handler = {h1, h2}
    Token = {1, 2, 3}
    MaxThreads = 2
    MaxCrashes = 1
    MaxElsewhere = 1
    HashOf <- OneHash
    Parsed <- OneDuplicate
CHECK_DEADLOCK FALSE
INVARIANTS
  Consistent
  OneOpenState
  OneEffectPerDialog
  PostedOnce
PROPERTIES
  FileForgotten
