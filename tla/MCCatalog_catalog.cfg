SPECIFICATION Spec
CONSTANTS
    system = system
    c1 = c1
    c2 = c2
    r1 = r1
    r2 = r2
    x1 = x1
    o1 = o1
    rub = rub
    usd = usd
    NoCategory = NoCategory
    NoRule = NoRule
    NoRow = NoRow
    Category = {system, c1, c2}
    System = system
    Rule = {r1, r2}
    Narrow = {r1, r2}
    Row = {x1}
    NarrowRow = {x1}
    Operation = {o1}
    Currency = {rub, usd}
    Name = {"fun", "FUN", "food"}
    DefaultName = {"food"}
    SystemName = "uncategorized"
    Fold <- Folded
SYMMETRY Slots
CHECK_DEADLOCK FALSE
INVARIANTS
  Consistent
  ActiveRulesUsable
  OnlySeededTwice
  BestRuleChosen
