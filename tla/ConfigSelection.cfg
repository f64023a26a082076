\* Two selectors, labels that match and do not, bodies that convert, fail and panic; lost answers and a lost touch.
SPECIFICATION Spec
CHECK_DEADLOCK FALSE
SYMMETRY Interchangeable
INVARIANTS TypeOK IInv ConfigComplete NothingElse StatusSettled VerdictCurrent
PROPERTIES UserIntentKept StatusForCurrent Refines

CONSTANTS
  e1 = e1  e2 = e2  m1 = m1  m2 = m2
  home = home  away = away
  app = app  prod = prod  dev = dev
  good = good  better = better  wrong = wrong  bomb = bomb
  cGood = cGood  cBetter = cBetter
  ConvertError = ConvertError
  ConvertPanic = ConvertPanic
  None = None
  EmptyValue = EmptyValue
  Exporters = {e1}
  Modules = {m1}
  NamespaceOf <- InHome
  Selectors <- TwoSelectors
  LabelSets <- ProdOrDev
  Bodies = {good, better, bomb, wrong}
  Names = {m1}
  ModuleName <- OwnName
  Entries = {cGood, cBetter}
  ConvertModule <- Conversion
  Replies = {"ok", "error", "lost"}
  MaxEdits = 1
  MaxDrops = 1
  MaxShuffles = 0
