\* Violated: an exporter created after a module is not among its references.
SPECIFICATION Spec
CHECK_DEADLOCK FALSE
INVARIANT ReferencesCurrent

CONSTANTS
  e1 = e1  e2 = e2  m1 = m1  m2 = m2
  home = home  away = away
  app = app  prod = prod  dev = dev
  good = good  better = better  wrong = wrong  bomb = bomb
  cGood = cGood  cBetter = cBetter
  ConvertError = ConvertError
  ConvertPanic = ConvertPanic
  None = None
  EmptyValue = EmptyValue
  Exporters = {e1}
  Modules = {m1}
  NamespaceOf <- InHome
  Selectors <- OneSelector
  LabelSets <- ProdOnly
  Bodies = {good}
  Names = {m1}
  ModuleName <- OwnName
  Entries = {cGood, cBetter}
  ConvertModule <- Conversion
  Replies = {"ok"}
  MaxEdits = 1
  MaxDrops = 0
  MaxShuffles = 0
