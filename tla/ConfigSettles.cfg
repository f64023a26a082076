\* Two modules touch one exporter, over each other's annotation, and an exporter is deleted and made anew; the operator comes to rest again.
SPECIFICATION FairSpec
CHECK_DEADLOCK FALSE
ACTION_CONSTRAINT EditAtRest
INVARIANTS ConfigComplete ConfigMapOwned
PROPERTY Settles

CONSTANTS
  e1 = e1  e2 = e2  m1 = m1  m2 = m2
  home = home  away = away
  app = app  prod = prod  dev = dev
  good = good  better = better  wrong = wrong  bomb = bomb
  cGood = cGood  cBetter = cBetter
  ConvertError = ConvertError
  ConvertPanic = ConvertPanic
  None = None
  EmptyValue = EmptyValue
  Exporters = {e1}
  Modules = {m1, m2}
  NamespaceOf <- InHome
  Selectors <- OneSelector
  LabelSets <- ProdOnly
  Bodies = {good}
  Names = {m1, m2}
  ModuleName <- OwnName
  Entries = {cGood, cBetter}
  ConvertModule <- Conversion
  Replies = {"ok", "error", "lost"}
  MaxEdits = 2
  MaxDrops = 0
  MaxShuffles = 0
