\* Two exporters select one module, or two modules of one name are selected by one exporter; users change
\* a module when all is at rest, and the exporters may be listed in another order once.
SPECIFICATION Spec
CHECK_DEADLOCK FALSE
SYMMETRY Interchangeable
CONSTRAINT FanOrClash
ACTION_CONSTRAINT ModuleEditAtRest
INVARIANTS ConfigComplete StatusSettled

CONSTANTS
  e1 = e1  e2 = e2  m1 = m1  m2 = m2
  home = home  away = away
  app = app  prod = prod  dev = dev
  good = good  better = better  wrong = wrong  bomb = bomb
  cGood = cGood  cBetter = cBetter
  ConvertError = ConvertError
  ConvertPanic = ConvertPanic
  None = None
  EmptyValue = EmptyValue
  Exporters = {e1, e2}
  Modules = {m1, m2}
  NamespaceOf <- AllHome
  Selectors <- OneSelector
  LabelSets <- ProdOnly
  Bodies = {good, better, wrong}
  Names = {shared}
  ModuleName <- OneName
  Entries = {cGood, cBetter}
  ConvertModule <- Conversion
  Replies = {"ok", "error"}
  MaxEdits = 1
  MaxDrops = 0
  MaxShuffles = 1
