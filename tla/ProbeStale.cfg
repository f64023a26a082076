\* Violated: a ready probe keeps the port its exporter had, or has neither exporter nor module left.
SPECIFICATION Spec
CHECK_DEADLOCK FALSE
INVARIANT ProbeCurrent

CONSTANTS
  p1 = p1
  nine = nine  ten = ten
  t1 = t1  t2 = t2
  pods = pods  keep = keep
  NoIngress = NoIngress
  NoPort = NoPort
  Blank = Blank
  Probes = {p1}
  Exporters <- OneExporter
  Modules <- TwoModules
  NamespaceOf <- AtHome
  ModuleName <- Joined
  LabelValues <- Texts
  Specs <- PlainSpecs
  Ports = {nine, ten}
  Replies = {"ok", "error", "lost"}
  MaxEdits = 1
