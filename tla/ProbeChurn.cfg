\* One probe of any spec, two edits of any kind, others writing its Probe, failing requests and lost answers.
SPECIFICATION FairSpec
CHECK_DEADLOCK FALSE
INVARIANTS TypeOK ProbeGenerated ProbeReported ReadyBacked LabelsKept
PROPERTIES ReportForCurrent WritesMatter Refines Settles

CONSTANTS
  p1 = p1
  nine = nine  ten = ten
  t1 = t1  t2 = t2
  pods = pods  keep = keep
  NoIngress = NoIngress
  NoPort = NoPort
  Blank = Blank
  Probes = {p1}
  Exporters <- OneExporter
  Modules <- TwoModules
  NamespaceOf <- AtHome
  ModuleName <- Joined
  LabelValues <- Texts
  Specs <- AllSpecs
  Ports = {nine}
  Replies = {"ok", "error", "lost"}
  MaxEdits = 2
