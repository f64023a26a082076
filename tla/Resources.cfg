\* One exporter of any spec, one edit of any kind, another's object in the way, failing requests and lost answers.
SPECIFICATION FairSpec
CHECK_DEADLOCK FALSE
CONSTRAINT OneStranger
ACTION_CONSTRAINT PlainEdits
INVARIANTS TypeOK ResourcesAtRest ReadinessAtRest ObservedBacked RefusedUnreported
PROPERTIES OthersKept Refines Settles

CONSTANTS
  e1 = e1
  plainPod = plainPod
  Alien = Alien
  Tampered = Tampered
  Exporters = {e1}
  Specs <- AllSpecs
  ServiceNames = {e1}
  Replies = {"ok", "error", "lost"}
  MaxEdits = 1
