\* Violated: the process of an exporter with a port of its own listens elsewhere.
SPECIFICATION Spec
CHECK_DEADLOCK FALSE
CONSTRAINT OneStranger
INVARIANT PortListened

CONSTANTS
  e1 = e1
  plainPod = plainPod
  Alien = Alien
  Tampered = Tampered
  Exporters = {e1}
  Specs <- AllSpecs
  ServiceNames = {e1}
  Replies = {"ok"}
  MaxEdits = 0
