\* Specs of every section and secrets that come, go and change while they are read.
SPECIFICATION Spec
CHECK_DEADLOCK FALSE
INVARIANTS TypeOK AdmittedConverts
PROPERTIES SectionHonoured AllOrNothing ValidKept ExplicitKept

CONSTANTS
  r1 = r1  r2 = r2  v1 = v1
  Specs <- SomeSpecs
  Refs = {r1, r2}
  NoRef = NoRef
  Values = {v1}
  Missing = Missing
  Empty = Empty
  NotRead = NotRead
  Redacted = Redacted
  Absent = Absent
  MaxEdits = 2
