\* Violated: a TLS key is written as <secret>, and bodySizeLimit not at all.
SPECIFICATION Spec
CHECK_DEADLOCK FALSE
INVARIANT SpecRendered

CONSTANTS
  r1 = r1  r2 = r2  v1 = v1
  Specs <- Authenticated
  Refs = {r1, r2}
  NoRef = NoRef
  Values = {v1}
  Missing = Missing
  Empty = Empty
  NotRead = NotRead
  Redacted = Redacted
  Absent = Absent
  MaxEdits = 0
