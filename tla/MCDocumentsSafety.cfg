SPECIFICATION Spec
CONSTANTS
  d1 = d1
  d2 = d2
  d3 = d3
  Docs = {d1, d2}
  Contents = {d1, d2, d3}
  Content <- MCContent
  None = None
  Requests = {r1, r2, r3, r4, r5}
SYMMETRY Symmetry
CHECK_DEADLOCK FALSE
INVARIANTS BytesBehindRows LogTellsFate
PROPERTIES NeverServedAfterDeletion
