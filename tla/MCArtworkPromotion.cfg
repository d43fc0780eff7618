CONSTANTS
  r1 = r1
  r2 = r2
  r3 = r3
  d1 = d1
  d2 = d2
  Requests = {r1, r2, r3}
  Digests = {d1, d2}
  DigestOf <- MCDigestOf
  MaxStalls = 1
  None = None
CHECK_DEADLOCK FALSE
SPECIFICATION Spec
INVARIANTS NamedPinsAreKept OneUploader
PROPERTIES PublishesOnce ProgressOnlyGrows SavedProgressIsFinished
