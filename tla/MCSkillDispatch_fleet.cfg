SPECIFICATION FairSpec
CONSTANTS
  v1 = v1
  v2 = v2
  a = a
  b = b
  u = u
  None = None
  Devices = {1, 2}
  Versions = {v1, v2}
  Uploads = {a, b}
  Users = {u}
  Calls = {1, 2}
  N = 2
  Budgets <- Some
INVARIANTS CatalogSound CachedIsPublished
PROPERTY BuffersEnd
CHECK_DEADLOCK FALSE
