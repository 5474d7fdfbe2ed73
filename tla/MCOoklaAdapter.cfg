CONSTANTS
  Calls = {c1, c2}
  Homes = {path, default}
  Default = default
  Lengths = {3}
  Locks = {l1, l2}
  Uploads = {u1, u2}
  Versions = {v1}
  None = None
SPECIFICATION FairSpec
INVARIANTS TypeOK OneProcessPerHome LockTableExact InstalledIsGenuine
PROPERTIES CallsReturn RevocationStops
