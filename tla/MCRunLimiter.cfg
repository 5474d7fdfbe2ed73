CONSTANTS
  Workers = {w1, w2, w3}
  Tasks = {t1, t2, t3}
  Wans = {a1, a2, a3}
  GlobalLimits = {0, 2, 3}
  MaxConcurrency = 2
  NoRequest = NoRequest
SPECIFICATION Spec
SYMMETRY Symmetry
INVARIANTS TypeOK Exclusion WithinCap NoLostWakeup NoStandstill
