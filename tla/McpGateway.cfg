\* Two calls and one task, which may be missing.
CONSTANTS
  Calls = {a, b}
  Ids = {t}
SPECIFICATION FairSpec
INVARIANTS
  SuccessMeansMadeOnce
  RefusedMeansNeverMade
PROPERTY EveryCallEnds
\* The calls are finitely many: the run ends when all are answered.
CHECK_DEADLOCK FALSE
