\* One create and three requests racing on its
\* task: a move to win, one to be refused as stale and one to interfere with
\* its retry. A clock that only goes forward; no symmetry, which liveness does
\* not admit.
CONSTANTS
  Creates = {c1}
  Others = {m1, m2, m3}
  MaxClock = 1
  ClockMayStepBack = FALSE
SPECIFICATION FairSpec
INVARIANTS
  TypeOK
PROPERTIES
  UpdatedAtNeverBack
  EveryRequestAnswered
  ImplementsAtomicTasks
  LegalMoves
  RetryFollowsChange
\* The requests are finitely many: the run ends when all are answered.
CHECK_DEADLOCK FALSE
