\* Three connections, and a timeout of three timers' length, the last one short.
CONSTANTS
  Connections = {a, b, c}
  Timeout = 5
  Longest = 2
SPECIFICATION FairShutdownSpec
INVARIANTS
  ShutdownTypeOK
  CleanExitAbandonsNothing
  GivesUpNoSooner
PROPERTY StopsWhenAsked
\* The process exits.
CHECK_DEADLOCK FALSE
