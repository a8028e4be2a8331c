\* Two services, one after the other.  Two ports, so that the starts and other
\* programs meet on one; another program takes a port once, at any step.
CONSTANTS
  Services = 2
  Flaws <- MCFlaws
  Ports = {p1, p2}
  Limit = 2
  MaxTakes = 1
SPECIFICATION FairSpec
INVARIANTS
  VerdictTells
PROPERTIES
  CheckEnds
\* The check ends.
CHECK_DEADLOCK FALSE
