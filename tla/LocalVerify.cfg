\* One change between commands: a pin moves after an install, or a copy
\* appears outside .tools/bin.
CONSTANTS
  PresentSets <- MCPresentSets
  MaxChanges = 1
SPECIFICATION MachineSpec
INVARIANTS
  GreenStandsForCI
  CISkipsNothing
  AdviceWorks
