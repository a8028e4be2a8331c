\* Two updates, two changes of the project's own, a tag that may be moved.
CONSTANTS
  Paths <- MCPaths
  Hunks <- MCHunks
  Features <- MCFeatures
  Commits <- MCCommits
  VersionOf <- MCVersionOf
  Templates <- MCTemplates
  Copies <- MCCopies
  Starts <- MCStarts
  MaxUpdates = 2
  MaxEdits = 1
SPECIFICATION Spec
INVARIANTS
  TypeOK
  RecordTellsFiles
  ChangelogAgrees
PROPERTIES
  OwnWorkSurvives
  RefusedChangesNothing
  NothingLeftBehind
\* The script and the project may stop.
CHECK_DEADLOCK FALSE
VIEW View
