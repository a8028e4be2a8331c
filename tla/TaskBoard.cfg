\* Two changes by this user, one move by another, one page.
CONSTANTS
  MaxChanges = 2
  MaxOthers = 1
SPECIFICATION FairSpec
INVARIANTS
  OneChangeAtATime
  ShowsOwnChange
  FailureStaysShown
PROPERTIES
  ListNeverGoesBack
  SettlesAgain
\* The user may stop, and every request has an end.
CHECK_DEADLOCK FALSE
