\* Two pull requests side by side, two merges on top of the first release,
\* and one run that fails or one tag from elsewhere.
CONSTANTS
  PullRequests = {p1, p2}
  Outputs = {a, b}
  MaxVersion = 3
  MaxMerges = 2
  MaxMishaps = 1
SPECIFICATION Spec
INVARIANTS
  CopyGetsWhatItShows
  NotesMissNothing
PROPERTY NewestIsPublished
