\* Two troubles: a run that is cut short and one disturbed after it. Pages
\* that just hold what is there at first, and no longer after an addition.
CONSTANTS
  PageSize <- MCPageSize
  MaxTrouble = 2
SPECIFICATION Spec
INVARIANTS
  SaysWhatItDid
  SafeToRunAgain
PROPERTY NeverWider
