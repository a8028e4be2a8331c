\* One body, whole and small, sent with a length or in chunks.
CONSTANTS
  MaxBody = 1
  MaxDrain = 2
  Sizes = {1}
  HeadersLimit = 1
  RequestLimit = 3
  Checking = 2
SPECIFICATION Spec
INVARIANT FramingMakesNoDifference
CHECK_DEADLOCK FALSE
