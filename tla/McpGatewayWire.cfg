\* One call is enough.
CONSTANTS
  Calls = {a}
  Ids = {t}
SPECIFICATION Spec
INVARIANT WireFailuresAreGatewayErrors
CHECK_DEADLOCK FALSE
