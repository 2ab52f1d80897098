SPECIFICATION Spec
CONSTANTS
  Callers = {"c1", "c2"}
  TTL = 2
  MaxBuilds = 2
  Refreshes = FALSE
  Leavers = {"c1"}
INVARIANT GatewayOK
