\* Every request and every fault.  A client that dies with the status in its
\* hands, or an interrupt between the two halves of the status setter, leaves
\* the daemon waiting for ever: the system may stop.
SPECIFICATION Spec
CONSTANTS
  Clients = {c1, c2}
  Requests = {"stop", "restart", "reload", "unknown"}
  KeepAlive = TRUE
  Faults = {"client_dies", "interrupt"}
  MaxEpoch = 2
CHECK_DEADLOCK FALSE
INVARIANT ChannelInv
INVARIANT FreshStatus
PROPERTY BoardSpec
