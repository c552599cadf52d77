\* One refittd at a time, started again and again, with --all or with names: three
\* services whose definitions come, go and change.
SPECIFICATION Spec
CONSTANTS
  Daemons = {d1}
  Services = {stream, web, tns}
  Versions = {v1, v2}
  KeepAlive = TRUE
  Requests = {"restart", "reload", "stop"}
  Faults = {"popen_fails"}
  Pids = {n1, n2, n3, n4}
  None = None
SYMMETRY Symmetry
INVARIANT ProcessInv
INVARIANT DefinedInv
INVARIANT CleanExit
