\* Two daemons are started on one machine with --keep-alive, and are killed.  No
\* reloads: a stream of them starves the keep-alive.
SPECIFICATION FairSpec
CONSTANTS
  Daemons = {d1, d2}
  Services = {stream}
  Versions = {v1}
  KeepAlive = TRUE
  Requests = {"restart", "stop"}
  Faults = {"popen_fails", "daemon_killed"}
  Pids = {n1, n2, n3}
  None = None
INVARIANT ExitStopsOwn
PROPERTY Relaunched
