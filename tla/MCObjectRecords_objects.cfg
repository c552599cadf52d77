\* Any two of the programs at work on one thing.
SPECIFICATION Spec
CONSTANTS
  Procs = {p1, p2}
  Things = {sn}
  None = None
  Kinds = {"query", "catalog", "ingest", "tag", "forecast"}
  Listed = {"first", "later", "nowhere"}
  Faults = {"tns_fails", "stopped"}
  Unknown = unknown
  Classes = {ia, ii}
  MaxVersion = 2
  MaxDay = 1
  MaxTime = 2
SYMMETRY ProcSymmetry
INVARIANT RecordInv
INVARIANT IngestInv
INVARIANT RaisedForCause
PROPERTY NamesKept
PROPERTY CatalogFresh
