\* Three threads, up to four names, and updates that may raise anything: when
\* all threads have raised, the main thread waits for ever, so the system may
\* stop.
SPECIFICATION FairSpec
CONSTANTS
  Workers = {w1, w2, w3}
  MaxNames = 4
  BlankLines = FALSE
  OtherErrors = TRUE
CHECK_DEADLOCK FALSE
INVARIANT AllHandled
INVARIANT ServiceInv
PROPERTY ServiceEnds
