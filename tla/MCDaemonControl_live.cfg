\* Nothing goes wrong: everybody gets through.
SPECIFICATION FairSpec
CONSTANTS
  Clients = {c1, c2}
  Requests = {"stop"}
  KeepAlive = TRUE
  Faults = {}
  MaxEpoch = 2
PROPERTY ClientsReturn
PROPERTY StopHonoured
PROPERTY KeptAlive
