SPECIFICATION LabSpec
CONSTANTS
  c1 = c1
  c2 = c2
  Clients = {c1, c2}
  Requests <- MCRequests
  MaxRequests <- MCMax
  Limit = 1
  Valid = {"new.txt", "no/a.txt"}
  Dirs = {"root"}
  Homeless = {"no/a.txt"}
  Present = {"x.exe"}
  Proxied = {c1, c2}
  Reachable = {c1}
  Methods = {"GET", "OTHER"}
  MaxProxied = 2
INVARIANTS
  KeepsStep
  EndsOnlyOnArrival
PROPERTIES
  Served
  Accepted
CHECK_DEADLOCK FALSE
