SPECIFICATION Spec
CONSTANTS
  Conns = {c1}
  Handles = {h1}
  Typed = {Blank}
  Blank = Blank
  None = None
  MaxClients = 2
  Sendable = {}
  MaxLines = 0
  Commands = {"stop"}
  MaxCommands = 0
  Stallers = {}
  Observed = {}
INVARIANT ClientsOutliveUse
CHECK_DEADLOCK FALSE
