SPECIFICATION FairJoinedSpec
CONSTANTS
  Conns = {c1, c2}
  Handles = {h1, h2}
  Typed = {Blank}
  Blank = Blank
  None = None
  MaxClients = 2
  Sendable = {}
  MaxLines = 0
  Commands = {}
  MaxCommands = 0
  Stallers = {}
  Observed = {}
PROPERTY DepartedRemoved
CHECK_DEADLOCK FALSE
