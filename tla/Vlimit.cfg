SPECIFICATION Spec
CONSTANTS
  Conns = {c1, c2}
  Handles = {h1, h2}
  Typed = {Blank}
  Blank = Blank
  None = None
  MaxClients = 1
  Sendable = {}
  MaxLines = 0
  Commands = {}
  MaxCommands = 0
  Stallers = {}
  Observed = {}
INVARIANT WithinLimit
CHECK_DEADLOCK FALSE
