SPECIFICATION Spec
CONSTANTS
  Conns = {c1, c2, c3}
  Handles = {h1, h2}
  Typed = {Blank}
  Blank = Blank
  None = None
  MaxClients = 3
  Sendable = {"pm"}
  MaxLines = 1
  Commands = {}
  MaxCommands = 1
  Stallers = {}
  Observed = {"pm"}
INVARIANT PmReachesNamed
CONSTRAINT Undisturbed
CHECK_DEADLOCK FALSE
SYMMETRY Symmetry
