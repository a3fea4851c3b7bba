SPECIFICATION Spec
CONSTANTS
  Conns = {c1, c2}
  Handles = {h1, h2}
  Typed = {alice, Blank}
  Blank = Blank
  None = None
  MaxClients = 2
  Sendable = {}
  MaxLines = 0
  Commands = {"kick", "connect", "stop"}
  MaxCommands = 1
  Stallers = {}
  Observed = {}
INVARIANTS TypeOK UniqueActiveNames TableSound
PROPERTIES RemovedWhenInactive KickIsComplete RefinesRoster
SYMMETRY Symmetry
