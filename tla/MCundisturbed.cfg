SPECIFICATION Spec
CONSTANTS
  Conns = {c1, c2, c3}
  Handles = {h1, h2}
  Typed = {Blank}
  Blank = Blank
  None = None
  MaxClients = 2
  Sendable = {"chat", "list"}
  MaxLines = 1
  Commands = {"eof"}
  MaxCommands = 0
  Stallers = {}
  Observed = {"chat"}
INVARIANTS UndisturbedHandles UndisturbedConnected UndisturbedSender
SYMMETRY Symmetry
CONSTRAINT Undisturbed
