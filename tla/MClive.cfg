SPECIFICATION FairLinkedSpec
CONSTANTS
  Conns = {c1, c2}
  Handles = {h1, h2}
  Typed = {Blank}
  Blank = Blank
  None = None
  MaxClients = 2
  Sendable = {"chat", "pm", "list"}
  MaxLines = 1
  Commands = {"stop"}
  MaxCommands = 0
  Stallers = {c1}
  Observed = {}
PROPERTIES ShutdownCompletes RequestsReturn OwnersRemoved
