\* two interfaces and a table for one: the second appears when the first is gone
CONSTANTS
  Ifis = {1, 2}
  Ignored = {}
  NLINKS = 1
  NCONNS = 2
  Clients = {c1, c2}
  Commands = {"stop"}
  LinkStates = {"run", "gone"}
  Modes = {"lan"}
  Outcomes = {"ok", "ENOENT", "EAGAIN"}
  Statuses = {0, 1}
  NPIDS = 2
  QLEN = 2
  RUNS = 1
  EVENTS = 3
SPECIFICATION Spec
INVARIANT NewLinkSeen
CHECK_DEADLOCK FALSE
