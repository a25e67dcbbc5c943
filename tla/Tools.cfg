\* ifmon: one interface that comes, changes and goes, and two runs of ifctl with
\* any command; the tools have their constants in the module
CONSTANTS
  Ifis = {1}
  Ignored = {}
  NLINKS = 1
  NCONNS = 2
  Clients = {c1, c2}
  Commands = {"mode", "identify", "stop", "auto_dhcp", "stop_dhcp", "reconnect", "kill"}
  LinkStates = {"down", "up", "run", "gone"}
  Modes = {"lan"}
  Outcomes = {"ok", "ENOENT", "EAGAIN"}
  Statuses = {0, 1}
  NPIDS = 2
  QLEN = 2
  RUNS = 2
  EVENTS = 2
SPECIFICATION SpecAll
INVARIANTS LinksSound ModeNotLost
INVARIANTS FilesSound ScriptsSound SystemSound ShownSound
SYMMETRY ClientSymmetry
CHECK_DEADLOCK FALSE
