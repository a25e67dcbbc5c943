\* two clients start and stop one service
CONSTANTS
  Names = {a}
  NPROCS = 1
  NCONNS = 2
  RETRIES = 0
  Pids = {p1, p2}
  Statuses = {0, 1}
  Kinds = {{}, {"ONCE"}}
  Modes = {}
  Signals = {}
  Absent = {"shell"}
  Env = {}
  Commands = {"spawn", "stop"}
  QLEN = 2
SPECIFICATION LiveSpecCtl
PROPERTY CommandsEnd
