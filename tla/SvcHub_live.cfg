\* one service that may hang, one client, under fairness
CONSTANTS
  a = a
  b = b
  p1 = p1
  p2 = p2
  p3 = p3
  Names = {a}
  NPROCS = 1
  NCONNS = 1
  RETRIES = 1
  Pids = {p1, p2, p3}
  Statuses = {0, 1}
  Kinds = {{}}
  Modes = {"reboot"}
  Signals = {}
  Absent = {"shell"}
  Env = {}
SPECIFICATION LiveSpec
PROPERTIES StopGetsDone StopNotified
