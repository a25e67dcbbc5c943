\* two services, one client, up to the start of the shutdown script
CONSTANTS
  a = a
  b = b
  p1 = p1
  p2 = p2
  p3 = p3
  Names = {a, b}
  NPROCS = 2
  NCONNS = 1
  RETRIES = 0
  Pids = {p1, p2, p3}
  Statuses = {0, p1}
  Kinds = {{}}
  Modes = {}
  Signals = {}
  Absent = {"shell"}
  Env = {}
SPECIFICATION Spec
INVARIANTS ChildrenTracked StopWait NamesUnique KeysValid
SYMMETRY Symmetric
CONSTRAINT BeforeShutdown
