\* one service run once or with its own output, signals and alarms, forced
\* shutdown, orphans, failing spawns and mmaps, and commands that come after
\* the shutdown script has started, over a connection still open
CONSTANTS
  a = a
  b = b
  p1 = p1
  p2 = p2
  p3 = p3
  Names = {a}
  NPROCS = 1
  NCONNS = 1
  RETRIES = 0
  Pids = {p1, p2, p3}
  Statuses = {0, 1}
  Kinds = {{"ONCE"}, {"PASS"}}
  Modes = {"poweroff"}
  Signals = {"PWR"}
  Absent = {"shell", "shutdown", "failure"}
  Env = {"late", "orphan", "noexec", "nomem", "output"}
SPECIFICATION Spec
INVARIANTS TypeOK NaliveExact
PROPERTIES StoppedStaysDown ShutdownOrder
SYMMETRY AllSymmetric
CONSTRAINT Running
