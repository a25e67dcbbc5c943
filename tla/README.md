# A verification of minibase

minibase is a small Linux userspace without libc: an init and service
supervisor, supervisors for applications and terminals, network daemons (links,
DHCP, time, Wi-Fi), boot tools, a script language, package tools and a set of
utilities, on a library of its own. This directory holds TLA+ models of it, the
TLC runs that check them, and proofs checked by TLAPS. Paths below are relative
to the repository: `src/src/...` are the programs, `src/lib/...` the library.

Contents: [parts](#the-system-and-its-modules), [the models](#how-the-models-correspond-to-the-code),
[runs](#runs), [bounds](#bounds), [fairness](#fairness), [proofs](#proofs),
[findings](#findings), [divergences without a run](#divergences-without-a-run),
[not modelled](#what-is-not-modelled).

To check: `tlc -config X.cfg M` for a run, `tlapm M_proofs.tla` for the proofs.


## The system and its modules

Nearly every long-running program has one shape: a single thread around
`ppoll` or `epoll_wait`, a table of children or devices, a signalfd or signal
handler, and a control socket (`lib/nlusctl`) through which a command line tool
sends requests and sometimes waits for a notification. So the models have one
shape too: variables for the daemon's structs, variables for what the kernel
keeps (children and their wait statuses, pending signals, pipes, sockets), and
variables for the clients; one action per handler the loop calls; and steps of
the environment that may fall between any two of them.

| part | sources | modules |
|---|---|---|
| svchub, the supervisor that is pid 1 | `src/svchub/svchub*.c` | `SvcHub`, `SvcHub_proofs` |
| its output rings | `svchub_proc.c`, `svchub_ctrl.c` | `RingBuf`, `RingListen_proofs` |
| svcctl against svchub | `src/svchub/svcctl.c` | `SvcCtl`, `SvcCtl_proofs` |
| lists sent in several packets | `svcctl.c`, `appctl.c`, `ptyctl.c` and their hubs | `Listing` |
| control sockets of all services | `lib/nlusctl/addr_*.c` | `UcListen`, `RingListen_proofs` |
| apphub, appctl | `src/apphub` | `AppHub`, `AppLife` |
| ptyhub, nestvt, ptyctl | `src/ptyhub` | `PtyHub`, `PtyHub_proofs`, `AppLife` |
| ifmon, ifctl | `src/ifmon` | `IfMon`, `IfMon_proofs`, `WifiKeys` (its file) |
| dhconf | `src/dhconf` | `DhConf`, `DhConf_proofs` |
| timed, tictl | `src/timed` | `Timed`, `Timed_proofs`, `TimeCtl` |
| wsupp, wifi | `src/wsupp` | `Wsupp`, `WifiAps`, `WifiKeys`, `WifiKeys_proofs` |
| keymon | `src/keymon` | `KeyMon` |
| vtmux, xorgvt | `src/vtmux` | `Console` |
| depmod, modprobe, udevmod | `src/kmod`, `src/udev` | `Kmod` |
| rdinit, passblk | `src/init`, `src/dcrypt` | `InitRd` |
| sysklogd, logcat | `src/syslog` | `SysLog` |
| msh; the shell and list | `src/msh`; `src/shell`, `src/utils/list.c` | `Msh`; `Shell` |
| mpkg, mpac, cpio, ctool | `src/mpkg`, `src/mpac`, `src/cpio`, `src/ctool` | `Mpkg`, `Mpac`, `Cpio`, `Ctool` |
| copy, move, bincopy; delete, find | `src/utils` | `Files`; `Trees` |
| pslist, pstree, pskill | `src/utils` | `Procs` |
| findblk, kmount, reboot, mntstat | `src/rootfs`, `src/utils` | `Disks` |
| calendar, date | `src/utils`, `lib/time` | `Dates` |
| control and netlink messages | `lib/nlusctl`, `lib/netlink` | `Messages` |
| strings, numbers, sizes; sorting, output, heap | `lib/string`, `lib/format`; `lib/util`, `lib/heap.c`, `lib/output.c` | `LibText`; `LibUtil` |

How they interact: svchub starts the other daemons and knows nothing of them
but their pids and output; each daemon opens its control socket with
`uc_listen`; every client talks to one daemon, with messages packed by
`lib/nlusctl`. ifmon runs dhconf as one of its scripts, and sees only its exit
status. wsupp and ifmon share the link but not a channel. The composition that
matters most, a daemon with the tool that waits for its notifications, is
modelled as one system: `SvcCtl` (which extends `SvcHub`), `IfMon`, `AppHub`,
`PtyHub`, `TimeCtl` and `Wsupp` all contain their clients.

`PROJECT.json` has the lines of the source every definition stands for, the
runs, the mutations each property is known to catch, and the hazards.


## How the models correspond to the code

Definitions keep the names of the C functions (`check_children`, `proc_died`,
`find_by_pid`); a variable or record field keeps the name of the C variable or
struct member. An action stands for a whole handler, with what it calls. Where
the environment can change something in the middle of a handler that would
matter, the handler is split at that system call: the `waitpid` loop of
svchub's `check_children`, the sources of one `ppoll` wakeup in ifmon and
tictl's server, the five system calls of `uc_listen`, the passes over `/proc`
or a directory. Definitions whose comment starts with "mutant of" are changed
forms of the definition after them and are not part of any specification.

**SvcHub.** `procs`, `nprocs`, `nalive` are `procs[]` and its counters, `conns`
the control connections, `state`, `rbmode`, `scrpid`, `sigcnt` the globals of
`svchub_boot.c`. `kid` is the kernel's process table as seen by pid 1: what
runs, what is a zombie, which status it left. As in the code, `pid` of an entry
holds a wait status once `P_STATUS` is set, and statuses may equal pids. `pipe`
and `leaked` keep what epoll may still report of a descriptor; `waiting`,
`forced` and `lost` are history. A service may die, write or hang at any time;
`Env` names the rarer events: orphans given to pid 1, an `exec`, `pipe2` or `mmap`
that fails, commands that arrive while the shutdown script runs. One of them,
`nofork`, is in no configuration: a failing `fork` leaves the table wrong (see
*ForkWorks* below), and with it in `hub_any` TLC violates NaliveExact.

**SvcCtl** replaces the free clients of SvcHub by runs of svcctl with the packets
in flight (`req`, `inbox`): connect and send, `recv_reply`,
`wait_notification`, the second request of restart and remove, interruption at
any time. svchub's handlers are SvcHub's, conjoined with what they put into a
socket.

**RingBuf.** A byte is its position in the service's output, so that a mixed up
ring shows. `ptr` has the two ranges of `pc->ptr`.

**UcListen.** `pc[i]` is the system call instance i of a service is at, `dirent`
what is at the path: nothing, a socket nobody has, or instance i's.

**AppHub, PtyHub** model the tables `procs`, the pipes (or terminals) with the
index under which epoll has them, the ready list of epoll in order (AppHub),
signals and the connections. `AppLife` is the abstract specification of both:
what a number given to an application promises. The refinement mapping takes
from the table which numbers are in use, running or dead. In PtyHub the order of
epoll is left open, `ttys` says for which slot a terminal is polled, and `users`
has the terminals each client holds. Starts fail where `Faults` (apphub: `access`,
`brk`, `pipe2`, `fork`, `mmap`) or `FAILS` (ptyhub) says so, and what a failed start
has taken by then (`lastxid`, `nprocs`) stays taken as in the code; `MAXRUN` is apphub's
MAX_RUNNING_PROCS; an application leaves an orphan behind where `FORKS` is set;
`Timers` are the timers that may be set, so that an instance without a stop has none
for it. `check_children` of both returns at the first pid it does not know.
Clients are assumed to read what they are sent, so that a reply fails only if its
client is gone.

**IfMon.** `links` with the flags that say what is due (`NEED_MODE`,
`NEED_STOP`, `NEED_DHCP`, `NEED_POKE`) and what runs (`RUNNING`), `conns`, the
snapshot `ready` of one `ppoll` worked off in the order of the code, `at` the
link `check_links` has come to, `kid` the scripts, `ev` the netlink events not
read yet, and ifctl as `cl` and `inbox`.

**DhConf, Timed, Wsupp** keep the state machine of the daemon in one record
(`dh`, `tm`, `ws`), and around it the network or card: packets lost, delayed and
repeated, servers that answer, refuse or are silent, and time as time left, so
that behaviours need no end. dhconf's `Files` are the scripts in /etc/net and `Options`
what a lease may carry; `script_file` says which file the code runs for an option. `TimeCtl` is timed's control side with several
tictl, `WifiAps` the table of access points built from scans. `WifiKeys` has the
files of saved keys and modes (of `wifi` and `ifctl`, which are written in the same
way) and the key handshakes of `wsupp_eapol.c`.

**The tools that run once** (copy, delete, mpkg, cpio, msh...) are modelled as
their steps over a file system or a process table small enough to enumerate:
every tree, package, list or line of the given alphabet is an initial state, and
where others may act meanwhile (entries that appear, processes that exit, fork
or exec, logs that are rotated, devices plugged in) they do, between any two
steps. Buffers into which an attribute or an alias is read (`buf[100]` of
`pick_modalias` in udevmod and rdinit) are as long as the texts of the model allow.
`Msh`, `Shell`, `Cpio`, `Messages`, `LibText` keep text as sequences of a
few characters, because what they do is to text; elsewhere names are atoms.

**Pure algorithms** are written as the code computes them and compared with a
definition of what they should give: `qsort` (LibUtil) with "a permutation in
order", the weekdays and zones of `Dates` with counting days, `fmtsize` and the
other formatters with exact arithmetic, message packing with the value packed,
`strcmp`, `natcmp`, `strstr`, `memmove` with their definitions, depmod's
closure with reachability, the tree of pstree with the parent relation.

Widths: the 16-bit lengths of control messages wrap at `LIMIT` (Messages); RingBuf's `ptr` is shown never to reach the 2^16 of its type; bincopy's
offsets are modulo `WRAP`; the sizes of mpac are bytes to a small base; the
replay counters of WifiKeys and the numbers of AppHub are bounded by constants
named in the module. Other integers are table indices.


## Runs

A run is a question; the components that are small are asked theirs together,
each as an instance of its own in one harness (`MCDaemons`, `MCTools`,
`MCDaemonsLive`). A behaviour of a harness is one of the instance it chooses in
its initial state (`part`), so the state space is the sum and not the product.
A property of a harness is the conjunction of the properties of the components
it names, which are defined and explained in their modules.

| run | checks | result |
|---|---|---|
| `hub_table` | ChildrenTracked, StopWait, NamesUnique, KeysValid: two services share the table while one is started, dies, is respawned, stopped, removed, started again; statuses may equal pids | holds |
| `hub_any` | TypeOK, NaliveExact, StoppedStaysDown, ShutdownOrder: signals, alarms, forced shutdown, orphans, failing exec and mmap, late commands | holds |
| `hub_live` | StopGetsDone, StopNotified: a stop ends in the shutdown script even if a service hangs; who waits for the death of a service is told | holds |
| `hub_hung` | StopAlwaysGetsDone | **violated**, see findings |
| `hub_output` | OutputCaptured | **violated**, see findings |
| `ctl_safe` | NeverConfused, WaiterCovered: two svcctl on one service | holds |
| `ctl_live` | CommandsEnd | holds |
| `ifmon_new` | NewLinkSeen | **violated**, see findings |
| `apps_exit` | HubStays | **violated**, see findings |
| `daemons` | RingBuf's TypeOK, RingIsTail, PtrTellsOutput; AppTable, XidsKept (apphub, ptyhub against AppLife), PtyTerminals, DhcpSound, TimeGoesOn, TimeSyncSound, ConsoleSound (keymon, vtmux, xorgvt), WifiSound (wsupp and its scans), KeysSound (saved keys and modes, key handshakes), ModulesFound, LibrarySound | holds |
| `daemons_live` | LockHolds, Reachable, StaleRemoved (uc_listen); ClientsAnswered, StopEnds (apphub, ptyhub), AttemptsEnd (dhconf, timed), IfctlAnswered | holds |
| `tools` | LinksSound, ModeNotLost (ifmon); FilesSound, ScriptsSound, SystemSound, ShownSound | holds |

Every property of a passing run is known to fail for at least one plausible
mistake in the code (`mutants` of PROJECT.json): a guard dropped in
`find_by_pid`, a notification sent to nobody, an off-by-one in the ring, a
reset forgotten, two steps swapped. Some properties say less than one might
wish, because the code does less; these exceptions are part of the statements:

* WaiterCovered, StopWait, KeysValid, the second half of ChildrenTracked and
  ShutdownOrder exempt a *forced* shutdown: `force_shutdown` forgets the
  entries of services that do not die, on purpose.
* RunningTracked of ifmon exempts entries whose pid `cmd_drop` cleared while
  their script runs. IfctlAnswered asks that every client that waits for a mode is
  answered, unless another client stops or drops the interface, and that every
  client that waits for a stop is, but for two ways in which the code leaves it
  waiting for ever (`StopHangs`): the mode script the stop interrupts fails, or
  another client's `drop` clears the pid of the script that was to end.
* LockHolds is about instances started one after the other. When starts overlap
  two may listen, one of them at a socket that was unlinked, against
  doc/control.txt:31 (addr_bind.c says "It is racy"); Reachable is what is left
  then.
* ModesFound (ifctl's file) ends when the last of several entries is deleted, or
  one is added behind the incomplete one a deletion has left (`torn`): there
  `delete_entry`, which mixes up bytes and entries, loses modes. KeysFound (wifi's
  file) has no exception, but the file grows with each change until wifi refuses
  to read it.
* TableRight (wsupp's scans) does not say that every station heard is in the table
  once a scan was aborted or the table was full; WifiTold leaves out connections
  lost because the radio was switched off. SIGCHLD falls between steps of wsupp.
* ClientsAnswered of ptyhub is about applications that leave no process behind.
  ptyhub is the parent of those that are left, and `check_children` returns at one
  (ptyhub_proc.c:295), so that a client whose application ended is then told at the
  next SIGCHLD, if there is one. StopEnds has one application.
* LeavesNone (xorgvt) is that both processes have been told to end, not that
  both have.
* LoadsWhole (modprobe) is about indices whose lines are in an order that can be
  loaded; `Aliased` devices are those whose modalias fits the buffer.
* MsgKept (control messages) is about messages shorter than the 16-bit length.
* Kept (copy) leaves out `copy -h` without `-m` of a file that is in the current
  directory already, which is lost; Copied leaves out `-h -m` of a symlink there.
  The dry run is held to the errors it does look for.
* EnvRight (msh) leaves out variables that `env_next` cannot step to, WaitsRight
  files that are moved into place.
* OnlyNamed (pskill) leaves out commands that match without being named: one that
  is the beginning of the argument, and one too long for the buffer. Neither it nor
  NamedOnly (the shell's kill) promises that a pid still belongs to the process
  that was looked at when the signal is sent; the code cannot know.
* DateRight says that date shows what it has decoded, with the month as the code
  counts it; CalendarRight leaves out the arguments calendar refuses (below).
* ListedOnce has several messages; of svcctl only the first is shown.


## Bounds

All bounds are constants, set in the `.cfg` for the component a run's module
extends and in the `INSTANCE` lines of the harness for the others. The choice is
the smallest at which the case a property is about occurs; the mutants are the
evidence for each.

* svchub: two services and three pids are enough for a slot to be freed and
  taken by another service while the first's pid is reused (`hub_table`), one
  service and three pids for every event of `Env` (`hub_any`). `RETRIES` is 0
  or 1 in place of 3: the alarm that only reports, and the one that kills.
  `hub_table` and `ctl_safe` stop at the start of the shutdown script, `hub_any`
  goes on behind it. svcctl: two clients on one service is where they meet.
* RingBuf: a ring of 3 (a page in the code) and 10 bytes: three times around.
* ifmon: in `tools` one interface which comes, changes and goes, two ifctl with
  any of seven commands, two pids; in `ifmon_new` two interfaces and a table of
  one. Serialized is about two interfaces only through the process table;
  the proofs cover any number.
* uc_listen: three instances, so that one may unlink what a second has bound
  while a third starts.
* apphub: two applications at a time out of two numbers, so that both may have ended
  before SIGCHLD is looked at and the numbers wrap around to one in use, once with
  every failure of a start and once with a stop; and one application that forks, with a
  stop. A start is refused when more than `MAXRUN` applications run, the limit of the code
  brought down to 0 or 1. ptyhub has an instance for each of its hazards: two clients
  with a connection each, two for one connection and a stop, an application that forks,
  and two starts out of two numbers of which any may fail.
* dhconf: a lease with two of the three options and two script files, so that one is
  missing, or one option and none. dhconf, timed, wsupp: one and two servers or access points; two attempts where
  the code has three to five, so that first, next and last differ; one packet in
  flight per direction; each fault (silent driver, refusing card, wrong key,
  radio off) in an instance that leaves others out.
* tables and buffers that may be full (NCONNS, NLINKS, NDEVS, NMDEVS, NSCANS,
  PSK_ENTRIES, BUFLEN, PAGE, BUF, CROOM...) have a size small enough to be
  filled. `SEEN` is not: with fewer slots than modules depmod loses
  dependencies, see below.
* trees have two or three levels and two or three names, packages up to five
  entries, texts up to three or four characters of an alphabet that has every
  kind of character the scanner tells apart, arrays to sort up to seven
  elements with three keys. The shell's `Cmds` and `Patts` are command lines and names
  of up to two characters, the empty ones included; pskill's arguments are pids, names,
  and commands of which one begins with another.
* environment events are counted (EVENTS, CHANGES, PLUGS, STEPS, FAULTS...)
  where a behaviour would otherwise not repeat a state.

Symmetry is used for names and pids of svchub and for runs of ifctl, in runs
without liveness; in `hub_table` p1 is left out of it, since it is also a wait
status. Deadlock is checked in the svchub and svcctl runs, where
`AllStopped` stands for the machine being off; the harnesses contain tools that
end, so there it is not.


## Fairness

Only runs with liveness properties state it, and only for what the code's
scheduling gives.

* svchub (`Fairness` of SvcHub): the loop runs; `epoll_wait` takes ready
  descriptors in turn and the signalfd gives the lowest pending signal, so a
  pending SIGALRM or SIGCHLD is handled although other handlers run in between
  (strong fairness: the loop is not in epoll while it reaps). The alarm fires.
  Of the children only one that got SIGKILL must die: services may hang.
* svcctl (`FairCtl`): svchub reads requests and reaps, svcctl reads its socket, and
  a service dies of the SIGTERM that `stop_proc` sent. The last is an assumption
  about services; without it `svcctl stop` waits, as it is meant to.
* uc_listen: an instance that is starting goes on with its system calls; nobody
  has to start or die.
* apphub, ptyhub: the daemon handles what is ready, its timer expires, a client
  reads its answer. Applications need not do anything.
* dhconf: the process runs, scripts end, time passes. Servers need not answer.
* timed: timeouts pass, the timer expires; and tictl is not run for ever in the
  middle of a selection (`Quiet`), which would start it anew each time.
* ifmon: the loop runs, ifctl reads, and scripts end, except for the DHCP
  client, which ends once it is told to.

In `MCDaemonsLive` fairness is written as `[]<>~Waits(k) \/ []<><<Moves(k)>>`,
weak fairness with its enabling condition spelled out, so that one formula
serves for whichever component the behaviour has chosen.


## Proofs

TLC's answers are for the bounds above. The following hold for every value of
the constants that satisfies the module's `ASSUME`, or its `Setting` where the
theorem has that as a hypothesis; TLAPS checks every step.

| theorem | says | module |
|---|---|---|
| TypeCorrect, RingCorrect, RingReported | a ring of any size returns the last RINGSIZE bytes in order, and `ptr` tells if there are any | RingListen_proofs |
| TypeCorrect, NaliveCorrect, ChildrenCorrect | svchub's tables keep their types, `nalive` is exact, table and kernel agree on the children | SvcHub_proofs |
| OrderCorrect | the shutdown script does not start before the last service has ended, unless forced | SvcHub_proofs |
| NamesCorrect, KeysCorrect | no two entries of one name; every epoll key leads to the entry it was made for | SvcCtl_proofs |
| WaitCorrect, DownCorrect | no lost wakeup of a client that waits; what was stopped is not respawned | SvcCtl_proofs |
| CtlImplementsHub | `SpecCtl => Spec`: svchub with its svcctl is an svchub | SvcCtl_proofs |
| NeverConfusedCorrect, WaiterCorrect | svcctl gets the packets it expects, in order; who waits will be told | SvcCtl_proofs |
| DirentIsLock, RaceKeepsSocket | the dirent is a lock if starts do not overlap; if they do, the path still leads to a listener | RingListen_proofs |
| LinksCorrect, ModeCorrect | ifmon runs one script per interface and knows its pid, polls every client, and does not sleep on an accepted mode | IfMon_proofs |
| DhcpCorrect | the address dhconf has set is that of the lease held and never outlives it, a clean stop leaves none, dhconf does not sleep without a timer, every option of the lease is given to the script the code has for it | DhConf_proofs |
| TimedCorrect | timed pings or polls no server it has given up, sleeps only with a timeout, is idle only when no measured server is left | Timed_proofs |
| SyncCorrect | no adjustment, nor any part of a slew, leaves the clock further off than it was or than half a round trip | Timed_proofs |
| TerminalsCorrect | ptyhub: the terminal of a running application is read by one client or by ptyhub, no entry names a closed connection, no two clients hold one terminal | PtyHub_proofs |
| XidsCorrect | ptyhub implements AppLife: a number stands for one application until it is forgotten | PtyHub_proofs |
| WifiKeysCorrect | saved keys, and modes with the exception `torn`, are those found; of the keys negotiated none is given to the card twice or out of order | WifiKeys_proofs |

### Assumptions

*Constants.* `SvcAssumption`: tables have at least one slot; pids are finitely
many and none is 0 or -1; "" is no service name; 0 is a wait status and there is
another, -1 is none; a service is started with no flag, `P_ONCE` or `P_PASS`.
Statuses and pids may overlap, as they do as integers. `CtlAssumption`: the
commands are svcctl's, a socket holds two packets. `RingAssumption`: a ring has
a byte. `ListenAssumption`: "none" and "stale" are not instances.
`IfAssumption`: numbers are naturals, there is a pid more than there are
interfaces (so that `fork` finds one), the commands are ifctl's, "nobody" is no
client. There is nothing on how many services, clients, interfaces, pids or
instances there are.

The modules that runs only use through INSTANCE have no `ASSUME` but an operator
`Setting`, which is a hypothesis of their theorems and a conjunct of the harness's
properties, so that TLC evaluates it for every instance. DhConf: times and counts are
numbers, a retry takes at least a second, a lease two, options are among the three with
a script, and no server is called "none" or "client". Timed: bounds are numbers, commands are tictl's.
PtyHub: bounds are numbers, there is a number for an application, and 0 is not the
descriptor of a connection (epoll, signalfd and socket are opened first). WifiKeys: no
device or network has a name that stands for zeros or for junk.

A theorem about one of these modules is about the module's own property, e.g.
`DhConf!DhcpSound`. The run `daemons` checks a definition of the same name in
`MCDaemons`, which asks it of each small instance (`part = "dhcp" => Dhcp!DhcpSound`).
Two of the harness's definitions ask for more than the theorem: TimeGoesOn also speaks
of tictl (`TimeCtl`), and XidsKept of apphub.

*ForkWorks*, i.e. `"nofork" \notin Env`, is a hypothesis of the theorems about
svchub's table (not of CtlImplementsHub and NeverConfusedCorrect). Without it
they are false: when `fork` fails in a respawn, `spawn_path` (svchub_proc.c:132)
reports success and the entry keeps the pid of the process that died, without
`P_STATUS`, so that it looks alive. Services that cannot be executed, failing
`pipe2` and `mmap` and forced shutdowns are all included.

### RingBuf

RingIsTail is not inductive: it speaks of what a reader gets now, not of the
cells the next write overwrites. `IInv` says which byte each cell holds (`Cells`)
and how far `ptr` is from what was read since the last flush, in its two ranges.
The proof of `check_proc` goes through the two parts of `readv` around the end of
the buffer; arithmetic modulo RINGSIZE is in `ModCases` and `AdvanceCases`.

### SvcHub

Counting and tracking depend on each other: `nalive` is decremented for whatever
entry `find_by_pid` finds, so it is exact only if an entry taken to be alive
names a real, unreaped child, no two the same, and that in turn needs that dead
entries carry `P_STATUS`. `IInv` joins the types, the shape of the table (unused
slots are empty, nothing is beyond `nprocs`), `Kids` (a reaped child leaves
nothing; the script is not a service), `Exact` and `Tracked`. Several handlers
reap and fork in one step (a death followed by a respawn, the last death by the
shutdown script), so the invariant is written as a relation
`Agree(P, K, S, n, f, m)` of table, children, script and counters, with a lemma
for every elementary change (`Reaped`, `Spawned`, `ScriptForked`, `Disowned`...)
that the lemmas of the handlers compose. Cardinalities are dealt with once, in
`LiveCount`. OrderCorrect follows: `check_children` starts the shutdown script
when `nalive` is 0, and by `NoneLeft` no service is left then.

### The table of SvcHub

Most handlers change one entry, by one of a few patterns. `TableStep` names them:
every entry is kept in what matters (`AllKept`), one is rewritten (`Rewrote`), or
all are forgotten (`Forgot`, force_shutdown). Each handler is shown to be such a
step; names, keys and StayDown are then shown for the patterns alone. StopWait is
not inductive by itself: `WaitsOpen` and `Awaited` add that a waiting connection
is open and that the process it waits for is that of an entry marked `P_KILLED`.

### SvcCtl

`StepRefines`: each step of the composition is a step of SvcHub, where clients
are free to send any command at any time, or leaves its variables alone; the
mapping is the identity on SvcHub's variables. So everything proved of svchub
holds with svcctl at its socket. `Talk` is the invariant of one connection, for
each place svcctl may be at: while it waits for its reply, either the request has not been read, the
socket is empty and svchub holds no pid for the connection, or the reply is there
with only notifications behind it; afterwards there are only notifications; and
after a successful STOP one is there, or svchub still waits for the process.

### UcListen

`LockInv`: as long as starts have not overlapped, at most one instance is starting,
whoever has bound owns the dirent, and nobody is past a refused connect while one
is up. `RInv`, for the race while nobody has died: a dirent made by an instance
belongs to one that listens or is about to; if it is stale nobody has bound yet;
and if there is none somebody is about to bind again, or nobody has bound yet.
So the last one to act leaves its own dirent behind.

### IfMon

`IInv == Typed /\ Kids /\ ModesDue /\ MarkedAhead /\ ReadyPolled /\ ConnsCounted`.
Serialized (one script at a time for an interface) is not inductive: what
prevents a second script is the entry's RUNNING flag and pid, so `Kids` says that
there is one entry per interface (`OneEntry`), that every script running or not
yet reaped is owned by the entry of its interface (`Owned`) and no two have one
owner (`OneKid`). ModeNotLost is about the moment ifmon sleeps; `ModesDue` says
that an entry with NEED_MODE has not failed and is MARKED, or runs its identify
script, whose exit marks it; and `MarkedAhead` that a marked entry will still be looked at by `check_links` in
this pass. The first half of `IfMon_proofs` has what each operation makes of one entry
(`Calm`: nothing a script depends on changes; `Kept`: nor what is due; `Tried`:
a script was started or could not be), of the process table and of the
connections; the second has one lemma for each action. That `fork` finds a
pid is a pigeonhole argument (`FreePid`).

### DhConf

The handlers are functions of a world, the process with the packets on their way and
the address. That an address does not outlive its lease is not inductive, because it
is an ACK that sets it, perhaps a second after the server sent it: `OnTheWay` and
`Waiting` say that an ACK in the network or in dhconf's socket stands for a lease
at least as long as the one dhconf will count on, and `Covered` that the kernel's time
left is at most the server's. `Scripts` says of each script not run with these options
that it is still to come in the chain of `run_next_script`, and `NoRelease` that
nothing gives a lease back while dhconf runs.

### Timed

`Fine(w, O)` holds of a world when a handler is done with it, where O is by how much
the clock is off. `Best` is why an adjustment is right: the interval (`lo`, `hi`) in
which the best server so far placed the error contains O, and this was measured
with the clock as it still is, since nothing touches the clock while servers are
pinged. `Better` then gives SyncCorrect for any part of the adjustment. TimedCorrect
needs `Marked` (what was measured or given up was pinged), `Usable` (the server
chosen is not given up) and `Timeout`: outside of idle a timer or an alarm is set.

### PtyHub

Every handler is a function of a world, and `Good` holds of one between handlers.
ReadByOne is not inductive: it speaks of running applications, but entries die, are
wiped without closing their terminal, and their slots are used again. So `Polls`
says of every entry with a terminal that ptyhub polls it for this very slot if the
entry is detached, and not at all if it has a connection; `Distinct` that no two
entries have one number or terminal; `Conns` that connections have distinct
descriptors and clients; `Held` that a client holds the terminal of an entry only
over the connection the entry names; `Named` that this connection is open, and
`Owned` that an entry has one or was detached. The last two are broken and restored
within a handler, when a start fails or its client turns out to be gone: `Core` is
what holds throughout, `Fresh` and `Given` describe the new entry before and after
`reply_start`. For XidsCorrect each handler is also shown to be a step `Ends` (numbers
are kept, end or are forgotten) or `Begins` (one new number besides), from which
a step of AppLife follows. `pick_unused_xid` needs care: its limit moves with the
number of entries, so `MaxXid` bounds what it can reach.

### WifiKeys

A loop over a file takes the first entry of a name; it is the one saved last only
if it is the only one. `PskGood` says that entries are alone (`Alone`), hold what is
remembered (`Holds`), and that nothing is remembered without one (`Absent`), through
the holes that `save_config` leaves; the invariant of ifctl's file is the same with
cells for entries. For the handshakes `KInv` adds to what the card was given: packets
in the air belong to keys that were agreed and are ordered, an older replay counter with
an older group key (`AirInv`); the nonce of wsupp is that of this association
(`EapInv`); and what wsupp may yet accept is newer than anything uploaded
(`NextInv`), which is what keeps a packet that was repeated or overtaken from
installing a key twice.

TLC was used on each of these invariants before the proof; IfMon's on an
instance with two interfaces (600,000 states).

### What is only model-checked, and why

* Liveness (StopGetsDone, StopNotified, CommandsEnd, StaleRemoved,
  ClientsAnswered, StopEnds, AttemptsEnd, IfctlAnswered): fairness and ENABLED
  are outside of what the prover handles.
* The tools and the library (FilesSound, ScriptsSound, SystemSound, ShownSound,
  ModulesFound, LibrarySound; the control side of timed in TimeGoesOn): recursive
  definitions over sequences and trees. Sixteen modules have RECURSIVE operators,
  and what those compute would need an induction over data.
* apphub (AppTable, and its part of XidsKept): its handlers fold over the ready list
  of epoll and the table. keymon (in ConsoleSound) goes through its actions recursively
  at every key. Both would need an induction over these loops. ptyhub has the same table, but
  no order of events on which its properties depend, and is written without folds.
* wsupp and its scans (WifiSound), vtmux and xorgvt (ConsoleSound): state machines that
  could be treated like dhconf, but for the folds over scan entries. Their inductive
  invariants have not been worked out.


## Findings

Each is a run that TLC ends with a counterexample, against a sentence of the
documentation.

* **hub_hung** (svchub_boot.c:118). doc/startup.txt: "When commanded to shut down,
  svchub kills all the services, waits for them to die, and spawns
  /base/etc/boot/shutdown". If the startup script or the shell is running when
  the stop begins and exits while a service hangs, `script_exit` sets the state
  to unknown; `handle_alarm` then ignores its alarm, and nobody forces the
  service.
* **hub_output** (svchub_proc.c:462). doc/startup.txt: "For abnormal cases, svchub
  captures their output into a short ring buffer". `proc_died` closes the pipe
  without reading it: the last words of a service are lost if SIGCHLD comes first.
* **ifmon_new** (ifmon_netlink.c:196). man/ifmon.8: "Whenever a new interface
  appears, say eth1, ifmon spawns /etc/net/identify eth1". `msg_del_link` has its
  test the wrong way round, so slots are never freed, and a new interface in a
  full table is not seen.
* **apps_exit** (apphub.c:284). man/apphub.8: "Applications may exit at will". If
  SIGCHLD is handled before the hangup of the pipe, the slot is gone and the index
  of the hangup is out of range, which ends apphub.


## Divergences without a run

Met while modelling; the models do what the code does. They are listed for
whoever reads the code next. Line numbers are given where it helps.

**svchub, svcctl, uc_listen.** A startup script that fails ends pid 1
(svchub_boot.c:103; doc/startup.txt:37 says "svchub will attempt to shut the system
down cleanly"). A service that never wrote anything cannot be removed: `remove_proc`
returns ENODATA (svchub_proc.c:300), and svcctl does not read that reply. A failed
fork is answered with 0 (svchub_proc.c:132), the pipe leaks, and in a respawn the
entry keeps the pid that was reaped, so that `nalive` counts a process that is not
there and a shutdown waits for it. `cn->pid` stays set after the notification
(svchub_ctrl.c:94). svcctl's `recv_large` trims the heap to the whole buffer
while `index_procs` steps by message length, so that of several replies only the
first is shown; ATTR_NEXT is then listed as a process. Two instances that start
at once may both listen (addr_bind.c:43-45; doc/control.txt:31: "The socket dirent is
used as a lock to prevent the second invocation"). doc/control.txt:34-39 says that a
service whose socket was left behind cannot restart and that "There is no handling for
such cases"; `uc_listen` does handle them ("removing stale one if present",
addr_bind.c:8), which is what StaleRemoved states.

**apphub, ptyhub.** `check_children` returns at the first unknown pid
(apphub_proc.c:238, ptyhub_proc.c:295), leaving other children for the next SIGCHLD;
a start that fails at `access` or `pipe2` keeps the number and the slot it took; `pick_unused_xid` does not increment while it searches;
output still in the pipe is lost at exit; a failed fork is answered with 0; a
command not in the table reads past it; more than one dead entry may be kept
(man/appctl.1 says at most one). ptyhub: an attached application that exits with
0 leaves its terminal open; attaching to a dead one is never notified; `detach` reads
the window size in place of resetting it (ptyhub_ctrl.c:397, against its README). `status` of more than a page of output fails with
EFAULT in appctl and ptyctl; `reply_status` from an offset reads past the table.

**ifmon, ifctl.** `ifctl stop` during a running mode script hangs if that script
fails (script_exit and can_run, ifmon_scripts.c:195 and 241); a client that waits for its mode hangs when another's stop cancels it;
`stop-dhcp` leaves NEED_DHCP set; `drop` during a script leaves RUNNING with pid
0; `dhcp-once` gives ENOSYS. In ifctl's file deletion mixes entries and bytes
(`delete_entry`, ifctl_config.c:343-350: deleting the last entry loses the others), blank entries are not reused, and `req_identify` uses an uninitialised mode if
the file does not load.

**dhconf.** An answer that arrives while a renewal is being given up ends it;
`timeref` is not updated (dhconf_packet.c:449); DISCOVER is sent three times, not
five (489); the NTP servers are given to dhcp-dns and
dhcp-ntp is never run (dhconf_scripts.c:117-120; man/dhconf.1:33 has it); leases of 0 or 1 seconds and a clock behind `timeref`
make unsigned differences wrap.

**timed, tictl.** `tictl server` with four servers always fails (the buffer holds
three), though the code allows four; a server that finds the table full is
dropped with reply 0; `tictl retry` with a request outstanding and a server that
then refuses ends the service; a refusal by the primary server stops it though
man/timed.8 says spares are tried; a fifth client is closed at once; round trip
times are printed with microseconds not reduced; ATTR_RTT is written as int and
read as 64 bits; SF_PING is never cleared and failures are not reset.

**wsupp, wifi.** If the second half of SETDEV fails the device stays set without
a socket, and can be neither set nor detached until restart. A detach during a
scan leaves a waiting `wifi scan` without a report; a second one gets EBUSY. An
aborted scan leaves entries marked stale; a scan of one frequency stores new
information without clearing what was derived from the old. The length test of
`parse_scan_result` is reversed (wsupp_nlscan.c:197). `reassess_situation` is
inverted (wsupp_apsel.c:215-226); `ap_resume` enters MONITORING without a timer; a
lost second or fourth handshake packet is not sent again; a connection that ends
by itself does not run the wifi-link script. `wifi` saves a key that did not work,
because `wait_for_connect` treats a disconnect as its end (wifi.c:357-360, 461;
man/wifi.1:25-27 says only a successful one is saved). `save_config` leaves a hole as
long as the file, which grows until it is refused with E2BIG (wifi_pskmgm.c:83, 144). A crash between ftruncate and write loses saved keys.

**keymon, vtmux, xorgvt.** keymon steps through its buffer by 8 bytes in place of
24; codes of switches are sign-extended; right Ctrl and Alt are not modifiers; a
keyboard plugged in during the scan is opened twice; man/keymon.8 "never spawns
two scripts at the same time" is true for one action only. vtmux: a device that
fails to open leaves a slot of zeroes, and flushing closes descriptor 0; a greeter's
terminal stays set; `switch_to_smth` skips the first slot. xorgvt: a failed fork
for the client leaves the server; `wait_sigchld` loops while both run (xorgvt.c:272)
and does not "waitpid() both of them" as its comment says (262-263).

**kernel modules, boot.** depmod writes dependencies in preorder and modprobe
loads them backwards, which is not topological for some graphs (the model says
for which); `modprobe -r` removes dependencies first (modprobe.c:238-258), while they
are still in use, against man/modprobe.1:11-12; the blacklist is used
with -q and -p only; with fewer `SEEN` slots than modules dependencies are lost.
udevmod: stale tag files, aliases dropped at EPIPE, aliases cut at 100 bytes by
`pick_modalias` (udevmod.c:178-197; rdinit_udev.c:167-186 too). rdinit reaps one child per
SIGCHLD, writes to a pipe that may be full, stops scanning a directory at its
modalias, ends pid 1 when `recv` fails (rdinit_udev.c:80), and `delete_rec` returns at
".", so that nothing is deleted (rdinit_root.c:94-95, against the comment at 17;
man/rdinit.8 names /etc/abort, the code /shell). passblk: after a wrong
passphrase the wait is never cleared; `parse_part_labels` never advances its key index (passblk.c:58-88), so that all
partitions are mapped with the first key where man/passblk.8:9-15 has "respectively"; earlier mappings stay if a later one fails.

**packages and files.** mpkg with prefix "/" removes nothing though the list is
unlinked; `update_policy` takes `deny` for `pass` (HLEN_DENY contains its bit),
`skip` is refused later, `mark_leaf` tests `!(bits | TAG_DIR)`; conflicts below a missing directory are looked up in its
parent (ctool too). mpac: sizes of links have their bytes the other way, sizes
are int. cpio: a list line that ends in spaces swallows the next one; the
manual's example with "> some/dir" cannot be extracted; a truncated archive is
not noticed. ctool: a failed `add` leaves its list, `rebin` deletes before it
reads, `use` takes a description of nothing but repo and prefix. copy: `copy -o a
a` unlinks the file and fails, and so do `copy -h` of a file in the current directory
and `-h -m` of a symlink there; `-n` is only looked at for directories and overwrites
plain files (copy_tree.c:402-428; man/copy.1:21-22); the dry run does not look into a
directory that is yet to be made, nor count errors where `check_top_dst` fails
(copy_tree.c:350-354, 517; man/copy.1 NOTES); moving
across file systems breaks hard links. bincopy: offsets past the end underflow,
write mode checks the wrong size, copymmap wants page alignment. find sorts
directory by directory, so that "a.b" and "a/..." are not in the order of whole
paths.

**texts, dates, processes.** msh: `env_next` tests with the size of the
entry before (msh_common.c:97-103), so that a short variable behind a long one is not
found (man/msh.1:105-109); `waitfor` watches for IN_CREATE only and ignores files moved
into place (man/msh.1:47-48). calendar: an ISO date is refused when its day is not
one of the month before (calendar.c:599), in January always, and a month 13 without a
day is accepted; `-y` with a year always fails (544); the year view has a column 13.
date: the month of a date given is not counted from 0 (date.c:129; tm2tv.c:4-5), so that
the date shown is a month late; hh:mm:ss is refused (date.c:148-151; man/date.1 has it); the second of a transition uses
the old offset; the source zone is shown. pskill signals one process per
argument, and takes a command that is a prefix of the argument, or too long for its
buffer, for the one named (pskill.c:179-182, 196). The shell's `ls` lists entries of
unknown type whatever was asked for (shell_list.c:15-16). pstree stops at nodes already marked.
logcat -f loses the first line after a start in the middle, and the middle one of
two rotations; a second sysklogd that is stopped removes the first one's socket;
a socket left by SIGKILL keeps it from starting.

**library.** `uc_add_str` does not look at an earlier overflow, and its length wraps at 64K:
a spawn request of that size is not refused and arrives as another (pack_strs.c:24); a nested netlink
attribute of huge length wraps; the netlink receive buffer is shifted as if the
socket were a stream. `natcmp` is not transitive ("10" > "2" > "1a" > "10").
`fmtpad` fills without looking at the end and some formatters return pointers
past it; the parsers wrap silently; `bufout` forgets the error of an earlier
write; an empty component of PATH means "/". Readers of mountinfo lose a line cut
by a read. The heap of lspci and lsusb grows by one step where more is needed.


## What is not modelled

* Cryptography, key derivation and decompression (`lib/crypto`, `lzma`, the
  EAPOL packets' contents, keytool, dektool, deitool, dmcrypt): computations over
  whole buffers. Where a protocol depends on them, "the key matches" is an input.
* Tools that make one or two system calls and print the result: netcfg, runcg,
  hwids, elfinfo, debug, sync, locfg, sysinfo, systime, lsmod, modinfo, acpid,
  shead, init, logger, dmesg, blkhwid.
* Screens and keys of one terminal: ctrlvt, stubvt, vtctl, unlock; and the escape
  sequences of nestvt.
* What is printed, except for lists, sizes, dates and times, which are.
* Commands of msh and the shell that are one system call on their arguments.
* Failures of system calls the code does not distinguish: memory that runs out,
  descriptors that run out outside of the tables, signals lost by the kernel.
* svchub, apphub and the network daemons running together: they share nothing
  but the file system, in which `UcListen` is what they meet at.
