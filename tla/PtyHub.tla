-------------------------------- MODULE PtyHub --------------------------------
(***************************************************************************)
(* ptyhub, the supervisor of terminal applications, and its clients: nestvt*)
(* starts an application or attaches to one and holds its terminal as long *)
(* as the control connection is open; ptyctl asks once.                    *)
(*                                                                         *)
(* The table is that of apphub.  What ptyhub adds is the master side of    *)
(* the terminal: the terminal emulator has a copy, or ptyhub polls its own *)
(* and throws away what the application writes.  The order in which epoll  *)
(* reports events is left open here; AppHub has the ready list.  Clients   *)
(* read their answers, so that a reply fails only when its client is gone. *)
(***************************************************************************)
EXTENDS Integers, FiniteSets

CONSTANTS
  Names,    \* applications in /etc/ptyhub
  Clients,  \* users running nestvt and ptyctl
  PIDS,     \* bound on processes at a time
  NPROCS,   \* entries there is memory for
  NCONNS,   \* control connections
  Fds,      \* numbers the kernel may give a connection
  XIDS,     \* 100 in pick_unused_xid
  STARTS,   \* bound on applications started
  FAILS,    \* may a start fail
  FORKS,    \* may an application leave a process behind
  Timers,   \* timers that may run out, out of "MMAP" and "STOP"
  Stops     \* signals that stop ptyhub

\* what the model takes for granted of its constants: bounds are numbers, and
\* 0 is not the fd of a connection
Setting ==
  /\ PIDS \in Nat /\ NPROCS \in Nat /\ NCONNS \in Nat /\ XIDS \in Nat \ {0} /\ STARTS \in Nat
  /\ Fds \subseteq Nat \ {0}

VARIABLES
  top,      \* struct top
  procs,    \* its table; entries past nprocs are empty
  kids,     \* child processes
  ttys,     \* terminals open in ptyhub: slot polled for output and for errors
  sigs,     \* signals pending in the signalfd
  users     \* client -> what it is doing, and the terminals it holds

pty_vars == <<top, procs, kids, ttys, sigs, users>>

SIGHUP == 1
SIGINT == 2
SIGALRM == 14
SIGTERM == 15
SIGCHLD == 17

lowest(S) == CHOOSE i \in S : \A j \in S : i <= j

Slots == 1..NPROCS

\* mfd and efd are the number of the terminal, 0 and -1 as in the code; terminals
\* are numbered as they are opened, and tty keeps the number of the slot's own
NoProc == [xid |-> 0, pid |-> 0, tty |-> 0, mfd |-> 0, efd |-> 0, cfd |-> 0, name |-> "none", buf |-> FALSE]

\* a connection slot; those past nconns are closed too
NoConn == [fd |-> -1, who |-> "none"]

Idle == [st |-> "idle", msg |-> FALSE, holds |-> {}, told |-> {}]

World == [top |-> top, procs |-> procs, kids |-> kids, ttys |-> ttys, users |-> users]
Apply(w) ==
  \E v \in {w} :
    top' = v.top /\ procs' = v.procs /\ kids' = v.kids /\ ttys' = v.ttys /\ users' = v.users

Alive(w) == w.top.end = "none"
fail(w) == [w EXCEPT !.top.end = "fail"]
runs(w, t) == \E k \in w.kids : k.tty = t /\ k.st = "runs"

(* Terminals: out and err are the slot the fd is polled for, 0 if it is not  *)
(* polled, -1 once it is closed                                             *)

set_out(w, t, v) == IF t <= 0 THEN w ELSE [w EXCEPT !.ttys[t].out = v]

add_stdout_fd(w, i) == set_out(w, w.procs[i].mfd, i)
del_stdout_fd(w, i) == set_out(w, w.procs[i].mfd, 0)

\* an application still there gets SIGHUP
close_stdout(w, i) ==
  IF w.procs[i].mfd <= 0 THEN w
  ELSE [set_out(w, w.procs[i].mfd, -1) EXCEPT !.procs[i].mfd = -1]

close_stderr(w, i) ==
  LET t == w.procs[i].efd IN
  IF t <= 0 THEN w ELSE [w EXCEPT !.ttys[t].err = -1, !.procs[i].efd = -1]

(* The table *)

find_proc(w, x) == {i \in Slots : w.procs[i].xid = x}

\* mutant of pick_unused_xid: starts over at the limit, without looking
pick_any_xid(w) ==
  LET x == w.top.lastxid + 1 IN IF x > XIDS /\ x > 2 * w.top.nonempty THEN 1 ELSE x

\* 0 for EAGAIN
pick_unused_xid(w) ==
  LET x == w.top.lastxid + 1
      y == IF x > XIDS /\ x > 2 * w.top.nonempty THEN 1 ELSE x
  IN  IF find_proc(w, y) # {} THEN 0 ELSE y

update_proc_counts(w) ==
  LET S == {i \in Slots : w.procs[i].xid # 0} IN
  [w EXCEPT !.top.nprocs = CHOOSE n \in 0..NPROCS : S \subseteq 1..n /\ (n = 0 \/ n \in S),
            !.top.nonempty = Cardinality(S),
            !.top.running = Cardinality({i \in S : w.procs[i].pid > 0})]

\* neither closes the terminals nor the pipes
wipe_procs(w, D) == [w EXCEPT !.procs = [i \in Slots |-> IF i \in D THEN NoProc ELSE @[i]]]

stale(p) == p.xid # 0 /\ p.pid <= 0

flush_proc(w, i) ==
  IF w.procs[i].pid <= 0 THEN update_proc_counts(wipe_procs(w, {i}))
  ELSE [w EXCEPT !.procs[i].buf = FALSE]

flush_dead_procs(w) == update_proc_counts(wipe_procs(w, {i \in Slots : stale(w.procs[i])}))

\* an entry, or NPROCS + 1 if there is no memory for another
grab_proc(w) ==
  lowest({i \in 1..w.top.nprocs : w.procs[i].xid = 0} \cup {w.top.nprocs + 1})

wipe_stale_entries(w, i) ==
  wipe_procs(w, {j \in Slots \ {i} : stale(w.procs[j]) /\ w.procs[j].name = w.procs[i].name})

(* Connections *)

conn_fds(w) == {w.top.conns[k].fd : k \in 1..NCONNS} \ {-1}

\* for every entry in D (the window size is read rather than reset)
detach(w, D) ==
  [w EXCEPT
    !.procs = [i \in Slots |-> IF i \in D THEN [@[i] EXCEPT !.cfd = -1] ELSE @[i]],
    !.ttys = [t \in 1..STARTS |->
      IF \E i \in D : w.procs[i].mfd = t
      THEN [@[t] EXCEPT !.out = CHOOSE i \in D : w.procs[i].mfd = t] ELSE @[t]]]

detach_client(w, F) == detach(w, {i \in Slots : w.procs[i].cfd \in F})

\* the connections in K, one after the other in the code; their clients are gone
close_conns(w, K) ==
  LET F == {w.top.conns[k].fd : k \in K}
      C == {w.top.conns[k].who : k \in K}
  IN  detach_client(
        [w EXCEPT !.top.conns = [k \in 1..NCONNS |-> IF k \in K THEN NoConn ELSE @[k]],
                  !.users = [c \in Clients |-> IF c \in C THEN Idle ELSE @[c]]], F)

close_conn(w, k) == close_conns(w, {k})

Deaf(w, c) == w.users[c].st = "gone"

(* Children *)

\* the entry i has the connection k to tell
tells(w, i, k) == w.procs[i].cfd >= 0 /\ w.top.conns[k].fd = w.procs[i].cfd

\* terminals of the entries in D that the client c is to be told of
exits(w, D, c) ==
  {w.procs[i].tty : i \in {j \in D : \E k \in 1..NCONNS : w.top.conns[k].who = c /\ tells(w, j, k)}}

\* mutant of notify_exit: nobody is notified
notify_nobody(w, D) == w

\* for every entry in D: who has the terminal is told, or turns out to be gone
notify_exit(w, D) ==
  LET K == {k \in 1..NCONNS : /\ w.top.conns[k].fd >= 0 /\ Deaf(w, w.top.conns[k].who)
                              /\ \E i \in D : tells(w, i, k)}
  IN  close_conns([w EXCEPT !.users = [c \in Clients |->
                    [w.users[c] EXCEPT !.told = @ \cup exits(w, D, c)]]], K)

ended(w, C) == {i \in Slots : \E k \in C : k.pid = w.procs[i].pid}

\* the processes C, one after the other in the code, which share no entry
collect(w, C) ==
  LET D == ended(w, C)
      ok == {i \in ended(w, {k \in C : k.st = "ok"}) : ~w.procs[i].buf}
      v == notify_exit([w EXCEPT !.kids = @ \ C], D)
  IN  [v EXCEPT !.procs = [i \in Slots |->
        IF i \in ok THEN NoProc ELSE IF i \in D THEN [v.procs[i] EXCEPT !.pid = -1] ELSE v.procs[i]]]

\* not an application but left behind by one
unknown(w, C) == {k \in C : ended(w, {k}) = {}}

\* what check_children may collect: it returns at the first unknown process
Waited(w) ==
  LET dead == {k \in w.kids : k.st # "runs"} IN
  {C \in SUBSET dead : IF unknown(w, dead) = {} THEN C = dead ELSE \E k \in dead : unknown(w, C) = {k}}

check_children(w, C) ==
  LET v == collect(w, C) IN IF unknown(w, C) = {} THEN update_proc_counts(v) ELSE v

(* Commands *)

free_pid(w) == {p \in 1..PIDS : \A k \in w.kids : k.pid # p}

\* ok, no such file, or one of pipe2, open and fork fails
spawns(w, how) ==
  how = "ok" /\ pick_unused_xid(w) # 0 /\ grab_proc(w) \in Slots /\ free_pid(w) # {}

spawn_proc(w, i, name) ==
  LET t   == w.top.starts + 1
      pid == lowest(free_pid(w))
      p   == [xid |-> w.top.lastxid, pid |-> pid, tty |-> t, mfd |-> t, efd |-> t, cfd |-> 0,
              name |-> name, buf |-> FALSE]
      v   == [w EXCEPT !.top.starts = t, !.procs[i] = p, !.ttys[t] = [out |-> 0, err |-> i],
                       !.kids = @ \cup {[pid |-> pid, tty |-> t, st |-> "runs"]}]
  IN  update_proc_counts(wipe_stale_entries(v, i))

\* a start that fails takes the number, and may leave an empty entry at the end
spawn_child(w, name, how) ==
  LET i == grab_proc(w)
      v == [w EXCEPT !.top.lastxid = pick_unused_xid(w)]
      u == [v EXCEPT !.top.nprocs = IF i > @ THEN i ELSE @, !.procs[i] = NoProc]
  IN  IF pick_unused_xid(w) = 0 THEN w
      ELSE IF how = "absent" \/ i \notin Slots THEN v
      ELSE IF ~spawns(w, how) THEN u
      ELSE spawn_proc(u, i, name)

\* the terminal goes to the client, unless it is gone or there is none to give
reply_start(w, k, i) ==
  LET c == w.top.conns[k].who IN
  IF Deaf(w, c) \/ w.procs[i].mfd <= 0 THEN w
  ELSE [w EXCEPT !.users[c].holds = @ \cup {w.procs[i].mfd}]

cmd_start(w, k, name, how) ==
  LET v == spawn_child(w, name, how)
      i == lowest(find_proc(v, v.top.lastxid))
  IN  IF ~spawns(w, how) THEN v
      ELSE reply_start([v EXCEPT !.procs[i].cfd = v.top.conns[k].fd], k, i)

cmd_spawn(w, name, how) ==
  LET v == spawn_child(w, name, how) IN
  IF ~spawns(w, how) THEN v ELSE detach(v, {lowest(find_proc(v, v.top.lastxid))})

\* mutant of cmd_attach: keeps polling the terminal
cmd_attach_polled(w, k, x) ==
  LET i == lowest(find_proc(w, x)) IN
  IF find_proc(w, x) = {} \/ w.procs[i].cfd > 0 THEN w
  ELSE reply_start([w EXCEPT !.procs[i].cfd = w.top.conns[k].fd], k, i)

\* EALREADY or EBUSY if somebody has it
cmd_attach(w, k, x) ==
  LET i == lowest(find_proc(w, x)) IN
  IF find_proc(w, x) = {} \/ w.procs[i].cfd > 0 THEN w
  ELSE reply_start(del_stdout_fd([w EXCEPT !.procs[i].cfd = w.top.conns[k].fd], i), k, i)

\* the terminal emulator closes its copy before it asks
cmd_detach(w, k, x) ==
  LET i == lowest(find_proc(w, x)) IN
  IF find_proc(w, x) = {} \/ w.procs[i].cfd # w.top.conns[k].fd THEN w
  ELSE detach([w EXCEPT !.users[w.top.conns[k].who].holds = @ \ {w.procs[i].tty}], {i})

cmd_flush(w, x) ==
  IF find_proc(w, x) = {} THEN w ELSE flush_proc(w, lowest(find_proc(w, x)))

\* a status, fetch or signal request changes nothing here
dispatch(w, k, m) ==
  CASE m.cmd = "start"  -> cmd_start(w, k, m.name, m.how)
    [] m.cmd = "spawn"  -> cmd_spawn(w, m.name, m.how)
    [] m.cmd = "attach" -> cmd_attach(w, k, m.xid)
    [] m.cmd = "detach" -> cmd_detach(w, k, m.xid)
    [] m.cmd = "flush"  -> cmd_flush(w, m.xid)
    [] m.cmd = "clear"  -> flush_dead_procs(w)
    [] m.cmd = "other"  -> w

\* a number is taken up to XIDS, or to twice the entries in use
Numbers == 1..(IF XIDS > 2 * NPROCS THEN XIDS ELSE 2 * NPROCS)

Requests ==
  [cmd : {"start", "spawn"}, name : Names, how : IF FAILS THEN {"ok", "absent", "fails"} ELSE {"ok"}]
    \cup [cmd : {"attach", "detach", "flush"}, xid : Numbers] \cup [cmd : {"clear", "other"}]

(* Timer and signals, as in apphub *)

set_timer(w, type) == [w EXCEPT !.top.timer = type, !.top.armed = TRUE]
set_iobuf_timer(w) == IF w.top.timer = "STOP" THEN w ELSE set_timer(w, "MMAP")
clear_exit(w) == [w EXCEPT !.top.end = "exit"]

maybe_normal_exit(w) ==
  IF w.top.timer = "STOP" /\ w.top.running = 0 THEN clear_exit(w) ELSE w

\* connections are closed but not detached
kill_all_conns(w) ==
  [w EXCEPT !.top.conns = [k \in 1..NCONNS |-> NoConn], !.top.ctlfd = FALSE,
            !.users = [c \in Clients |-> Idle]]

request_stop(w) ==
  IF w.top.timer = "STOP" THEN clear_exit(w)
  ELSE maybe_normal_exit(set_timer(kill_all_conns(w), "STOP"))

\* mutant of handle_timeout: only looks at the buffer
handle_buffer_timeout(w) == [w EXCEPT !.top.timer = "NONE"]

handle_timeout(w) ==
  LET v == [w EXCEPT !.top.timer = "NONE"]
  IN  IF w.top.timer = "STOP" THEN clear_exit(v) ELSE v

check_signal(w, sig, C) ==
  IF sig = SIGCHLD THEN maybe_normal_exit(check_children(w, C))
  ELSE IF sig = SIGALRM THEN handle_timeout(w)
  ELSE request_stop(w)

(* Events *)

process_stdout(t) ==
  /\ Alive(World) /\ ttys[t].out > 0 /\ ~runs(World, t)
  /\ Apply(IF ttys[t].out > top.nprocs THEN fail(World) ELSE close_stdout(World, ttys[t].out))
  /\ UNCHANGED sigs

\* something to read, or the end of it
handle_stderr(w, i, data, HUP) ==
  LET v == IF data THEN [w EXCEPT !.procs[i].buf = TRUE] ELSE w
  IN  IF i > w.top.nprocs THEN fail(w) ELSE IF HUP THEN close_stderr(v, i) ELSE v

process_stderr(t) ==
  /\ Alive(World) /\ ttys[t].err > 0
  /\ \E data \in BOOLEAN :
       /\ data \/ ~runs(World, t)
       /\ Apply(handle_stderr(World, ttys[t].err, data, ~runs(World, t)))
  /\ UNCHANGED sigs

process_sigfd ==
  /\ Alive(World) /\ sigs # {}
  /\ \E C \in Waited(World) : Apply(check_signal(World, lowest(sigs), C))
  /\ sigs' = sigs \ {lowest(sigs)}

\* has no connection accepted yet
waiting(c) ==
  users[c].st # "idle" /\ \A k \in 1..NCONNS : top.conns[k].who # c

\* grab_conn_slot takes the first slot that is closed
check_socket(c) ==
  LET free == {k \in 1..NCONNS : top.conns[k].fd < 0} IN
  /\ Alive(World) /\ top.ctlfd /\ waiting(c)
  /\ IF free = {} THEN Apply([World EXCEPT !.users[c] = Idle])
     ELSE \E fd \in Fds \ conn_fds(World) :
            Apply([World EXCEPT !.top.conns[lowest(free)] = [fd |-> fd, who |-> c]])
  /\ UNCHANGED sigs

\* a request, of a client that may have left meanwhile
handle_conn(k, m) ==
  LET c == top.conns[k].who
      w == dispatch([set_iobuf_timer(World) EXCEPT !.users[c].msg = FALSE], k, m)
  IN  /\ Alive(World) /\ top.conns[k].fd >= 0 /\ users[c].msg
      /\ m.cmd \in {"start", "spawn"} => top.starts < STARTS
      /\ Apply(IF Deaf(w, c) THEN close_conn(w, k) ELSE w)
      /\ UNCHANGED sigs

hangup_conn(k) ==
  LET c == top.conns[k].who IN
  /\ Alive(World) /\ top.conns[k].fd >= 0 /\ users[c].st = "gone" /\ ~users[c].msg
  /\ Apply(close_conn(World, k))
  /\ UNCHANGED sigs

(* Clients *)

connect(c) ==
  /\ Alive(World) /\ top.ctlfd /\ users[c].st = "idle"
  /\ users' = [users EXCEPT ![c].st = "here", ![c].msg = TRUE]
  /\ UNCHANGED <<top, procs, kids, ttys, sigs>>

\* nestvt has one request; other terminal emulators may go on asking
send(c) ==
  /\ Alive(World) /\ users[c].st = "here" /\ ~users[c].msg /\ ~waiting(c)
  /\ users' = [users EXCEPT ![c].msg = TRUE]
  /\ UNCHANGED <<top, procs, kids, ttys, sigs>>

\* ends or crashes, and so closes its copies
leave(c) ==
  /\ users[c].st = "here" /\ Alive(World)
  /\ users' = [users EXCEPT ![c].st = "gone", ![c].holds = {}, ![c].told = {}]
  /\ UNCHANGED <<top, procs, kids, ttys, sigs>>

(* Applications and the kernel *)

\* what it leaves behind becomes a child of ptyhub
exit(k) ==
  /\ Alive(World) /\ k.st = "runs"
  /\ \E st \in {"ok", "failed"}, P \in {{}} \cup (IF FORKS THEN {{p} : p \in free_pid(World)} ELSE {}) :
       kids' = (kids \ {k}) \cup {[k EXCEPT !.st = st]} \cup {[k EXCEPT !.pid = p] : p \in P}
  /\ sigs' = sigs \cup {SIGCHLD}
  /\ UNCHANGED <<top, procs, ttys, users>>

alarm ==
  /\ Alive(World) /\ top.armed /\ top.timer \in Timers
  /\ top' = [top EXCEPT !.armed = FALSE]
  /\ sigs' = sigs \cup {SIGALRM}
  /\ UNCHANGED <<procs, kids, ttys, users>>

stop(sig) ==
  /\ Alive(World) /\ sig \notin sigs
  /\ sigs' = sigs \cup {sig}
  /\ UNCHANGED <<top, procs, kids, ttys, users>>

Init ==
  /\ top = [nprocs |-> 0, nonempty |-> 0, running |-> 0, lastxid |-> 0, starts |-> 0,
            conns |-> [k \in 1..NCONNS |-> NoConn], ctlfd |-> TRUE, timer |-> "NONE",
            armed |-> FALSE, end |-> "none"]
  /\ procs = [i \in Slots |-> NoProc]
  /\ kids = {} /\ sigs = {}
  /\ ttys = [t \in 1..STARTS |-> [out |-> -1, err |-> -1]]
  /\ users = [c \in Clients |-> Idle]

Daemon ==
  \/ process_sigfd
  \/ \E t \in 1..STARTS : process_stdout(t) \/ process_stderr(t)
  \/ \E c \in Clients : check_socket(c)
  \/ \E k \in 1..NCONNS : hangup_conn(k) \/ \E m \in Requests : handle_conn(k, m)

Next ==
  \/ Daemon
  \/ \E c \in Clients : connect(c) \/ send(c) \/ leave(c)
  \/ \E k \in kids : exit(k)
  \/ alarm
  \/ \E sig \in Stops : stop(sig)

Spec == Init /\ [][Next]_pty_vars

\* ptyhub gets around to every signal (the signalfd gives SIGALRM before SIGCHLD,
\* but the timer takes seconds, and so does not come before each SIGCHLD for
\* ever), and the timer expires: weak fairness, enabling conditions written out
Waits(k) ==
  IF k = 1 THEN Alive(World) /\ top.armed /\ top.timer \in Timers
  ELSE Alive(World) /\ <<SIGALRM, SIGCHLD, SIGINT>>[k - 1] \in sigs
Moves(k) ==
  IF k = 1 THEN alarm
  ELSE process_sigfd /\ <<SIGALRM, SIGCHLD, SIGINT>>[k - 1] = lowest(sigs)
Fairness == \A k \in 1..4 : []<>~Waits(k) \/ []<><<Moves(k)>>_pty_vars

LiveSpec == Spec /\ Fairness

(* Properties *)

Up == Alive(World) /\ top.ctlfd
Running == {procs[i] : i \in {j \in Slots : procs[j].pid > 0 /\ procs[j].mfd > 0}}

\* Of a running application, either a connected client has the terminal or
\* ptyhub reads it, never both and never none: output is neither stolen from
\* a terminal emulator nor left to fill up until the application blocks.
ReadByOne == Up => \A p \in Running : (p.cfd \in conn_fds(World)) # (ttys[p.mfd].out > 0)

\* An entry, of a dead application too, names no connection that is closed:
\* the next client to get that fd would own a terminal it never asked for.
NoDangling == Up => \A i \in Slots : procs[i].cfd > 0 => procs[i].cfd \in conn_fds(World)

\* Two clients never hold the terminal of the same running application.
OneTerminal ==
  \A p \in Running, c, d \in Clients : p.tty \in users[c].holds \cap users[d].holds => c = d

\* The terminals of running applications, and who has them.
PtyTerminals == ReadByOne /\ NoDangling /\ OneTerminal

\* what a client knows of the numbers
Entries ==
  [x \in Numbers |->
    IF find_proc(World, x) = {} THEN "free"
    ELSE IF \E i, j \in find_proc(World, x) : i # j THEN "twice"
    ELSE IF \E i \in find_proc(World, x) : procs[i].pid > 0 THEN "runs" ELSE "dead"]
Life == INSTANCE AppLife WITH entry <- Entries
LifeStep == Entries' = Entries \/ Life!LifeNext

\* ptyhub keeps the promises of AppLife about its xids.
XidsKept == Life!Life

\* A client holding the terminal of an application that has ended is told once
\* ptyhub collects it, unless it leaves or gives the terminal back.  (One that
\* attaches after that only sees its copy of the terminal hang up.)  Not so when an
\* application leaves processes behind, see Waited: the run has FORKS = FALSE.
Ended(c, t) ==
  t \in users[c].holds /\ \E k \in kids : k.tty = t /\ k.st # "runs"
Told(c, t) == t \in users[c].told \/ t \notin users[c].holds \/ ~Up
ExitTold == \A c \in Clients, t \in 1..STARTS : Ended(c, t) ~> Told(c, t)

\* Told to stop, ptyhub ends.
Stopping == Stops \cap sigs # {}
StopEnds == Stopping ~> ~Alive(World)
=============================================================================
