-------------------------------- MODULE AppHub --------------------------------
(***************************************************************************)
(* apphub, the supervisor of user applications, with its clients (appctl), *)
(* the applications and what the kernel keeps for them: child processes,   *)
(* pipes, and the ready list of epoll.                                     *)
(*                                                                         *)
(* The daemon takes one event per turn.  A pipe is registered under the    *)
(* index of the table slot its application had when it was started, so an  *)
(* event is only as good as that index is when it is handled.              *)
(***************************************************************************)
EXTENDS Integers, Sequences, FiniteSets, SequencesExt, FiniteSetsExt

CONSTANTS
  Names,    \* applications in /etc/apphub
  Clients,  \* users running appctl
  PIDS,     \* bound on processes at a time
  FDS,      \* RLIMIT_NOFILE, counting pipes only
  NCONNS,   \* control connections
  XIDS,     \* 100 in pick_unused_xid
  STARTS,   \* bound on applications started
  MAXRUN,   \* MAX_RUNNING_PROCS
  Faults,   \* what may fail, out of "access", "brk", "pipe", "fork" and "mmap"
  FORKS,    \* may an application leave a process behind
  Timers,   \* timers that may run out, out of "MMAP" and "STOP"
  Stops     \* signals that stop apphub, out of SIGHUP, SIGINT, SIGTERM

VARIABLES
  top,      \* struct top: procs is the table, its length is nprocs
  kids,     \* processes, those apphub will wait for in the kernel's order
  pipes,    \* open read ends: fd -> what is in the pipe and who may write
  ready,    \* the ready list of epoll
  sigs,     \* signals pending in the signalfd
  users     \* client -> what it is doing

hub_vars == <<top, kids, pipes, ready, sigs, users>>

SIGHUP == 1
SIGINT == 2
SIGALRM == 14
SIGTERM == 15
SIGCHLD == 17

NoProc == [xid |-> 0, pid |-> 0, fd |-> 0, name |-> "", buf |-> FALSE]

\* What a handler works on.
World == [top |-> top, kids |-> kids, pipes |-> pipes, ready |-> ready]
Apply(w) ==
  \E v \in {w} : top' = v.top /\ kids' = v.kids /\ pipes' = v.pipes /\ ready' = v.ready

procs(w) == w.top.procs
nprocs(w) == Len(w.top.procs)
Alive(w) == w.top.end = ""
fail(w) == [w EXCEPT !.top.end = "fail"]

(* epoll: sources are <<"ctl">>, <<"sig">>, <<"conn", k>>, <<"pipe", fd>> *)

wakes(w, s) == IF s \in Range(w.ready) THEN w ELSE [w EXCEPT !.ready = Append(@, s)]

pipe_fds(w) == DOMAIN w.pipes
writers(w, fd) ==
  {i \in DOMAIN w.kids : w.kids[i].pipe = fd /\ w.kids[i].st = "runs"}

\* what epoll reports of a registered pipe
pipe_events(w, fd) ==
  (IF w.pipes[fd].data THEN {"IN"} ELSE {})
    \cup (IF w.pipes[fd].key > 0 /\ writers(w, fd) = {} THEN {"HUP"} ELSE {})

\* whoever still writes to it gets EPIPE
close_fd(w, fd) ==
  [w EXCEPT !.pipes = [f \in DOMAIN @ \ {fd} |-> @[f]],
            !.kids = [j \in DOMAIN @ |-> IF @[j].pipe = fd THEN [@[j] EXCEPT !.pipe = 0] ELSE @[j]],
            !.ready = SelectSeq(@, LAMBDA s : s # <<"pipe", fd>>)]

(* The output of an application.  The arithmetic of the ring is RingBuf;    *)
(* here a buffer is there or not.                                          *)

close_pipe(w, i) ==
  LET fd == procs(w)[i].fd IN
  IF fd <= 0 THEN w ELSE [close_fd(w, fd) EXCEPT !.top.procs[i].fd = -1]

\* reads all there is; of a slot that has no pipe, nothing; without memory for the
\* buffer (prep_pipe_buf) the pipe is closed
handle_pipe(w, i, mmap) ==
  LET fd == procs(w)[i].fd
      v  == [w EXCEPT !.top.procs[i].buf = TRUE]
  IN  IF ~procs(w)[i].buf /\ ~mmap THEN close_pipe(w, i)
      ELSE IF fd \in pipe_fds(w) THEN [v EXCEPT !.pipes[fd].data = FALSE] ELSE v

(* The table *)

xid_is_in_use(w, x) == \E p \in Range(procs(w)) : p.xid = x

\* mutant of pick_unused_xid: starts over at the limit, without looking
pick_any_xid(w) ==
  LET x == w.top.lastxid + 1 IN IF x > XIDS /\ x > 2 * w.top.nonempty THEN 1 ELSE x

\* 0 for EAGAIN: the loop tries the same number over and over
pick_unused_xid(w) ==
  LET x == w.top.lastxid + 1
      y == IF x > XIDS /\ x > 2 * w.top.nonempty THEN 1 ELSE x
  IN  IF xid_is_in_use(w, y) THEN 0 ELSE y

update_proc_counts(w) ==
  LET used == {i \in 1..nprocs(w) : procs(w)[i].xid # 0} IN
  [w EXCEPT !.top.procs = SubSeq(@, 1, Max(used \cup {0})),
            !.top.nonempty = Cardinality(used),
            !.top.running = Cardinality({i \in used : procs(w)[i].pid > 0})]

drop_proc(w, i) == [w EXCEPT !.top.procs[i] = NoProc]

\* the first empty slot, or one more
grab_proc(w) ==
  LET free == {i \in 1..nprocs(w) : procs(w)[i].xid = 0}
  IN  IF free = {} THEN nprocs(w) + 1 ELSE Min(free)

set_slot(w, i, p) ==
  [w EXCEPT !.top.procs = IF i > Len(@) THEN Append(@, p) ELSE [@ EXCEPT ![i] = p]]

\* mutant of wipe_stale_entries: takes running ones for dead
wipe_all_entries(w, i) ==
  update_proc_counts([w EXCEPT !.top.procs =
    [j \in DOMAIN @ |-> IF j # i /\ @[j].name = @[i].name THEN NoProc ELSE @[j]]])

\* mutant of wipe_stale_entries: leaves the counts alone
wipe_uncounted(w, i) ==
  [w EXCEPT !.top.procs =
    [j \in DOMAIN @ |->
      IF j # i /\ @[j].xid # 0 /\ @[j].pid <= 0 /\ @[j].name = @[i].name
      THEN NoProc ELSE @[j]]]

wipe_stale_entries(w, i) ==
  update_proc_counts([w EXCEPT !.top.procs =
    [j \in DOMAIN @ |->
      IF j # i /\ @[j].xid # 0 /\ @[j].pid <= 0 /\ @[j].name = @[i].name
      THEN NoProc ELSE @[j]]])

\* one child collected; -1 stands for the exit status in pid
collect(w, pid, status) ==
  LET S == {i \in 1..nprocs(w) : procs(w)[i].pid = pid}
      v == [w EXCEPT !.kids = SelectSeq(@, LAMBDA k : k.pid # pid)]
  IN  IF S = {} THEN v
      ELSE IF status = "ok" /\ ~procs(w)[Min(S)].buf THEN drop_proc(v, Min(S))
      ELSE [v EXCEPT !.top.procs[Min(S)].pid = -1]

known(w, k) == k.pid \in {p.pid : p \in Range(procs(w))}

\* stops at the first process that is not in the table, without counting
check_children(w) ==
  LET dead == SelectSeq(w.kids, LAMBDA k : k.up = 0 /\ k.st # "runs")
      odd  == {i \in DOMAIN dead : ~known(w, dead[i])}
      till == IF odd = {} THEN Len(dead) ELSE Min(odd)
      v    == FoldLeft(LAMBDA u, k : collect(u, k.pid, k.st), w, SubSeq(dead, 1, till))
  IN  IF odd = {} THEN update_proc_counts(v) ELSE v

flush_proc(w, i) ==
  LET v == [w EXCEPT !.top.procs[i].buf = FALSE]
  IN  IF procs(w)[i].pid <= 0 THEN update_proc_counts(drop_proc(v, i)) ELSE v

(* Commands; whether the reply is an error is left out *)

find_proc(w, x) == {i \in 1..nprocs(w) : procs(w)[i].xid = x}

free_pid(w) == {p \in 1..PIDS : \A k \in Range(w.kids) : k.pid # p}
free_fd(w) == (1..FDS) \ pipe_fds(w)
opens(w, fd, key) ==
  [w EXCEPT !.pipes = [f \in DOMAIN @ \cup {fd} |-> IF f = fd THEN [data |-> FALSE, key |-> key] ELSE @[f]]]

\* fork failing: spawn_proc returns what pipe2 did, 0, and both ends of the
\* pipe stay open
spawn_proc(w, i, fd, how) ==
  IF how = "fork" \/ free_pid(w) = {} THEN opens(w, fd, 0)
  ELSE LET pid == Min(free_pid(w)) IN
       [opens(w, fd, i) EXCEPT
         !.kids = Append(@, [pid |-> pid, up |-> 0, pipe |-> fd, st |-> "runs", told |-> FALSE, xid |-> w.top.lastxid]),
         !.top.procs[i].fd = fd, !.top.procs[i].pid = pid]

\* a start that fails keeps the number it took, and once it has a slot leaves it
\* empty in the table
spawn_child(w, name, how) ==
  LET xid == pick_unused_xid(w)
      i   == grab_proc(w)
      u   == [w EXCEPT !.top.lastxid = xid]
      v   == [set_slot(u, i, [NoProc EXCEPT !.xid = xid, !.name = name]) EXCEPT !.top.starts = @ + 1]
  IN  IF w.top.running > MAXRUN \/ xid = 0 THEN w
      ELSE IF how = "access" \/ (how = "brk" /\ i > nprocs(w)) THEN u
      ELSE IF how = "pipe" \/ free_fd(w) = {} THEN set_slot(u, i, NoProc)
      ELSE wipe_stale_entries(spawn_proc(v, i, Min(free_fd(w)), how), i)

cmd_flush(w, x) ==
  IF find_proc(w, x) = {} THEN w ELSE flush_proc(w, Min(find_proc(w, x)))

\* a status, fetch or signal request changes nothing here; an application may
\* do as it likes with a signal
dispatch(w, m, how) ==
  CASE m[1] = "spawn" -> spawn_child(w, m[2], how)
    [] m[1] = "flush" -> cmd_flush(w, m[2])
    [] m[1] = "other" -> w

\* a number is taken up to XIDS, or to twice the entries in use
Numbers == 1..Max({XIDS, 2 * STARTS})

Requests == ({"spawn"} \X Names) \cup ({"flush"} \X Numbers) \cup {<<"other">>}

(* Control connections: conns[k] is the client connected, "" for fd -1 *)

grab_conn_slot(w) ==
  LET free == {k \in DOMAIN w.top.conns : w.top.conns[k] = ""}
  IN  IF free # {} THEN Min(free) ELSE Len(w.top.conns) + 1

close_conn(w, k) ==
  LET c == [w.top.conns EXCEPT ![k] = ""]
      n == Max({j \in DOMAIN c : c[j] # ""} \cup {0})
  IN  [w EXCEPT !.top.conns = SubSeq(c, 1, n),
                !.ready = SelectSeq(@, LAMBDA s : s # <<"conn", k>>)]

(* Timer and signals *)

set_timer(w, type) == [w EXCEPT !.top.timer = type, !.top.armed = TRUE]

set_iobuf_timer(w) == IF w.top.timer = "STOP" THEN w ELSE set_timer(w, "MMAP")

clear_exit(w) == [w EXCEPT !.top.end = "exit"]

maybe_normal_exit(w) ==
  IF w.top.timer = "STOP" /\ w.top.running = 0 THEN clear_exit(w) ELSE w

\* told, whether it has been told to stop, is a history variable
tell(w, pid) ==
  [w EXCEPT !.kids = [j \in DOMAIN @ |-> IF @[j].pid = pid THEN [@[j] EXCEPT !.told = TRUE]
                                                            ELSE @[j]]]

kill_all_procs(w) ==
  FoldLeft(LAMBDA u, p : IF p.pid > 0 THEN tell(u, p.pid) ELSE u, w, procs(w))

kill_all_conns(w) ==
  [w EXCEPT !.top.conns = [k \in DOMAIN @ |-> ""], !.top.ctlfd = FALSE,
            !.ready = SelectSeq(@, LAMBDA s : s[1] \notin {"ctl", "conn"})]

\* mutant of request_stop: no timer
request_stop_untimed(w) ==
  IF w.top.timer = "STOP" THEN clear_exit(w)
  ELSE maybe_normal_exit([kill_all_conns(kill_all_procs(w)) EXCEPT !.top.timer = "STOP"])

request_stop(w) ==
  IF w.top.timer = "STOP" THEN clear_exit(w)
  ELSE maybe_normal_exit(set_timer(kill_all_conns(kill_all_procs(w)), "STOP"))

handle_timeout(w) ==
  LET v == [w EXCEPT !.top.timer = "NONE"]
  IN  IF w.top.timer = "STOP" THEN clear_exit(v) ELSE v

check_signal(w, sig) ==
  CASE sig = SIGCHLD -> maybe_normal_exit(check_children(w))
    [] sig = SIGALRM -> handle_timeout(w)
    [] OTHER -> request_stop(w)

(* Events *)

\* an event of a pipe whose slot is gone ends the daemon
process_proc(w, fd, mmap) ==
  LET i == w.pipes[fd].key
      E == pipe_events(w, fd)
      v == IF "IN" \in E THEN handle_pipe(w, i, mmap) ELSE w
  IN  IF i > nprocs(w) THEN fail(w) ELSE IF "HUP" \in E THEN close_pipe(v, i) ELSE v

reportable(s) ==
  CASE s[1] = "pipe" -> pipe_events(World, s[2]) # {}
    [] s[1] = "sig"  -> sigs # {}
    [] s[1] = "ctl"  -> \E c \in Clients : users[c] = "queued"
    [] s[1] = "conn" -> users[top.conns[s[2]]] \in {"sent", "gone"}

\* epoll_wait drops what has nothing to report from the head of the list, takes
\* the next and puts it back at the end
Events == {n \in DOMAIN ready : reportable(ready[n])}
\* mutant of Polled: goes back to the head of the list
Polled_first == [World EXCEPT !.ready = SubSeq(@, Min(Events), Len(@))]

Polled == [World EXCEPT !.ready = Append(SubSeq(@, Min(Events) + 1, Len(@)), @[Min(Events)])]

process_pipe(fd) ==
  /\ \E how \in {"ok"} \cup Faults : Apply(process_proc(Polled, fd, how # "mmap"))
  /\ UNCHANGED <<sigs, users>>

process_sigfd ==
  /\ Apply(check_signal(Polled, Min(sigs)))
  /\ sigs' = sigs \ {Min(sigs)}
  /\ UNCHANGED users

\* accept4; without a slot the connection is closed
check_socket(c) ==
  /\ users[c] = "queued"
  /\ LET k == grab_conn_slot(World)
         C == IF k > Len(top.conns) THEN Append(top.conns, c) ELSE [top.conns EXCEPT ![k] = c]
     IN  IF k > NCONNS
         THEN Apply(Polled) /\ users' = [users EXCEPT ![c] = "closed"]
         ELSE /\ Apply(wakes([Polled EXCEPT !.top.conns = C], <<"conn", k>>))
              /\ users' = [users EXCEPT ![c] = "sent"]
  /\ UNCHANGED sigs

\* what the client has sent is told from here on
handle_conn(k, m) ==
  /\ users[top.conns[k]] = "sent"
  /\ m[1] = "spawn" => top.starts < STARTS
  /\ \E how \in {"ok"} \cup Faults : Apply(dispatch(set_iobuf_timer(Polled), m, how))
  /\ users' = [users EXCEPT ![top.conns[k]] = "answered"]
  /\ UNCHANGED sigs

hangup_conn(k) ==
  /\ users[top.conns[k]] = "gone"
  /\ Apply(close_conn(Polled, k))
  /\ users' = [users EXCEPT ![top.conns[k]] = "idle"]
  /\ UNCHANGED sigs

(* appctl *)

request(c) ==
  /\ users[c] = "idle" /\ Alive(World) /\ top.ctlfd
  /\ users' = [users EXCEPT ![c] = "queued"]
  /\ Apply(wakes(World, <<"ctl">>))
  /\ UNCHANGED sigs

\* the answer is there, or the connection is closed, by apphub or with it
hung_up(c) == users[c] = "closed" \/ (users[c] # "idle" /\ ~(Alive(World) /\ top.ctlfd))

\* appctl ends
done(c) ==
  /\ \/ /\ hung_up(c)
        /\ users' = [users EXCEPT ![c] = "idle"]
        /\ UNCHANGED ready
     \/ \E k \in DOMAIN top.conns :
        /\ users[c] = "answered" /\ top.conns[k] = c /\ Alive(World)
        /\ users' = [users EXCEPT ![c] = "gone"]
        /\ ready' = wakes(World, <<"conn", k>>).ready
  /\ UNCHANGED <<top, kids, pipes, sigs>>

(* Applications and the kernel *)

raise(s) == sigs' = sigs \cup {s}

write(i) ==
  /\ Alive(World) /\ kids[i].st = "runs" /\ kids[i].pipe \in DOMAIN pipes /\ ~pipes[kids[i].pipe].data
  /\ pipes' = [pipes EXCEPT ![kids[i].pipe].data = TRUE]
  /\ ready' = wakes(World, <<"pipe", kids[i].pipe>>).ready
  /\ UNCHANGED <<top, kids, sigs, users>>

\* an application starts a process of its own, which keeps its output
fork(i) ==
  /\ FORKS /\ Alive(World) /\ kids[i].st = "runs" /\ kids[i].up = 0 /\ free_pid(World) # {}
  /\ kids' = Append(kids, [kids[i] EXCEPT !.pid = Min(free_pid(World)), !.up = kids[i].pid, !.xid = 0])
  /\ UNCHANGED <<top, pipes, ready, sigs, users>>

\* exit: the pipe is closed first, then the parent gets SIGCHLD; what it has
\* left behind becomes a child of the subreaper, apphub
exit(i) ==
  /\ kids[i].st = "runs" /\ kids[i].up = 0 /\ Alive(World)
  /\ \E st \in {"ok", "failed"} :
       LET p == kids[i].pid
           K == [kids EXCEPT ![i].st = st]
           own == SelectSeq(K, LAMBDA k : k.up # p)
           left == SelectSeq(K, LAMBDA k : k.up = p)
           new == own \o [j \in DOMAIN left |-> [left[j] EXCEPT !.up = 0]]
           fd == kids[i].pipe
           hup == fd \in DOMAIN pipes /\ writers([World EXCEPT !.kids = new], fd) = {}
           w  == IF hup THEN wakes(World, <<"pipe", fd>>) ELSE World
       IN  kids' = new /\ ready' = wakes(w, <<"sig">>).ready
  /\ raise(SIGCHLD)
  /\ UNCHANGED <<top, pipes, users>>

alarm ==
  /\ Alive(World) /\ top.armed /\ top.timer \in Timers
  /\ top' = [top EXCEPT !.armed = FALSE]
  /\ raise(SIGALRM)
  /\ ready' = wakes(World, <<"sig">>).ready
  /\ UNCHANGED <<kids, pipes, users>>

stop(sig) ==
  /\ Alive(World) /\ sig \notin sigs
  /\ raise(sig)
  /\ ready' = wakes(World, <<"sig">>).ready
  /\ UNCHANGED <<top, kids, pipes, users>>

Init ==
  /\ top = [procs |-> <<>>, nonempty |-> 0, running |-> 0, lastxid |-> 0, starts |-> 0, conns |-> <<>>,
            ctlfd |-> TRUE, timer |-> "NONE", armed |-> FALSE, end |-> ""]
  /\ kids = <<>> /\ pipes = [f \in {} |-> 0]
  /\ ready = <<>> /\ sigs = {}
  /\ users = [c \in Clients |-> "idle"]

process_event(s) ==
  \/ s[1] = "pipe" /\ process_pipe(s[2])
  \/ s[1] = "sig" /\ process_sigfd
  \/ s[1] = "ctl" /\ \E c \in Clients : check_socket(c)
  \/ s[1] = "conn" /\ (hangup_conn(s[2]) \/ \E m \in Requests : handle_conn(s[2], m))

sleep ==
  /\ ready' = <<>>
  /\ UNCHANGED <<top, kids, pipes, sigs, users>>

Daemon ==
  /\ Alive(World) /\ ready # <<>>
  /\ IF Events = {} THEN sleep ELSE process_event(ready[Min(Events)])

Next ==
  \/ Daemon
  \/ \E c \in Clients : request(c) \/ done(c)
  \/ \E i \in DOMAIN kids : write(i) \/ fork(i) \/ exit(i)
  \/ alarm
  \/ \E sig \in Stops : stop(sig)

Spec == Init /\ [][Next]_hub_vars

\* apphub runs (there is always a step for what is on the ready list), the timer
\* expires, and appctl reads its answer: the weak fairness of Moves(k), whose
\* enabling condition is Waits(k)
Waits(k) ==
  CASE k = 1 -> Alive(World) /\ ready # <<>>
    [] k = 2 -> Alive(World) /\ top.armed /\ top.timer \in Timers
    [] k = 3 -> \E c \in Clients : ENABLED done(c)
Moves(k) ==
  CASE k = 1 -> Daemon
    [] k = 2 -> alarm
    [] k = 3 -> \E c \in Clients : done(c)
Fairness == \A k \in 1..3 : []<>~Waits(k) \/ []<><<Moves(k)>>_hub_vars

LiveSpec == Spec /\ Fairness

(* Properties *)

Apps == {k \in Range(kids) : k.xid # 0}

\* Every application started, until it is collected, is in the table under its
\* number with its pid: no sequence of starts, deaths and flushes forgets or
\* confuses one that still runs, and so it can always be told to stop.
Supervised ==
  Alive(World) => \A k \in Apps : \E p \in Range(top.procs) : p.xid = k.xid /\ p.pid = k.pid

\* nprocs_running, which is not recounted on every way out of check_children,
\* is never too low: apphub told to stop does not leave before its
\* applications.
NotEarly == Alive(World) => Cardinality({k \in Apps : k.st = "runs"}) <= top.running

\* When apphub exits after a stop, every application still running has been
\* told to terminate, wherever in the table it is.
StopTold == top.end = "exit" => \A k \in Apps : k.st = "runs" => k.told

\* A client that has sent its request gets an answer or is disconnected,
\* whatever applications write and do meanwhile.
Asked(c) == users[c] \in {"queued", "sent"}
Answered == \A c \in Clients : Asked(c) ~> ~Asked(c)

\* Told to stop, apphub ends, whatever the applications do.
Stopping == Stops \cap sigs # {}
StopEnds == Stopping ~> ~Alive(World)

\* However many applications end at about the same time, while no SIGCHLD is
\* pending none that has ended is still in the table as a running one.  (With
\* FORKS this does not hold: check_children returns at the first process it does
\* not know.)
Collected == Alive(World) /\ SIGCHLD \notin sigs => \A k \in Apps : k.st = "runs"

\* what a client knows of the numbers
Entries ==
  [x \in Numbers |->
    IF find_proc(World, x) = {} THEN "free"
    ELSE IF Cardinality(find_proc(World, x)) > 1 THEN "twice"
    ELSE IF top.procs[Min(find_proc(World, x))].pid > 0 THEN "runs" ELSE "dead"]
Life == INSTANCE AppLife WITH entry <- Entries
LifeStep == Entries' = Entries \/ Life!LifeNext

\* apphub keeps the promises of AppLife about its xids.
XidsKept == Life!Life

\* apphub does not end because applications do (man/apphub.8 "Applications may
\* exit at will, and generally are expected to do so").
HubStays == top.end # "fail"
=============================================================================
