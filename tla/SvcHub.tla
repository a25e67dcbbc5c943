------------------------------- MODULE SvcHub -------------------------------
(***************************************************************************)
(* svchub, the process supervisor that runs as pid 1: the table of         *)
(* services, the boot/shutdown state machine, the control connections, and *)
(* the part of the kernel they are driven by (children, wait statuses,     *)
(* pending signals, the alarm, the output pipes and their epoll keys).     *)
(*                                                                         *)
(* svchub is single-threaded around epoll_wait.  One action below is one   *)
(* handler run by wait_poll; the waitpid loop of check_children is one     *)
(* action per iteration, because children keep dying while it runs.        *)
(*                                                                         *)
(* Abstractions: a service name is an element of Names; the output of a    *)
(* service is "some unread data" (RingBuf.tla has the bytes); pc->time is  *)
(* the bit "more than 10 seconds ago"; a request and its handling are one  *)
(* step.  SIGTERM to svchub is SIGINT (check_signal treats them alike).    *)
(***************************************************************************)
EXTENDS Integers, FiniteSets

CONSTANTS
  Names,      \* service names
  NPROCS,     \* size of procs[]
  NCONNS,     \* size of conns[]
  RETRIES,    \* alarms that only report the hung services, 3 in the code
  Pids,       \* process ids; an id is reused once its process is reaped
  Statuses,   \* wait statuses, 0 for exit(0); as integers they may equal pids
  Kinds,      \* flags services are started with: {}, {P_ONCE}, {P_PASS}
  Modes,      \* the modes commands may ask for: reboot, shutdown, poweroff
  Signals,    \* stop signals pid 1 may get: INT, PWR
  Absent,     \* scripts that may be missing: shell, shutdown, failure
  Env         \* what else the environment does, see the uses below

S_UNKNOWN  == 0
S_STARTUP  == 1
S_RUNNING  == 2
S_STOPPING == 3
S_SHUTDOWN == 4

P_IN_USE == "IN_USE"
P_KILLED == "KILLED"
P_STATUS == "STATUS"
P_ONCE   == "ONCE"
P_PASS   == "PASS"

ASSUME SvcAssumption ==
  /\ NPROCS \in Nat \ {0} /\ NCONNS \in Nat \ {0} /\ RETRIES \in Nat
  /\ "" \notin Names
  /\ Pids \cap {0, -1} = {} /\ IsFiniteSet(Pids)
  /\ 0 \in Statuses /\ Statuses # {0} /\ -1 \notin Statuses
  /\ Kinds \subseteq {{}, {P_PASS}, {P_ONCE}}
  /\ "none" \notin Modes

\* struct proc.fd and struct conn.fd: -1 closed, 0 zeroed memory, OPEN a live fd
OPEN   == 1
CLOSED == -1

VARIABLES
  hub,                                    \* "poll", "reap" (in check_children), "failed", "halted"
  state, rbmode, scrpid, sigcnt, ctlfd,   \* struct top
  nprocs, nalive, procs,                  \* the service table
  nconns, conns,                          \* control connections
  kid, sigs, alarm, pipe, leaked,         \* kernel: children, pending signals, alarm(2),
                                          \* output pipes, pipes whose epoll key outlived their entry
  waiting, forced, lost                   \* history: who waits for REP_DIED, services given up by
                                          \* force_shutdown, output that was never read

topvars  == <<state, rbmode, scrpid, sigcnt, ctlfd>>
tabvars  == <<nprocs, nalive, procs>>
connvars == <<nconns, conns, waiting>>
kernvars == <<kid, sigs, alarm, pipe, leaked>>
vars     == <<hub, topvars, tabvars, connvars, kernvars, forced, lost>>

Slots == 1..NPROCS
Conns == 1..NCONNS

Empty  == [name |-> "", pid |-> 0, fd |-> 0, old |-> FALSE, flags |-> {}, buf |-> FALSE]
NoPipe == [data |-> FALSE, hup |-> FALSE]
NoKid  == [st |-> "free", what |-> "none", killed |-> FALSE, status |-> 0]
Run(what) == [st |-> "run", what |-> what, killed |-> FALSE, status |-> 0]

First(S) == CHOOSE i \in S : \A j \in S : i <= j

\* the entry is taken to have a process: the test shared by stop_proc,
\* kill_proc, remove_proc, stop_all_procs, force_shutdown
Alive(pc) == pc.flags # {} /\ pc.pid # 0 /\ P_STATUS \notin pc.flags

\* mutant of find_by_name: the last entry is not looked at
find_by_name_short(n) == {i \in 1..nprocs - 1 : procs[i].name = n}

find_by_name(n) == {i \in 1..nprocs : procs[i].name = n}

\* mutant of find_by_pid: wait statuses are taken for pids
find_by_pid_any(p) == {i \in 1..nprocs : procs[i].pid = p}

find_by_pid(p) == {i \in 1..nprocs : P_STATUS \notin procs[i].flags /\ procs[i].pid = p}

\* mutant of grab_proc_slot: freed slots are not found again, nor is the end of
\* the table
grab_proc_slot_fresh == IF nprocs <= NPROCS THEN nprocs + 1 ELSE 0

\* the slot grab_proc_slot returns, 0 for NULL
grab_proc_slot ==
  LET unused == {i \in 1..nprocs : procs[i].flags = {}}
  IN  IF unused # {} THEN First(unused)
      ELSE IF nprocs < NPROCS THEN nprocs + 1 ELSE 0

\* SIGKILL to every process in P.  SIGTERM changes nothing by itself: a
\* service may act on it, ignore it, or die unasked at any time.
Kill(k, P) == [p \in Pids |-> [k[p] EXCEPT !.killed = @ \/ (p \in P /\ k[p].st = "run")]]

-----------------------------------------------------------------------------
(* Starting a service *)

\* spawn_path for entry i, whose record is rec; k and n are the children and
\* nalive at the call.  access() or pipe2() may fail, leaving the caller's
\* record bad; a failed fork() returns the 0 left in ret by pipe2().
spawn_path(i, rec, bad, k, n, ret) ==
  \/ /\ "noexec" \in Env
     /\ ret = "EACCES"
     /\ procs' = [procs EXCEPT ![i] = bad]
     /\ kid' = k /\ nalive' = n
     /\ UNCHANGED <<pipe, leaked>>
  \/ /\ "nofork" \in Env
     /\ ret = "0"
     /\ procs' = [procs EXCEPT ![i] = rec]
     /\ kid' = k /\ nalive' = n
     /\ UNCHANGED <<pipe, leaked>>
  \/ \E p \in Pids :
     /\ k[p].st = "free"
     /\ ret = "0"
     /\ kid' = [k EXCEPT ![p] = Run("svc")]
     /\ nalive' = n + 1
     /\ IF P_PASS \in rec.flags
        THEN /\ procs' = [procs EXCEPT ![i] = [rec EXCEPT !.pid = p]]
             /\ UNCHANGED <<pipe, leaked>>
        ELSE /\ procs' = [procs EXCEPT ![i] = [rec EXCEPT !.pid = p, !.fd = OPEN]]
             /\ pipe' = [pipe EXCEPT ![i] = NoPipe]
             /\ leaked' = IF rec.fd = OPEN THEN leaked \cup {i} ELSE leaked

\* restart_proc: an entry with that name is already there
restart_proc(i, fl, ret) ==
  LET pc == procs[i]
      idle == IF P_STATUS \in pc.flags
              THEN [pc EXCEPT !.flags = @ \ {P_STATUS, P_KILLED}, !.pid = 0]
              ELSE pc
      rec == [idle EXCEPT !.buf = FALSE]
  IN  \/ /\ fl # {} /\ ret = "EINVAL"
         /\ UNCHANGED <<tabvars, kid, pipe, leaked, lost>>
      \/ /\ fl = {} /\ P_STATUS \notin pc.flags /\ pc.pid # 0 /\ ret = "EBUSY"
         /\ UNCHANGED <<tabvars, kid, pipe, leaked, lost>>
      \/ /\ fl = {} /\ idle.pid = 0
         /\ spawn_path(i, [rec EXCEPT !.old = FALSE], rec, kid, nalive, ret)
         /\ lost' = [lost EXCEPT ![i] = FALSE]
         /\ UNCHANGED nprocs

\* start_proc with prep_and_start: a failed start zeroes the slot it took,
\* the grown nprocs stays
start_proc(n, fl, ret) ==
  IF find_by_name(n) # {}
  THEN restart_proc(First(find_by_name(n)), fl, ret)
  ELSE LET i == grab_proc_slot
           rec == [Empty EXCEPT !.name = n, !.flags = {P_IN_USE} \cup fl, !.fd = CLOSED]
       IN  \/ /\ i = 0 /\ ret = "ENOMEM"
              /\ UNCHANGED <<tabvars, kid, pipe, leaked, lost>>
           \/ /\ i # 0
              /\ spawn_path(i, rec, Empty, kid, nalive, ret)
              /\ lost' = [lost EXCEPT ![i] = FALSE]
              /\ nprocs' = IF i > nprocs THEN i ELSE nprocs

cmd_start(n, fl, ret) ==
  /\ start_proc(n, fl, ret)
  /\ UNCHANGED <<hub, topvars, sigs, alarm, forced>>

-----------------------------------------------------------------------------
(* Stopping, flushing and removing an entry *)

\* stop_proc; P_KILLED is set before the signals are sent.  With "0" goes the
\* pid for which cmd_stop makes the connection wait.
cmd_stop(n, ret, pid) ==
  LET i == First(find_by_name(n))
      pc == procs[i]
  IN  /\ \/ /\ find_by_name(n) = {} /\ ret = "ENOENT" /\ pid = 0
            /\ UNCHANGED procs
         \/ /\ find_by_name(n) # {} /\ ~Alive(pc) /\ ret = "EAGAIN" /\ pid = 0
            /\ UNCHANGED procs
         \/ /\ find_by_name(n) # {} /\ Alive(pc)
            /\ procs' = [procs EXCEPT ![i].flags = @ \cup {P_KILLED}]
            /\ IF kid[pc.pid].st = "free"
               THEN ret = "ESRCH" /\ pid = 0
               ELSE ret = "0" /\ pid = pc.pid
      /\ UNCHANGED <<hub, topvars, nprocs, nalive, kernvars, forced, lost>>

\* flush_proc: flush_ring_buf has nothing to drop without a buffer
cmd_flush(n, ret) ==
  LET i == First(find_by_name(n))
  IN  /\ \/ /\ find_by_name(n) = {} /\ ret = "ENOENT"
            /\ UNCHANGED procs
         \/ /\ find_by_name(n) # {} /\ ~procs[i].buf /\ ret = "ENODATA"
            /\ UNCHANGED procs
         \/ /\ find_by_name(n) # {} /\ procs[i].buf /\ ret = "0"
            /\ procs' = [procs EXCEPT ![i].buf = FALSE]
      /\ UNCHANGED <<hub, topvars, nprocs, nalive, kernvars, forced, lost>>

\* remove_proc; wiping the entry forgets an fd that is still open
cmd_remove(n, ret) ==
  LET i == First(find_by_name(n))
      pc == procs[i]
  IN  /\ \/ /\ find_by_name(n) = {} /\ ret = "ENOENT"
            /\ UNCHANGED <<procs, leaked>>
         \/ /\ find_by_name(n) # {} /\ pc.pid # 0 /\ P_STATUS \notin pc.flags /\ ret = "EBUSY"
            /\ UNCHANGED <<procs, leaked>>
         \/ /\ find_by_name(n) # {} /\ (pc.pid = 0 \/ P_STATUS \in pc.flags)
            /\ IF ~pc.buf
               THEN ret = "ENODATA" /\ UNCHANGED <<procs, leaked>>
               ELSE /\ ret = "0"
                    /\ procs' = [procs EXCEPT ![i] = Empty]
                    /\ leaked' = IF pc.fd = OPEN THEN leaked \cup {i} ELSE leaked
      /\ UNCHANGED <<hub, topvars, nprocs, nalive, kid, sigs, alarm, pipe, forced, lost>>

-----------------------------------------------------------------------------
(* Shutdown *)

\* stop_all_procs with stop_con_shell: SIGTERM to every service and to the
\* running script; the kill of a process that is gone fails
stop_all_procs(k, scr) ==
  LET hit == {i \in 1..nprocs : Alive(procs[i]) /\ k[procs[i].pid].st # "free"}
  IN  /\ procs' = [i \in Slots |-> IF i \in hit
                                   THEN [procs[i] EXCEPT !.flags = @ \cup {P_KILLED}]
                                   ELSE procs[i]]
      /\ kid' = k
      /\ scrpid' = IF scr \in Pids /\ k[scr].st = "free" THEN 0 ELSE scr

\* mutant of begin_stop: the alarm is left to the first SIGCHLD
begin_stop_unarmed(mode, k, scr) ==
  /\ state' = S_STOPPING
  /\ rbmode' = mode
  /\ sigcnt' = 0
  /\ stop_all_procs(k, scr)
  /\ alarm' = alarm

\* command_stop, past its check for a stop already under way
begin_stop(mode, k, scr) ==
  /\ state' = S_STOPPING
  /\ rbmode' = mode
  /\ sigcnt' = 0
  /\ stop_all_procs(k, scr)
  /\ alarm' = TRUE

\* command_stop called by cmd_reboot, cmd_shutdown, cmd_poweroff
cmd_reboot(mode, ret) ==
  /\ \/ /\ state \in {S_STOPPING, S_SHUTDOWN}
        /\ ret = "EALREADY"
        /\ UNCHANGED <<state, rbmode, sigcnt, scrpid, procs, kid, alarm>>
     \/ /\ state \notin {S_STOPPING, S_SHUTDOWN}
        /\ ret = "0"
        /\ begin_stop(mode, kid, scrpid)
  /\ UNCHANGED <<hub, ctlfd, nprocs, nalive, sigs, pipe, leaked, forced, lost>>

\* spawn_script: access() fails, or another script runs, or fork() does or
\* fails.  fork failures are fatal, the other two are the caller's to judge:
\* busy is the main loop's next place.
spawn_script(what, k, scr, busy) ==
  \/ /\ what \in Absent \/ scr \in Pids
     /\ hub' = busy /\ scrpid' = scr /\ kid' = k
  \/ /\ "nofork" \in Env /\ scr \notin Pids
     /\ hub' = "failed" /\ scrpid' = scr /\ kid' = k
  \/ /\ scr \notin Pids
     /\ \E p \in Pids :
        /\ k[p].st = "free"
        /\ scrpid' = p
        /\ kid' = [k EXCEPT ![p] = Run(what)]
     /\ hub' = IF hub = "reap" /\ what = "shell" THEN "reap" ELSE "poll"

\* spawn_shutdown: only the listening socket is closed, connections stay
spawn_shutdown(k, scr) ==
  /\ state' = S_SHUTDOWN
  /\ ctlfd' = CLOSED
  /\ spawn_script(IF rbmode = "none" THEN "failure" ELSE "shutdown", k, scr, "failed")

\* force_shutdown: SIGKILL, and the entries forget their pids without being
\* taken off nalive
force_shutdown ==
  LET hit == {i \in 1..nprocs : Alive(procs[i])}
  IN  /\ procs' = [i \in Slots |-> IF i \in hit THEN [procs[i] EXCEPT !.pid = 0] ELSE procs[i]]
      /\ forced' = forced + Cardinality(hit)
      /\ spawn_shutdown(Kill(kid, {procs[i].pid : i \in hit} \cup ({scrpid} \cap Pids)),
                        IF scrpid \in Pids THEN -1 ELSE scrpid)
      /\ UNCHANGED <<rbmode, nprocs, nalive, connvars, pipe, leaked, lost>>

\* handle_alarm
handle_alarm ==
  /\ hub = "poll" /\ "ALRM" \in sigs
  /\ sigs' = sigs \ {"ALRM"}
  /\ \/ /\ state # S_STOPPING
        /\ UNCHANGED <<hub, topvars, tabvars, connvars, kid, alarm, pipe, leaked, forced, lost>>
     \/ /\ state = S_STOPPING /\ sigcnt < RETRIES
        /\ sigcnt' = sigcnt + 1
        /\ alarm' = TRUE
        /\ UNCHANGED <<hub, state, rbmode, scrpid, ctlfd, tabvars, connvars, kid, pipe, leaked, forced, lost>>
     \/ /\ state = S_STOPPING /\ sigcnt >= RETRIES
        /\ sigcnt' = 0
        /\ force_shutdown
        /\ UNCHANGED alarm

\* signal_stop, called by check_signal: a second signal does not wait for the
\* alarm, a third gives up
signal_stop(s) ==
  /\ hub = "poll"
  /\ \/ /\ state = S_STOPPING
        /\ force_shutdown
        /\ UNCHANGED <<sigcnt, sigs, alarm>>
     \/ /\ state = S_SHUTDOWN
        /\ hub' = "failed"
        /\ UNCHANGED <<topvars, tabvars, connvars, kid, sigs, alarm, pipe, leaked, forced, lost>>
     \/ /\ state \notin {S_STOPPING, S_SHUTDOWN}
        /\ begin_stop(IF s = "PWR" THEN "poweroff" ELSE "reboot", kid, scrpid)
        /\ UNCHANGED <<hub, ctlfd, nprocs, nalive, connvars, sigs, pipe, leaked, forced, lost>>

-----------------------------------------------------------------------------
(* Reaping: check_children *)

\* mutant of told: every client is told of every death
told_all(p) == {c \in 1..nconns : conns[c].fd = OPEN}

\* mutant of told: proc_died takes the pid after mark_stopped zeroed it
told_zero(p) == {c \in 1..nconns : conns[c].pid = 0 /\ conns[c].fd = OPEN}

\* the connections notify_dead writes REP_DIED to
told(p) == {c \in 1..nconns : conns[c].pid = p /\ conns[c].fd = OPEN}

\* mutant of notify_dead: proc_died takes the pid after mark_stopped zeroed it
notify_zero(p) ==
  /\ conns' = conns
  /\ waiting' = [c \in Conns |-> IF conns[c].pid = 0 THEN 0 ELSE waiting[c]]

\* notify_dead: REP_DIED to every connection waiting for p; the send to a
\* client that hung up fails and closes the connection
notify_dead(p) ==
  \E gone \in SUBSET told(p) :
     /\ conns' = [c \in Conns |-> IF c \in gone THEN [fd |-> CLOSED, pid |-> 0] ELSE conns[c]]
     /\ waiting' = [c \in Conns |-> IF c \in told(p) THEN 0 ELSE waiting[c]]

\* mutant of close_proc: the descriptor is left to the next spawn
close_later(pc) == pc

close_proc(pc) == [pc EXCEPT !.fd = CLOSED]

\* mutant of mark_died: the status is stored, the flag is not set
mark_died_noflag(pc, s) == [pc EXCEPT !.pid = s]

\* mark_died; the time has been updated by ran_long_enough
mark_died(pc, s) == [pc EXCEPT !.pid = s, !.flags = @ \cup {P_STATUS}]

\* mutant of death: the respawn rule is looked at before P_KILLED
death_respawn_first(pc, s) ==
  CASE P_ONCE \in pc.flags /\ s = 0                       -> "gone"
    [] P_ONCE \notin pc.flags /\ pc.old                   -> "respawn"
    [] OTHER -> IF P_KILLED \in pc.flags THEN "stopped" ELSE "died"

\* what the death of its process with status s makes of an entry
death(pc, s) ==
  CASE P_KILLED \in pc.flags                              -> "stopped"
    [] P_KILLED \notin pc.flags /\ P_ONCE \in pc.flags    -> IF s = 0 THEN "gone" ELSE "died"
    [] P_KILLED \notin pc.flags /\ P_ONCE \notin pc.flags -> IF pc.old THEN "respawn" ELSE "died"

\* proc_died for entry i, whose process p left status s
proc_died(i, p, s) ==
  LET k == [kid EXCEPT ![p] = NoKid]
      end == death(procs[i], s)
      now == [close_proc(procs[i]) EXCEPT !.old = FALSE]
      left == CASE end = "stopped" -> [now EXCEPT !.flags = @ \ {P_KILLED}, !.pid = 0]
                [] end = "gone"    -> Empty
                [] OTHER           -> mark_died(now, s)
  IN  /\ lost' = [lost EXCEPT ![i] = @ \/ (procs[i].fd = OPEN /\ pipe[i].data)]
      /\ IF end = "respawn"
         THEN \E ret \in {"0", "EACCES"} : spawn_path(i, now, left, k, nalive - 1, ret)
         ELSE /\ procs' = [procs EXCEPT ![i] = left]
              /\ nalive' = nalive - 1
              /\ kid' = k
              /\ pipe' = [pipe EXCEPT ![i] = NoPipe]
              /\ UNCHANGED leaked
      /\ IF end = "stopped" THEN notify_dead(p) ELSE UNCHANGED <<conns, waiting>>
      /\ UNCHANGED <<hub, topvars, nprocs, nconns, sigs, alarm, forced>>

\* script_exit, with startup_done, shutdown_exit and shell_exit
script_exit(p, s) ==
  LET k == [kid EXCEPT ![p] = NoKid]
  IN  /\ \/ /\ state = S_STARTUP /\ s # 0
            /\ hub' = "failed" /\ state' = S_UNKNOWN /\ scrpid' = 0 /\ kid' = k
            /\ UNCHANGED <<rbmode, sigcnt, procs, alarm>>
         \/ /\ state = S_STARTUP /\ s = 0
            /\ state' = S_RUNNING
            /\ spawn_script("shell", k, 0, "reap")
            /\ UNCHANGED <<rbmode, sigcnt, procs, alarm>>
         \/ /\ state = S_SHUTDOWN
            /\ hub' = "failed" /\ state' = S_UNKNOWN /\ scrpid' = 0 /\ kid' = k
            /\ UNCHANGED <<rbmode, sigcnt, procs, alarm>>
         \/ /\ state = S_RUNNING
            /\ begin_stop("none", k, 0)
            /\ UNCHANGED hub
         \/ /\ state \in {S_UNKNOWN, S_STOPPING}
            /\ state' = S_UNKNOWN /\ scrpid' = 0 /\ kid' = k
            /\ UNCHANGED <<hub, rbmode, sigcnt, procs, alarm>>
      /\ UNCHANGED <<ctlfd, nprocs, nalive, connvars, sigs, pipe, leaked, forced, lost>>

\* SIGCHLD read from the signalfd: check_children starts its loop
check_children ==
  /\ hub = "poll" /\ "CHLD" \in sigs
  /\ sigs' = sigs \ {"CHLD"}
  /\ hub' = "reap"
  /\ UNCHANGED <<topvars, tabvars, connvars, kid, alarm, pipe, leaked, forced, lost>>

\* one iteration: waitpid returns some dead child
reap_one(p) ==
  /\ hub = "reap" /\ kid[p].st = "zombie"
  /\ \/ /\ p = scrpid
        /\ script_exit(p, kid[p].status)
     \/ /\ p # scrpid /\ find_by_pid(p) # {}
        /\ proc_died(First(find_by_pid(p)), p, kid[p].status)
     \/ /\ p # scrpid /\ find_by_pid(p) = {}
        /\ kid' = [kid EXCEPT ![p] = NoKid]
        /\ UNCHANGED <<hub, topvars, tabvars, connvars, sigs, alarm, pipe, leaked, forced, lost>>

\* mutant of all_gone: the services are not asked about
all_gone_script == scrpid \notin Pids

\* the test at the end of check_children
all_gone == nalive = 0 /\ scrpid \notin Pids

\* the end of check_children: no dead child is left
reap_done ==
  /\ hub = "reap" /\ \A p \in Pids : kid[p].st # "zombie"
  /\ \/ /\ ~all_gone
        /\ hub' = "poll"
        /\ UNCHANGED <<state, scrpid, ctlfd, kid>>
     \/ /\ all_gone /\ state = S_SHUTDOWN
        /\ hub' = "failed"
        /\ UNCHANGED <<state, scrpid, ctlfd, kid>>
     \/ /\ all_gone /\ state # S_SHUTDOWN
        /\ spawn_shutdown(kid, scrpid)
  /\ UNCHANGED <<rbmode, sigcnt, tabvars, connvars, sigs, alarm, pipe, leaked, forced, lost>>

-----------------------------------------------------------------------------
(* Output pipes and connections *)

\* check_proc on an entry whose own pipe holds data, or (through a stale key)
\* does not: the possible buffer, "the fd was closed", "unread data is left".
\* At most RINGSIZE bytes are read.  A failed mmap or readv closes the fd.
check_proc(pc, data, hup) ==
  {r \in [buf : BOOLEAN, drop : BOOLEAN, left : BOOLEAN] :
     \/ /\ "nomem" \in Env /\ ~pc.buf
        /\ r = [buf |-> FALSE, drop |-> TRUE, left |-> data]
     \/ /\ r.buf
        /\ r.left => data
        /\ CASE pc.fd = OPEN   -> r.drop = (~data /\ ~hup)
             [] pc.fd = CLOSED -> r.drop
             [] OTHER          -> TRUE}

\* process_proc for the events IN and, with any other bit, HUP: check_proc,
\* then close_proc.  The key of a pipe that outlived its entry still names
\* the slot, and brings its events to whatever is there now.
process_proc(i) ==
  LET pc == procs[i]
      own == IF pc.fd = OPEN THEN pipe[i] ELSE NoPipe
  IN  /\ hub = "poll" /\ i <= nprocs
      /\ \E in \in BOOLEAN, hup \in BOOLEAN :
         /\ in \/ hup
         /\ i \in leaked \/ (in = own.data /\ hup = own.hup)
         /\ \E r \in IF in THEN check_proc(pc, own.data, own.hup)
                  ELSE {[buf |-> pc.buf, drop |-> FALSE, left |-> own.data]} :
            LET drop == r.drop \/ hup
            IN  /\ procs' = [procs EXCEPT ![i].buf = r.buf, ![i].fd = IF drop THEN CLOSED ELSE @]
                /\ pipe' = [pipe EXCEPT ![i] = IF drop THEN NoPipe ELSE [@ EXCEPT !.data = r.left]]
                /\ lost' = [lost EXCEPT ![i] = @ \/ (drop /\ r.left)]
      /\ UNCHANGED <<hub, topvars, nprocs, nalive, connvars, kid, sigs, alarm, leaked, forced>>

\* check_socket with grab_conn_slot; with no slot left the client is dropped
grab_conn_slot ==
  LET unused == {c \in 1..nconns : conns[c].fd = CLOSED}
  IN  IF unused # {} THEN First(unused) ELSE nconns + 1

check_socket ==
  LET c == grab_conn_slot
  IN  /\ hub = "poll" /\ ctlfd = OPEN /\ c <= NCONNS
      /\ conns' = [conns EXCEPT ![c].fd = OPEN]
      /\ nconns' = IF c > nconns THEN c ELSE nconns
      /\ UNCHANGED <<hub, topvars, tabvars, waiting, kernvars, forced, lost>>

\* close_conn for connection c
drop_conn(c) ==
  /\ conns' = [conns EXCEPT ![c] = [fd |-> CLOSED, pid |-> 0]]
  /\ waiting' = [waiting EXCEPT ![c] = 0]
  /\ UNCHANGED nconns

\* process_conn without EPOLLIN: the client went away
close_conn(c) ==
  /\ hub = "poll" /\ c <= nconns /\ conns[c].fd = OPEN
  /\ drop_conn(c)
  /\ UNCHANGED <<hub, topvars, tabvars, kernvars, forced, lost>>

\* check_conn: a client may send any command over an open connection, with
\* "late" in Env even one that outlived the control socket
may_send(c) ==
  /\ hub = "poll" /\ c <= nconns /\ conns[c].fd = OPEN
  /\ "late" \in Env \/ state # S_SHUTDOWN

\* the end of check_conn: the reply is sent, after cmd_stop the connection has
\* a pid to wait for.  If the client is gone the send fails, and the
\* connection is closed.
reply(c, pid) ==
  \/ /\ conns' = IF pid = 0 THEN conns ELSE [conns EXCEPT ![c].pid = pid]
     /\ waiting' = IF pid = 0 THEN waiting ELSE [waiting EXCEPT ![c] = pid]
     /\ UNCHANGED nconns
  \/ drop_conn(c)

StartErrors == {"0", "EINVAL", "EBUSY", "ENOMEM", "EACCES"}

Start(c) ==
  may_send(c) /\ \E n \in Names, fl \in Kinds, r \in StartErrors : cmd_start(n, fl, r) /\ reply(c, 0)
Stop(c) ==
  /\ may_send(c)
  /\ \E n \in Names, r \in {"0", "ENOENT", "EAGAIN", "ESRCH"}, p \in Pids \cup {0} :
       cmd_stop(n, r, p) /\ reply(c, p)
Flush(c) ==
  may_send(c) /\ \E n \in Names, r \in {"0", "ENOENT", "ENODATA"} : cmd_flush(n, r) /\ reply(c, 0)
Remove(c) ==
  may_send(c) /\ \E n \in Names, r \in {"0", "ENOENT", "EBUSY", "ENODATA"} : cmd_remove(n, r) /\ reply(c, 0)
Reboot(c) ==
  may_send(c) /\ \E m \in Modes, r \in {"0", "EALREADY"} : cmd_reboot(m, r) /\ reply(c, 0)

-----------------------------------------------------------------------------
(* The kernel and the children *)

Up == hub \in {"poll", "reap"}

\* the entry, if any, whose pipe p writes to
PipeOf(p) == {i \in 1..nprocs : Alive(procs[i]) /\ procs[i].pid = p /\ procs[i].fd = OPEN}

KidDies(p) ==
  /\ Up /\ kid[p].st = "run"
  /\ \E s \in Statuses :
     /\ kid[p].killed => s # 0
     /\ kid' = [kid EXCEPT ![p].st = "zombie", ![p].status = s, ![p].killed = FALSE]
  /\ pipe' = [i \in Slots |-> IF i \in PipeOf(p) /\ kid[p].what = "svc"
                              THEN [pipe[i] EXCEPT !.hup = TRUE] ELSE pipe[i]]
  /\ sigs' = sigs \cup {"CHLD"}
  /\ UNCHANGED <<hub, topvars, tabvars, connvars, alarm, leaked, forced, lost>>

\* a process nobody waits for is reparented to pid 1 and dies
OrphanDies(p) ==
  /\ "orphan" \in Env
  /\ Up /\ kid[p].st = "free"
  /\ kid' = [kid EXCEPT ![p] = [NoKid EXCEPT !.st = "zombie", !.what = "orphan"]]
  /\ sigs' = sigs \cup {"CHLD"}
  /\ UNCHANGED <<hub, topvars, tabvars, connvars, alarm, pipe, leaked, forced, lost>>

\* a running service writes to its pipe, or closes it
KidWrites(i) ==
  /\ "output" \in Env
  /\ Up /\ Alive(procs[i]) /\ procs[i].fd = OPEN /\ kid[procs[i].pid].st = "run"
  /\ ~pipe[i].hup
  /\ \/ pipe' = [pipe EXCEPT ![i].data = TRUE]
     \/ pipe' = [pipe EXCEPT ![i].hup = TRUE]
  /\ UNCHANGED <<hub, topvars, tabvars, connvars, kid, sigs, alarm, leaked, forced, lost>>

\* more than 10 seconds have passed since pc->time, which takes a wait in epoll;
\* only proc_died of an entry that may be respawned asks
Tick(i) ==
  /\ hub = "poll" /\ Alive(procs[i]) /\ ~procs[i].old
  /\ procs[i].flags \cap {P_KILLED, P_ONCE} = {}
  /\ procs' = [procs EXCEPT ![i].old = TRUE]
  /\ UNCHANGED <<hub, topvars, nprocs, nalive, connvars, kernvars, forced, lost>>

AlarmFires ==
  /\ Up /\ alarm
  /\ alarm' = FALSE
  /\ sigs' = sigs \cup {"ALRM"}
  /\ UNCHANGED <<hub, topvars, tabvars, connvars, kid, pipe, leaked, forced, lost>>

\* the shutdown script calls reboot(2)
Halt(p) ==
  /\ Up /\ kid[p].st = "run" /\ kid[p].what \in {"shutdown", "failure"}
  /\ hub' = "halted"
  /\ UNCHANGED <<topvars, tabvars, connvars, kernvars, forced, lost>>

Ended == hub \in {"failed", "halted"}

\* nothing runs after pid 1 is gone or the machine is down
AllStopped == Ended /\ UNCHANGED vars

-----------------------------------------------------------------------------

\* main: the socket is open and start_script has just forked
Init ==
  /\ hub = "poll"
  /\ state = S_STARTUP /\ rbmode = "none" /\ sigcnt = 0 /\ ctlfd = OPEN
  /\ nprocs = 0 /\ nalive = 0 /\ procs = [i \in Slots |-> Empty]
  /\ nconns = 0 /\ conns = [c \in Conns |-> [fd |-> 0, pid |-> 0]]
  /\ scrpid \in Pids
  /\ kid = [p \in Pids |-> IF p = scrpid THEN Run("startup") ELSE NoKid]
  /\ sigs = {} /\ alarm = FALSE
  /\ pipe = [i \in Slots |-> NoPipe] /\ leaked = {}
  /\ waiting = [c \in Conns |-> 0] /\ forced = 0 /\ lost = [i \in Slots |-> FALSE]

ClientStep(c) == Start(c) \/ Stop(c) \/ Flush(c) \/ Remove(c) \/ Reboot(c) \/ close_conn(c)

HubStep ==
  \/ check_children
  \/ \E p \in Pids : reap_one(p)
  \/ reap_done
  \/ handle_alarm
  \/ \E s \in Signals : signal_stop(s)
  \/ \E i \in Slots : process_proc(i)
  \/ check_socket

KernelStep ==
  \/ \E p \in Pids : KidDies(p) \/ OrphanDies(p) \/ Halt(p)
  \/ \E i \in Slots : KidWrites(i) \/ Tick(i)
  \/ AlarmFires

Next == (\E c \in Conns : ClientStep(c)) \/ HubStep \/ KernelStep \/ AllStopped

Spec == Init /\ [][Next]_vars

\* What the liveness properties assume.  epoll_wait returns one event at a
\* time and takes ready descriptors in turn, and read(2) on the signalfd gives
\* the lowest pending signal, so a pending SIGALRM or SIGCHLD is handled even
\* if other handlers run in between (strong fairness: the loop is not in epoll
\* while it reaps).  Only a SIGKILLed child must die.
Fairness ==
  /\ SF_vars(handle_alarm)
  /\ SF_vars(check_children)
  /\ WF_vars(\E p \in Pids : reap_one(p))
  /\ WF_vars(reap_done)
  /\ WF_vars(AlarmFires)
  /\ \A p \in Pids : WF_vars(kid[p].killed /\ KidDies(p))

LiveSpec == Spec /\ Fairness

-----------------------------------------------------------------------------
(* Properties *)

AliveSlots == {i \in Slots : Alive(procs[i])}

TopType ==
  /\ hub \in {"poll", "reap", "failed", "halted"}
  /\ state \in 0..4 /\ rbmode \in {"none", "reboot", "poweroff"} \cup Modes
  /\ scrpid \in Pids \cup {0, -1} /\ sigcnt \in 0..RETRIES /\ ctlfd \in {OPEN, CLOSED}

ProcType ==
  [name : Names \cup {""}, pid : Pids \cup Statuses, fd : {OPEN, CLOSED, 0}, old : BOOLEAN,
   flags : SUBSET {P_IN_USE, P_KILLED, P_STATUS, P_ONCE, P_PASS}, buf : BOOLEAN]

TabType ==
  /\ nprocs \in 0..NPROCS /\ nalive \in 0..NPROCS + forced /\ forced \in Nat
  /\ procs \in [Slots -> ProcType]

ConnType ==
  /\ nconns \in 0..NCONNS
  /\ conns \in [Conns -> [fd : {OPEN, CLOSED, 0}, pid : Pids \cup {0}]]
  /\ waiting \in [Conns -> Pids \cup {0}]

KidType ==
  [st : {"free", "run", "zombie"}, killed : BOOLEAN, status : Statuses,
   what : {"none", "svc", "startup", "shell", "shutdown", "failure", "orphan"}]

KernType ==
  /\ kid \in [Pids -> KidType]
  /\ sigs \subseteq {"CHLD", "ALRM"} /\ alarm \in BOOLEAN
  /\ pipe \in [Slots -> [data : BOOLEAN, hup : BOOLEAN]] /\ leaked \subseteq Slots
  /\ lost \in [Slots -> BOOLEAN]

\* Types: no index runs past its table, no counter leaves its range.
TypeOK == TopType /\ TabType /\ ConnType /\ KernType

\* nalive, on which check_children bases the decision to shut down, counts the
\* entries that have a process, and the services force_shutdown gave up on.  This and
\* the properties below hold as long as fork() does not fail: when it fails in the
\* respawn of a service, spawn_path returns 0, and the entry keeps the pid of the
\* process that has just been reaped.  No run has "nofork", the theorems have ForkWorks.
NaliveExact == nalive = Cardinality(AliveSlots) + forced

\* The table and the kernel agree: every entry with a process names a service
\* that has not been reaped, no two the same one and none the script, even
\* though a dead entry keeps a wait status where the pid was; and every service
\* not reaped is named by an entry, unless force_shutdown has disowned it.
ChildrenTracked ==
  /\ \A i \in AliveSlots :
     LET p == procs[i].pid
     IN  /\ p \in Pids /\ p # scrpid
         /\ kid[p].st # "free" /\ kid[p].what = "svc"
         /\ \A j \in AliveSlots : procs[j].pid = p => i = j
  /\ forced = 0 =>
     \A p \in Pids : kid[p].what = "svc" => \E i \in AliveSlots : procs[i].pid = p

\* No lost wakeup: while a client waits for the end of the process it stopped,
\* an entry still has that process and the mark that makes proc_died notify.
StopWait ==
  forced = 0 =>
  \A c \in Conns : waiting[c] # 0 =>
     /\ conns[c].pid = waiting[c]
     /\ \E i \in AliveSlots : procs[i].pid = waiting[c] /\ P_KILLED \in procs[i].flags

\* start_proc never makes a second entry of the same name.
NamesUnique ==
  \A i, j \in Slots : procs[i].name # "" /\ procs[i].name = procs[j].name => i = j

\* An unused slot holds no open pipe, and unless force_shutdown has left pipes
\* behind every epoll key belongs to the entry it was made for.
KeysValid ==
  forced = 0 =>
     /\ leaked = {}
     /\ \A i \in Slots : procs[i].fd = OPEN => Alive(procs[i])

\* A service that was told to stop is not respawned when it dies: its entry's
\* pid only ever goes to 0.
StoppedStaysDown ==
  [][\A i \in Slots :
       Alive(procs[i]) /\ P_KILLED \in procs[i].flags /\ procs'[i].pid # procs[i].pid
       => procs'[i].pid = 0]_vars

\* Unless it is forced, the shutdown script starts only when no service runs.
ShutdownOrder ==
  [][state # S_SHUTDOWN /\ state' = S_SHUTDOWN /\ forced' = 0
     => \A p \in Pids : kid[p].what # "svc"]_vars

\* Once stopping with no script around, svchub gets to the shutdown script even
\* if services ignore SIGTERM, or new ones are started meanwhile.
StopGetsDone ==
  (state = S_STOPPING /\ scrpid \notin Pids) ~> (state = S_SHUTDOWN \/ Ended)

\* A client that stopped a service is told, or disconnected, after it has died.
StopNotified ==
  \A c \in Conns, p \in Pids :
    (waiting[c] = p /\ kid[p].st = "zombie") ~> (waiting[c] # p \/ forced > 0 \/ Ended)

\* doc/startup.txt: "When commanded to shut down, svchub kills all the services,
\* waits for them to die, and spawns /base/etc/boot/shutdown".
StopAlwaysGetsDone == state = S_STOPPING ~> (state = S_SHUTDOWN \/ Ended)

\* doc/startup.txt: "svchub captures their output into a short ring buffer".
OutputCaptured == \A i \in Slots : ~lost[i]
=============================================================================
