-------------------------------- MODULE IfMon ---------------------------------
(***************************************************************************)
(* ifmon and its clients.  ifmon keeps a table of network interfaces and   *)
(* runs scripts for them (identify, mode-*, stop-*, poke-*, and the DHCP   *)
(* client), one at a time for each interface.  What has to run next is     *)
(* kept in flags of the entry; the flags are set by kernel events, by      *)
(* commands of ifctl and by the exit of the script before.  ifctl sets a   *)
(* mode or stops an interface and waits for the report on the script.      *)
(*                                                                         *)
(* ifmon runs a poll loop: ppoll takes a snapshot of what is ready, the    *)
(* sources are handled in a fixed order (netlink, the control socket,      *)
(* signals, connections), and then check_links spawns what is due.         *)
(***************************************************************************)
EXTENDS Integers, Sequences, FiniteSets, FiniteSetsExt

CONSTANTS
  Ifis,       \* interface indexes, positive integers
  Ignored,    \* those of loopback and point-to-point interfaces
  NLINKS,     \* slots for interfaces
  NCONNS,     \* slots for connections
  Clients,    \* runs of ifctl
  Commands,   \* what ifctl may be asked for
  Modes,      \* profile names
  LinkStates, \* states an interface may get into: "down", "up", "run", "gone"
  Outcomes,   \* how spawn may end: "ok", or an error, "ENOENT" or "EAGAIN"
  Statuses,   \* exit statuses of scripts
  NPIDS,      \* bound on processes alive at a time
  QLEN,       \* packets a socket holds before its writer has to wait
  RUNS,       \* bound on the runs of ifctl altogether
  EVENTS      \* bound on the changes of interfaces altogether

Pids == 1..NPIDS
Scripts == {"IDEF", "MODE", "STOP", "DHCP", "POKE"}
Need == [MODE |-> "NEED_MODE", STOP |-> "NEED_STOP", DHCP |-> "NEED_DHCP",
         POKE |-> "NEED_POKE"]
Flags == {"ENABLED", "CARRIER", "MARKED", "AUTO_DHCP", "RUNNING", "FAILED"}
           \cup {Need[w] : w \in DOMAIN Need}

\* every interface of the table may have a process, and fork() gives another
ASSUME IfAssumption ==
  /\ NLINKS \in Nat /\ NCONNS \in Nat /\ NPIDS \in Nat /\ NLINKS < NPIDS
  /\ Commands \subseteq {"mode", "also", "identify", "stop", "auto_dhcp", "stop_dhcp", "reconnect", "kill"}
  /\ "nobody" \notin Clients

VARIABLES
  alive,    \* the ifmon process
  links,    \* ctx->links, slot -> entry
  nlinks,   \* ctx->nlinks
  conns,    \* ctx->conns, slot -> connection
  nconns,   \* ctx->nconns
  polled,   \* slots of the connections polled in this pass, not closed since
  ready,    \* sources with events that are not handled yet in this pass
  at,       \* the link check_links has come to, 0 outside of it
  kid,      \* pid -> script process
  kern,     \* the state of each interface in the kernel
  ev,       \* link messages in the netlink socket
  events,   \* changes of interfaces so far
  backlog,  \* clients not accepted yet
  cl,       \* the clients
  runs,     \* runs of ifctl so far
  inbox,    \* packets sent to each client
  dropped   \* history: interfaces stopped or dropped since their mode was set

daemon == <<links, nlinks, polled, ready, at, dropped>>
sockets == <<conns, nconns, cl, inbox>>
kernel == <<kern, ev, events>>
clients == <<backlog, runs>>
vars == <<alive, daemon, sockets, kid, kernel, clients>>

None == ""   \* no mode, command or request
NoLink == [ifi |-> 0, pid |-> 0, what |-> "IDEF", flags |-> {}, mode |-> None]
Nobody == "nobody"
NoConn == [fd |-> Nobody, ifi |-> 0]
NoKid == [st |-> "none", ifi |-> 0, what |-> "IDEF", told |-> FALSE]
NoClient == [at |-> "off", cmd |-> None, ifi |-> 0, mode |-> None, req |-> None]

\* the sources of a pass, in the order check_polled_fds handles them
RTNL == 1
CTRL == 2
SIGNALS == 3
CONN(s) == 3 + s

(* The process table *)

Spawned(p, i, w) ==
  [kid EXCEPT ![p] = [NoKid EXCEPT !.st = "run", !.ifi = i, !.what = w]]

free_pids == {p \in Pids : kid[p].st = "none"}

\* kill(pid, TERM, INT or HUP): each of them ends what it is sent to, at
\* once or a little later; only the DHCP client would not end otherwise.
\* Pid 0 is the process group of ifmon itself.
sys_kill(p) ==
  /\ alive' = (p # 0)
  /\ kid' = [q \in Pids |-> IF q = p /\ kid[p].st = "run" /\ kid[p].what = "DHCP"
                           THEN [kid[q] EXCEPT !.told = TRUE] ELSE kid[q]]

(* The table of links *)

Slots(n) == 1..n
find_link_slot(i) == {s \in Slots(nlinks) : links[s].ifi = i}
slot_of(i) == Min(find_link_slot(i))

\* the first marked link after slot k, 0 if there is none
NextMarked(ls, n, k) ==
  LET M == {s \in Slots(n) : s > k /\ "MARKED" \in ls[s].flags}
  IN  IF M = {} THEN 0 ELSE Min(M)

\* a source is done, and with it connection slot s (0: none), which need not
\* be found again; after the last source check_links begins
Done(done, s) ==
  /\ ready' = ready \ done
  /\ polled' = IF ready' = {} THEN {} ELSE polled \ {s}
  /\ at' = IF ready' = {} THEN NextMarked(links', nlinks', 0) ELSE 0

Handled(src) == Done({src}, 0)

Turn(src) == alive /\ at = 0 /\ ready # {} /\ Min(ready) = src

Raise(l, fs) == [l EXCEPT !.flags = @ \cup fs]
Clear(l, fs) == [l EXCEPT !.flags = @ \ fs]

(* Scripts *)

dhcp_running(l) == "RUNNING" \in l.flags /\ l.what = "DHCP"

clear_link_mode(l) == Clear([l EXCEPT !.mode = None], {"CARRIER"})

\* spawn: the entry if it gave process p
spawn(l, p) == Raise([l EXCEPT !.pid = p], {"RUNNING"})

set_current_script(l, w) == Clear([l EXCEPT !.what = w], {"RUNNING"})

spawn_identify(l, r, p) ==
  LET m == set_current_script(l, "IDEF") IN IF r = "ok" THEN spawn(m, p) ELSE m

spawn_mode(l, r, p) ==
  LET m == set_current_script(l, "MODE")
  IN  IF r = "ok" THEN spawn(m, p) ELSE Raise(m, {"FAILED"})

\* r is the outcome of stop-MODE or, if there is none, of the common script;
\* without either the link is stopped at once
spawn_stop(l, r, p) ==
  LET m == set_current_script(l, "STOP")
  IN  CASE r = "ok" -> spawn(m, p)
        [] r = "ENOENT" -> clear_link_mode(m)
        [] OTHER -> m

spawn_dhcp(l, r, p) ==
  LET m == set_current_script(l, "DHCP") IN IF r = "ok" THEN spawn(m, p) ELSE m

spawn_poke(l, r, p) ==
  LET m == set_current_script(l, "POKE") IN IF r = "ok" THEN spawn(m, p) ELSE m

can_run(l, w) == {"RUNNING", "FAILED"} \cap l.flags = {} /\ Need[w] \in l.flags

(* Connections *)

Connected(c) == c \in backlog \/ \E s \in Slots(nconns) : conns[s].fd = c

\* mutant of close_conn's new count: open connections are cut off
close_conn_all(D) == IF nconns \in D THEN 0 ELSE nconns

\* close_conn for the slots D: the count after it, down to the last open one
close_conn(D) ==
  IF nconns \in D
  THEN Max({0} \cup {s \in Slots(nconns) \ D : conns[s].fd # Nobody})
  ELSE nconns

\* a packet cannot be delivered: the client is gone, or does not read for
\* as long as uc_wait_writable waits
Undeliverable(c) == cl[c].at = "gone" \/ Len(inbox[c]) >= QLEN

\* what remains of a client when ifmon closes its connection
Closed(c) == IF cl[c].at = "gone" THEN NoClient ELSE [cl[c] EXCEPT !.req = None]

\* mutant of report_to: connections registered for an interface are not told
report_to_first(i) ==
  {s \in Slots(nconns) : conns[s].ifi = i /\ conns[s].fd # Nobody /\ s = 1}

\* the connections send_report writes to
report_to(i) == {s \in Slots(nconns) : conns[s].ifi = i /\ conns[s].fd # Nobody}

\* send_report: the packet m about interface i; connections it cannot be
\* delivered to are closed
send_report(i, m) ==
  LET S == report_to(i)
      D == {s \in S : Undeliverable(conns[s].fd)}
      Has(c, T) == \E s \in T : conns[s].fd = c
  IN  /\ conns' = [s \in DOMAIN conns |->
                     IF s \in D THEN [conns[s] EXCEPT !.fd = Nobody] ELSE conns[s]]
      /\ nconns' = close_conn(D)
      /\ inbox' = [c \in Clients |->
                     IF Has(c, S \ D) THEN Append(inbox[c], m) ELSE inbox[c]]
      /\ cl' = [c \in Clients |-> IF Has(c, D) THEN Closed(c) ELSE cl[c]]

\* packets: a reply, or a report on the mode or the stop script, which may
\* say that the script failed
Reply(code) == [rep |-> code, bad |-> FALSE]
REP(w, failed) == [rep |-> w, bad |-> failed]
Replies == {"0", "active", "err"}

(* Polling *)

\* ppoll: what is readable, or hung up, now
ppoll ==
  /\ alive /\ ready = {} /\ at = 0
  /\ ready' = (IF ev # <<>> THEN {RTNL} ELSE {})
       \cup (IF backlog # {} THEN {CTRL} ELSE {})
       \cup (IF \E p \in Pids : kid[p].st = "zombie" THEN {SIGNALS} ELSE {})
       \cup {CONN(s) : s \in {t \in Slots(nconns) :
               /\ conns[t].fd # Nobody
               /\ \/ cl[conns[t].fd].req # None
                  \/ cl[conns[t].fd].at = "gone"}}
  /\ ready' # {}
  /\ polled' = {s \in Slots(nconns) : conns[s].fd # Nobody}
  /\ UNCHANGED <<alive, links, nlinks, at, dropped, sockets, kid, kernel, clients>>

(* SIGCHLD *)

\* mutant of script_exit: only failures and stops are looked at
script_exit_unmarked(l, status) ==
  LET f == IF l.what = "MODE" /\ status # 0 THEN Raise(l, {"FAILED"}) ELSE l
  IN  IF l.what = "STOP" THEN clear_link_mode(f) ELSE f

script_exit(l, status) ==
  LET f == IF l.what = "MODE" /\ status # 0 THEN Raise(l, {"FAILED"}) ELSE l
  IN  IF l.what = "STOP" THEN clear_link_mode(f) ELSE Raise(f, {"MARKED"})

find_link_pid(p) == {s \in Slots(nlinks) : "RUNNING" \in links[s].flags /\ links[s].pid = p}

\* an entry whose process has been waited for.  The exit status left in
\* ls->pid is only shown to the user; it is 0 here.
collected(l) == Clear([l EXCEPT !.pid = 0], {"RUNNING"})

\* one turn of the loop in got_sigchld, which ends when there are no more
\* zombies.  A script that dies meanwhile is still reaped in the loop; the
\* signal left pending then only makes for an empty pass.
reap(p, status) ==
  /\ Turn(SIGNALS)
  /\ kid[p].st = "zombie"
  /\ kid' = [kid EXCEPT ![p] = NoKid]
  /\ IF find_link_pid(p) = {}
     THEN UNCHANGED <<links, sockets>>
     ELSE LET s == Min(find_link_pid(p))
              l == collected(links[s])
          IN  /\ links' = [links EXCEPT ![s] = script_exit(l, status)]
              /\ IF l.what \in {"MODE", "STOP"}
                 THEN send_report(l.ifi, REP(l.what, status # 0))
                 ELSE UNCHANGED sockets
  /\ UNCHANGED <<nlinks, dropped>>
  /\ IF \E q \in Pids : kid'[q].st = "zombie" THEN UNCHANGED <<polled, ready, at>> ELSE Handled(SIGNALS)
  /\ UNCHANGED <<alive, kernel, clients>>

(* check_links *)

\* one link: spawns what is due, in this order, until a script runs.  r holds
\* the outcomes of the attempts, p the pid of the script that starts.
Due(l) == {w \in DOMAIN Need : can_run(l, w)}
Attempt(l, w, r, p) ==
  IF ~can_run(l, w) THEN l
  ELSE LET m == Clear(l, {Need[w]})
       IN  CASE w = "MODE" -> spawn_mode(m, r[w], p)
             [] w = "STOP" -> spawn_stop(m, r[w], p)
             [] w = "POKE" -> spawn_poke(m, r[w], p)
             [] w = "DHCP" -> spawn_dhcp(m, r[w], p)

check_links ==
  /\ alive /\ at # 0
  /\ LET l == links[at] IN
     \E p \in {Min(free_pids)}, r \in [Due(l) -> Outcomes] :
       LET m == Attempt(Attempt(Attempt(Attempt(l,
                  "MODE", r, p), "STOP", r, p), "POKE", r, p), "DHCP", r, p)
           w == IF can_run(l, "MODE") THEN "MODE" ELSE "STOP"
       IN  /\ links' = [links EXCEPT ![at] = Clear(m, {"MARKED"})]
           /\ kid' = IF Due(l) # {} /\ "RUNNING" \in m.flags
                     THEN Spawned(p, l.ifi, m.what) ELSE kid
           /\ IF can_run(l, w) /\ r[w] # "ok"
              THEN send_report(l.ifi, REP(w, w = "MODE" \/ r[w] # "ENOENT"))
              ELSE UNCHANGED sockets
  /\ at' = NextMarked(links, nlinks, at)
  /\ UNCHANGED <<alive, nlinks, polled, ready, dropped, kernel, clients>>

(* Netlink *)

Up(state) == state \in {"up", "run"}
Running(state) == state = "run"

\* a new interface: takes a slot, if there is one, and is to be identified
new_link_notification(i, state) ==
  IF nlinks >= NLINKS
  THEN UNCHANGED <<links, nlinks, kid>>
  ELSE \E p \in {Min(free_pids)}, r \in Outcomes :
         LET l == Raise([NoLink EXCEPT !.ifi = i],
                    (IF Up(state) THEN {"ENABLED"} ELSE {})
                      \cup (IF Running(state) THEN {"CARRIER"} ELSE {}))
         IN  /\ nlinks' = nlinks + 1
             /\ links' = [links EXCEPT ![nlinks + 1] = spawn_identify(l, r, p)]
             /\ kid' = IF r = "ok" THEN Spawned(p, i, "IDEF") ELSE kid

carrier_rise(l) ==
  IF "AUTO_DHCP" \in l.flags THEN Raise(l, {"NEED_DHCP", "MARKED"}) ELSE l

\* and a running DHCP client is sent SIGHUP
carrier_fall(l) == Clear(l, {"NEED_DHCP"})

link_state_changed(l, state) ==
  LET was(f) == f \in l.flags
      n == Raise(Clear(l, {"CARRIER", "ENABLED"}),
             (IF Up(state) THEN {"ENABLED"} ELSE {})
               \cup (IF Running(state) THEN {"CARRIER"} ELSE {}))
      e == IF ~was("ENABLED") /\ Up(state) THEN Raise(n, {"NEED_POKE", "MARKED"}) ELSE n
      r == IF ~was("CARRIER") /\ Running(state) THEN carrier_rise(e) ELSE e
  IN  IF was("CARRIER") /\ ~Running(state) THEN carrier_fall(r) ELSE r

\* handle_rtnl, with one link message
msg_new_link ==
  /\ Turn(RTNL)
  /\ ev # <<>> /\ Head(ev).state # "gone"
  /\ LET i == Head(ev).ifi  state == Head(ev).state IN
     CASE i \in Ignored -> UNCHANGED <<alive, links, nlinks, kid>>
       [] i \notin Ignored /\ find_link_slot(i) = {} ->
            new_link_notification(i, state) /\ UNCHANGED alive
       [] OTHER ->
            LET s == slot_of(i)  l == links[s] IN
            /\ links' = [links EXCEPT ![s] = link_state_changed(l, state)]
            /\ IF "CARRIER" \in l.flags /\ ~Running(state) /\ dhcp_running(l)
               THEN sys_kill(l.pid) ELSE UNCHANGED <<alive, kid>>
            /\ UNCHANGED nlinks
  /\ ev' = Tail(ev)
  /\ Handled(RTNL)
  /\ UNCHANGED <<dropped, sockets, kern, events, clients>>

\* the test is on finding the link: a known one is kept, and for any other
\* the handler goes on with a null pointer
msg_del_link ==
  /\ Turn(RTNL)
  /\ ev # <<>> /\ Head(ev).state = "gone"
  /\ alive' = (find_link_slot(Head(ev).ifi) # {})
  /\ ev' = Tail(ev)
  /\ UNCHANGED <<links, nlinks, dropped>>
  /\ Handled(RTNL)
  /\ UNCHANGED <<sockets, kid, kern, events, clients>>

(* Control connections *)

\* grab_conn_slot: the first closed slot, or one more
grab_conn_slot ==
  LET F == {s \in Slots(nconns) : conns[s].fd = Nobody}
  IN  IF F # {} THEN Min(F) ELSE nconns + 1

\* one turn of the loop in accept_ctrl, which ends when nobody is left; out
\* of slots, the connection is closed.  A slot keeps the interface of the
\* connection it had before.
accept_one(c) ==
  /\ Turn(CTRL)
  /\ c \in backlog
  /\ backlog' = backlog \ {c}
  /\ LET s == grab_conn_slot IN
     IF s <= NCONNS
     THEN /\ conns' = [conns EXCEPT ![s].fd = c]
          /\ nconns' = Max({nconns, s})
          /\ UNCHANGED cl
     ELSE /\ cl' = [cl EXCEPT ![c] = Closed(c)]
          /\ UNCHANGED <<conns, nconns>>
  /\ UNCHANGED <<links, nlinks, dropped>>
  /\ IF backlog' = {} THEN Handled(CTRL) ELSE UNCHANGED <<polled, ready, at>>
  /\ UNCHANGED <<alive, inbox, kid, kernel, runs>>

\* What a command makes of the link: the entry after it, the reply, whether
\* the running script is sent a signal, and whether the connection is
\* registered for reports on the interface.
Result(l, code, kill, mine) == [ls |-> l, code |-> code, kill |-> kill, mine |-> mine]
Refused(l) == Result(l, "err", FALSE, FALSE)
is_running(l) == "RUNNING" \in l.flags

set_mode(l, mode) ==
  Result(Raise(Clear([l EXCEPT !.mode = mode], {"FAILED"}), {"NEED_MODE", "MARKED"}),
         "0", FALSE, TRUE)

cmd_idmode(l, mode) == IF l.what # "IDEF" THEN Refused(l) ELSE set_mode(l, mode)

cmd_mode(l, mode) ==
  IF l.mode # None \/ is_running(l) THEN Refused(l) ELSE set_mode(l, mode)

cmd_stop(l) ==
  IF l.mode = None THEN Refused(l)
  ELSE Result(Raise(Clear(l, {"FAILED", "AUTO_DHCP", "NEED_MODE"}), {"NEED_STOP", "MARKED"}),
              "0", is_running(l), TRUE)

cmd_kill(l) ==
  IF ~is_running(l) THEN Refused(l) ELSE Result(l, "0", TRUE, FALSE)

cmd_drop(l) ==
  Result(Clear([l EXCEPT !.pid = 0, !.mode = None], {"ENABLED", "CARRIER"}),
         "0", is_running(l), FALSE)

cmd_dhcp_auto(l) ==
  Result(Raise(l, {"AUTO_DHCP", "MARKED"}
                    \cup (IF "CARRIER" \in l.flags THEN {"NEED_DHCP"} ELSE {})),
         "0", FALSE, FALSE)

cmd_dhcp_stop(l) == Result(Clear(l, {"AUTO_DHCP"}), "0", dhcp_running(l), FALSE)

cmd_reconnect(l) ==
  Result(carrier_rise(carrier_fall(l)), "0", dhcp_running(l), FALSE)

\* cmd_status: whether the mode the client asks about is set somewhere
cmd_status(mode) ==
  IF \E s \in Slots(nlinks) : links[s].mode = mode THEN "active" ELSE "0"

dispatch(req, l, mode) ==
  CASE req = "idmode" -> cmd_idmode(l, mode)
    [] req = "mode" -> cmd_mode(l, mode)
    [] req = "stop" -> cmd_stop(l)
    [] req = "kill" -> cmd_kill(l)
    [] req = "drop" -> cmd_drop(l)
    [] req = "dhcp_auto" -> cmd_dhcp_auto(l)
    [] req = "dhcp_stop" -> cmd_dhcp_stop(l)
    [] req = "reconnect" -> cmd_reconnect(l)

\* send_reply to the client of slot s, which is registered for interface i;
\* if it cannot be delivered the connection is closed
send_reply(s, i, code) ==
  LET c == conns[s].fd  lost == Undeliverable(c) IN
  /\ conns' = [conns EXCEPT ![s] = [fd |-> IF lost THEN Nobody ELSE c, ifi |-> i]]
  /\ nconns' = IF lost THEN close_conn({s}) ELSE nconns
  /\ cl' = [cl EXCEPT ![c] = IF lost THEN Closed(c) ELSE [@ EXCEPT !.req = None]]
  /\ inbox' = IF lost THEN inbox ELSE [inbox EXCEPT ![c] = Append(@, Reply(code))]

\* find_conn_for_fd searches on from the slot found last: once it has missed
\* a connection closed earlier in this pass, it is at the end of the table
missed(s) == \E t \in polled : t <= s /\ conns[t].fd = Nobody

\* handle_conn with a request in the socket
handle_conn(s) ==
  /\ Turn(CONN(s))
  /\ ~missed(s)
  /\ cl[conns[s].fd].req # None
  /\ LET q == cl[conns[s].fd] IN
     IF q.req = "status" \/ find_link_slot(q.ifi) = {}
     THEN /\ send_reply(s, conns[s].ifi, IF q.req = "status" THEN cmd_status(q.mode) ELSE "err")
          /\ UNCHANGED <<alive, links, kid, dropped>>
     ELSE LET k == slot_of(q.ifi)
              res == dispatch(q.req, links[k], q.mode)
          IN  /\ links' = [links EXCEPT ![k] = res.ls]
              /\ IF res.kill THEN sys_kill(links[k].pid) ELSE UNCHANGED <<alive, kid>>
              /\ send_reply(s, IF res.mine THEN q.ifi ELSE conns[s].ifi, res.code)
              /\ dropped' = CASE res.code = "err" -> dropped
                              [] res.code = "0" /\ q.req \in {"stop", "drop"} -> dropped \cup {q.ifi}
                              [] res.code = "0" /\ q.req \in {"mode", "idmode"} -> dropped \ {q.ifi}
                              [] OTHER -> dropped
  /\ UNCHANGED nlinks
  /\ Done({CONN(s)}, s)
  /\ UNCHANGED <<kernel, clients>>

\* the client has hung up
hangup(s) ==
  /\ Turn(CONN(s))
  /\ ~missed(s)
  /\ cl[conns[s].fd].req = None
  /\ cl' = [cl EXCEPT ![conns[s].fd] = Closed(conns[s].fd)]
  /\ conns' = [conns EXCEPT ![s].fd = Nobody]
  /\ nconns' = close_conn({s})
  /\ UNCHANGED <<links, nlinks, dropped>>
  /\ Done({CONN(s)}, s)
  /\ UNCHANGED <<alive, inbox, kid, kernel, clients>>

\* this connection and the ones after it are left to the next pass
no_conn(s) ==
  /\ Turn(CONN(s))
  /\ missed(s)
  /\ UNCHANGED <<links, nlinks, dropped>>
  /\ Done({CONN(t) : t \in 1..NCONNS}, 0)
  /\ UNCHANGED <<alive, sockets, kid, kernel, clients>>

(* ifctl *)

Request == [mode |-> "status", also |-> "mode", identify |-> "idmode",
            stop |-> "stop", auto_dhcp |-> "dhcp_auto", stop_dhcp |-> "dhcp_stop",
            reconnect |-> "reconnect",
            kill |-> "kill"]   \* not of ifctl itself, but ifmon has the command

\* ifctl is started with a command: it connects and sends its first request
start_ifctl(c) ==
  /\ alive
  /\ runs < RUNS
  /\ runs' = runs + 1
  /\ cl[c].at = "off"
  /\ \E cmd \in Commands, i \in Ifis, m \in Modes :
       /\ kern[i] \notin {"none", "gone"}
       /\ cl' = [cl EXCEPT ![c] =
                   [at |-> IF cmd = "mode" THEN "status" ELSE "reply",
                    cmd |-> cmd, ifi |-> i,
                    mode |-> IF cmd \in {"mode", "also", "identify"} THEN m ELSE None,
                    req |-> Request[cmd]]]
  /\ backlog' = backlog \cup {c}
  /\ UNCHANGED <<alive, daemon, conns, nconns, inbox, kid, kernel>>

\* ifctl exits; ifmon sees it when it next polls
leave(c) ==
  /\ cl' = [cl EXCEPT ![c] =
              CASE ~(Connected(c) /\ alive) -> NoClient
                [] Connected(c) /\ alive /\ @.req # None -> [@ EXCEPT !.at = "gone", !.cmd = None]
                [] OTHER -> [NoClient EXCEPT !.at = "gone"]]
  /\ inbox' = [inbox EXCEPT ![c] = <<>>]

stay(c, where, req) ==
  /\ cl' = [cl EXCEPT ![c].at = where, ![c].req = req]
  /\ inbox' = [inbox EXCEPT ![c] = Tail(@)]

\* the next request, which fails if ifmon has closed the connection
request(c, where, req) ==
  IF Connected(c) /\ alive THEN stay(c, where, req) ELSE leave(c)

Active == {"status", "reply", "wait", "drop"}

\* recv_reply and what send_check, wait_for_mode, wait_for_stop make of it
recv_reply(c) ==
  /\ cl[c].at \in Active
  /\ inbox[c] # <<>>
  /\ LET q == cl[c]  m == Head(inbox[c]) IN
     \/ /\ q.at # "wait" /\ m.rep \notin Replies
        /\ stay(c, q.at, q.req)
     \/ /\ q.at = "status" /\ m.rep = "0"
        /\ request(c, "reply", "mode")
     \/ /\ q.at = "reply" /\ m.rep = "0" /\ q.cmd \in {"mode", "also", "stop"}
        /\ stay(c, "wait", None)
     \/ /\ q.at = "wait" /\ m.rep # (IF q.cmd = "stop" THEN "STOP" ELSE "MODE")
        /\ stay(c, "wait", None)
     \/ /\ q.at = "wait" /\ q.cmd # "stop" /\ m.rep = "MODE" /\ m.bad
        /\ request(c, "drop", "drop")
     \/ /\ \/ q.at = "status" /\ m.rep \in {"active", "err"}
           \/ q.at = "reply" /\ m.rep = "err"
           \/ q.at = "reply" /\ m.rep = "0" /\ q.cmd \notin {"mode", "also", "stop"}
           \/ q.at = "wait" /\ q.cmd = "stop" /\ m.rep = "STOP"
           \/ q.at = "wait" /\ q.cmd # "stop" /\ m.rep = "MODE" /\ ~m.bad
           \/ q.at = "drop" /\ m.rep \in Replies
        /\ leave(c)
  /\ UNCHANGED <<alive, daemon, conns, nconns, kid, kernel, clients>>

\* end of file, or the user interrupts ifctl
quit_ifctl(c) ==
  /\ cl[c].at \in Active
  /\ leave(c)
  /\ UNCHANGED <<alive, daemon, conns, nconns, kid, kernel, clients>>

\* ifctl finds the connection closed
eof(c) == (~alive \/ ~Connected(c)) /\ inbox[c] = <<>> /\ quit_ifctl(c)

(* The kernel and the scripts *)

link_message(i, state) ==
  /\ events < EVENTS
  /\ events' = events + 1
  /\ kern' = [kern EXCEPT ![i] = state]
  /\ ev' = Append(ev, [ifi |-> i, state |-> state])
  /\ UNCHANGED <<alive, daemon, sockets, kid, clients>>

\* an interface appears, changes its state, goes away
link_event(i) ==
  \E state \in LinkStates \ {kern[i]} :
    /\ kern[i] # "gone"
    /\ kern[i] = "none" => state # "gone"
    /\ link_message(i, state)

\* a script exits
script_ends(p) ==
  /\ kid[p].st = "run"
  /\ kid' = [kid EXCEPT ![p].st = "zombie", ![p].told = FALSE]
  /\ UNCHANGED <<alive, daemon, sockets, kernel, clients>>

Init ==
  /\ alive = TRUE
  /\ links = [s \in 1..NLINKS |-> NoLink] /\ nlinks = 0
  /\ conns = [s \in 1..NCONNS |-> NoConn] /\ nconns = 0
  /\ polled = {} /\ ready = {} /\ at = 0
  /\ kid = [p \in Pids |-> NoKid]
  /\ kern = [i \in Ifis |-> "none"] /\ ev = <<>> /\ events = 0
  /\ backlog = {} /\ runs = 0
  /\ cl = [c \in Clients |-> NoClient]
  /\ inbox = [c \in Clients |-> <<>>]
  /\ dropped = {}

Daemon ==
  \/ ppoll
  \/ msg_new_link
  \/ msg_del_link
  \/ \E c \in Clients : accept_one(c)
  \/ \E p \in Pids, status \in Statuses : reap(p, status)
  \/ \E s \in 1..NCONNS : handle_conn(s) \/ hangup(s) \/ no_conn(s)
  \/ check_links

Next ==
  \/ Daemon
  \/ \E c \in Clients : start_ifctl(c) \/ recv_reply(c) \/ quit_ifctl(c)
  \/ \E i \in Ifis : link_event(i)
  \/ \E p \in Pids : script_ends(p)

Spec == Init /\ [][Next]_vars

\* ifmon runs on; ifctl reads its socket; scripts are short, except for the
\* DHCP client, which ends when it is told to
\* (weak fairness of Moves(k), whose enabling condition is Waits(k); a client has
\* either something to read or the end of its connection)
Short(p) == kid[p].what # "DHCP" \/ kid[p].told
Client(k) == (CHOOSE f \in Bijection(1..Cardinality(Clients), Clients) : TRUE)[k - 1 - NPIDS]
Waits(k) ==
  CASE k = 1 -> ENABLED Daemon
    [] k - 1 \in Pids -> Short(k - 1) /\ ENABLED script_ends(k - 1)
    [] OTHER -> ENABLED (recv_reply(Client(k)) \/ eof(Client(k)))
Moves(k) ==
  CASE k = 1 -> Daemon
    [] k - 1 \in Pids -> Short(k - 1) /\ script_ends(k - 1)
    [] OTHER -> recv_reply(Client(k)) \/ eof(Client(k))
Fairness == \A k \in 1..1 + NPIDS + Cardinality(Clients) : []<>~Waits(k) \/ []<><<Moves(k)>>_vars

LiveSpec == Spec /\ Fairness

(* Properties *)

\* At most one script runs for an interface at a time (src/ifmon/README:117),
\* whatever commands, kernel events and exits come in between.
Serialized ==
  \A p, q \in Pids :
    kid[p].st = "run" /\ kid[q].st = "run" /\ kid[p].ifi = kid[q].ifi => p = q

\* An entry marked as running names the process that runs for its interface,
\* so that its exit is noticed, unless `drop` has cleared the pid.
RunningTracked ==
  \A s \in Slots(nlinks) :
    "RUNNING" \in links[s].flags /\ links[s].pid # 0 =>
      /\ kid[links[s].pid].st # "none"
      /\ kid[links[s].pid].ifi = links[s].ifi
      /\ kid[links[s].pid].what = links[s].what

\* When ifmon goes to sleep no accepted mode is left behind: its script is
\* only still to run if another one runs now, whose exit will wake ifmon up.
ModeNotLost ==
  alive /\ at = 0 /\ ready = {} =>
    \A s \in Slots(nlinks) : "NEED_MODE" \in links[s].flags => "RUNNING" \in links[s].flags

\* Every open connection is within nconns, where poll and reports look.
ConnsCounted ==
  \A s \in 1..NCONNS : conns[s].fd # Nobody => s <= nconns

\* What ifmon knows of its scripts and clients is so: one script at a time for an
\* interface, whose pid it holds, and no connection that poll or a report misses.
LinksSound == Serialized /\ RunningTracked /\ ConnsCounted

Waiting(c, cmds) == cl[c].at = "wait" /\ cl[c].cmd \in cmds

\* A client that waits for its mode script is told of the result, unless the
\* interface has been stopped or dropped by another client meanwhile.
ModeAsked(c, i) == Waiting(c, {"mode", "also"}) /\ cl[c].ifi = i
ModeOver(c, i) == ~Waiting(c, {"mode", "also"}) \/ ~alive \/ i \in dropped
ModeAnswered == \A c \in Clients, i \in Ifis : ModeAsked(c, i) ~> ModeOver(c, i)

\* A stop that will not be carried out: the mode script it interrupted has failed, which
\* keeps every script from running, or a drop has cleared the pid of the script it waits
\* for, whose exit is then not noticed.
StopHangs(i) ==
  \E s \in find_link_slot(i) :
    \/ {"FAILED", "NEED_STOP"} \subseteq links[s].flags
    \/ "RUNNING" \in links[s].flags /\ links[s].pid = 0

\* A client that waits for an interface to be stopped gets the report on it or finds
\* its connection closed, unless the stop hangs.  That it may hang is a defect of
\* the code, and no rare one: cmd_stop sends SIGTERM to the mode script that runs, and
\* a script that dies of it has failed (script_exit and can_run, ifmon_scripts.c:195-196 and 241-242).
StopAsked(c, i) == Waiting(c, {"stop"}) /\ cl[c].ifi = i
StopOver(c, i) == ~Waiting(c, {"stop"}) \/ ~alive \/ StopHangs(i)
StopAnswered == \A c \in Clients, i \in Ifis : StopAsked(c, i) ~> StopOver(c, i)

\* When a new interface has been announced and handled it has its entry, as
\* long as there are no more interfaces than slots (man/ifmon.8:18
\* "Whenever a new interface appears, say eth1, ifmon spawns /etc/net/identify").
Present == {i \in Ifis \ Ignored : kern[i] \notin {"none", "gone"}}
NewLinkSeen ==
  ev = <<>> /\ Cardinality(Present) <= NLINKS =>
    \A i \in Present : find_link_slot(i) # {}
=============================================================================
