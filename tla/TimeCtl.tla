------------------------------ MODULE TimeCtl ------------------------------
(***************************************************************************)
(* tictl and the control side of timed: the connections timed polls, the   *)
(* order in which one wakeup is worked off while clients come and go, the  *)
(* commands, and what tictl makes of the replies.  The service the         *)
(* commands act on is Timed, with answers that take no time.               *)
(*                                                                         *)
(* A client is one run of tictl; it may be interrupted at any time.        *)
(* Sockets take a whole message at once, as the kernel's do with messages  *)
(* of this size.                                                           *)
(***************************************************************************)
EXTENDS Integers, Sequences, FiniteSets, FiniteSetsExt, SequencesExt, TLC

CONSTANTS
  Clients,   \* runs of tictl
  Cases,     \* how timed may be, what tictl is run with, and how often it is interrupted:
             \* [w, run: client -> [cmd, servers], ints]
  NCONNS,    \* slots for connections
  NSERVS,    \* slots for servers
  TXBUF,     \* size of tictl's buffer
  LEFT,      \* what is left of the timer when it is asked for, in seconds
  Times,     \* other times that may be shown
  TICKS      \* bound on what timed does by itself

VARIABLES
  w,         \* timed: the world of Timed, without the clock
  conns,     \* slot -> client, or ""; and nconn
  pp,        \* the wakeup that is being worked off
  cl,        \* client -> its run
  hist       \* bounds, and the servers that must be known

ctl_vars == <<w, conns, pp, cl, hist>>

T == INSTANCE Timed WITH PINGS <- 1, POLLS <- 1, TINY <- 2, STEP <- 4, DELAY <- 0, LATE <- 0, OFF <- 0,
  Addrs <- {}, Commands <- {}, tm <- w.tm, servs <- w.servs, net <- w.net, sig <- FALSE, off <- 0

Slots == 1..NCONNS
Alive == ~w.tm.quit

(***************************************************************************)
(* tictl                                                                   *)
(***************************************************************************)
\* bytes of a request; an overflow leaves nothing to send
request_size(servers) == 4 + Len(servers) * (4 + 8 + 8)

Exit(c, out) == [cl EXCEPT ![c].st = "done", ![c].out = out, ![c].tx = <<>>, ![c].rx = <<>>]

\* find_command, init_socket: the connection is made before the request is sent
Connect(c) ==
  /\ cl[c].st = "new" /\ Alive
  /\ cl' = [cl EXCEPT ![c].st = "connected"]
  /\ pp' = [pp EXCEPT !.backlog = Append(@, c)]
  /\ UNCHANGED <<w, conns, hist>>

\* mutant of send_command: what fits is sent
send_command_cut(c) ==
  LET r == cl[c].run
      n == (TXBUF - 4) \div 20
  IN  [cl EXCEPT ![c].st = "sent", ![c].tx = <<[r EXCEPT !.servers = SubSeq(@, 1, Min({n, Len(@)}))]>>]

send_command(c) ==
  LET r == cl[c].run
  IN  CASE request_size(r.servers) > TXBUF -> Exit(c, [code |-> "ENOBUFS", text |-> <<>>])
        [] cl[c].eof -> Exit(c, [code |-> "EPIPE", text |-> <<>>])
        [] OTHER -> [cl EXCEPT ![c].st = "sent", ![c].tx = <<r>>]
Send(c) ==
  /\ cl[c].st = "connected"
  /\ cl' = send_command(c)
  /\ hist' = IF cl[c].run.cmd = "list" THEN [hist EXCEPT !.must = c :> hist.known @@ @] ELSE hist
  /\ UNCHANGED <<w, conns, pp>>

\* mutant of fmt_dt_int: a full hour is taken for minutes
fmt_dt_loose(dt) ==
  LET day == dt \div 86400 hr == (dt \div 3600) % 24 min == (dt \div 60) % 60
  IN  (IF day # 0 THEN <<<<day, "d">>>> ELSE <<>>) \o (IF hr > 1 THEN <<<<hr, "h">>>> ELSE <<>>)
        \o (IF min # 0 /\ day = 0 THEN <<<<min, "m">>>> ELSE <<>>)
        \o (IF day = 0 /\ hr = 0 THEN <<<<dt % 60, "s">>>> ELSE <<>>)

fmt_dt_int(dt) ==
  LET day == dt \div 86400 hr == (dt \div 3600) % 24 min == (dt \div 60) % 60
  IN  (IF day # 0 THEN <<<<day, "d">>>> ELSE <<>>) \o (IF hr # 0 THEN <<<<hr, "h">>>> ELSE <<>>)
        \o (IF min # 0 /\ day = 0 THEN <<<<min, "m">>>> ELSE <<>>)
        \o (IF day = 0 /\ hr = 0 THEN <<<<dt % 60, "s">>>> ELSE <<>>)

fmt_server(s) == [addr |-> s.addr, is |-> IF s.rtt THEN "rtt" ELSE "not pinged yet"]
fmt_failed(s) == [addr |-> s.addr, is |-> "unreachable"]
Servers(m) == [i \in DOMAIN m.list |-> IF m.list[i].failed THEN fmt_failed(m.list[i]) ELSE fmt_server(m.list[i])]
fmt_current(m) == IF m.addr = "" THEN "No server selected" ELSE m.addr
fmt_wakeup(m) == [after |-> m.failures, time |-> fmt_dt_int(m.left)]

\* what is printed for a reply
Shown(m) ==
  CASE m.code = "PING" -> [code |-> "PING", text |-> Servers(m), next |-> fmt_dt_int(m.left), left |-> m.left]
    [] m.code = "POLL" -> [code |-> "POLL", text |-> fmt_current(m), next |-> fmt_wakeup(m).time, left |-> m.left]
    [] OTHER -> [code |-> m.code, text |-> <<>>]

recv_reply(c) ==
  /\ cl[c].st = "sent" /\ (cl[c].rx # <<>> \/ cl[c].eof)
  /\ cl' = Exit(c, IF cl[c].rx # <<>> THEN Shown(cl[c].rx[1]) ELSE [code |-> "EBADMSG", text |-> <<>>])
  /\ UNCHANGED <<w, conns, pp, hist>>

Interrupt(c) ==
  /\ cl[c].st \in {"connected", "sent"} /\ hist.ints > 0
  /\ cl' = [cl EXCEPT ![c].st = "done", ![c].rx = <<>>]
  /\ hist' = [hist EXCEPT !.ints = @ - 1]
  /\ UNCHANGED <<w, conns, pp>>

(***************************************************************************)
(* timed: connections                                                      *)
(***************************************************************************)
Closed(c) == cl[c].st = "done"

\* nconn is one past the last open slot
clear_client(cs, i) ==
  LET slot == [cs.slot EXCEPT ![i] = ""]
  IN  [slot |-> slot, n |-> Max({0} \cup {j \in Slots : slot[j] # ""})]

grab_conn_slot(cs, c) ==
  LET i == Min({j \in Slots : cs.slot[j] = ""})
  IN  [slot |-> [cs.slot EXCEPT ![i] = c], n |-> Max({i, cs.n})]

\* all that wait are accepted; those there is no slot for are closed
check_control ==
  LET free == Cardinality({j \in Slots : conns.slot[j] = ""})
      yes == SubSeq(pp.backlog, 1, Min({free, Len(pp.backlog)}))
      no == {pp.backlog[i] : i \in {j \in DOMAIN pp.backlog : j > free}}
  IN  /\ conns' = FoldLeft(grab_conn_slot, conns, yes)
      /\ cl' = [c \in Clients |-> IF c \in no THEN [cl[c] EXCEPT !.eof = TRUE, !.tx = <<>>] ELSE cl[c]]

\* events of slot i
POLLIN(i) == conns.slot[i] # "" /\ (cl[conns.slot[i]].tx # <<>> \/ Closed(conns.slot[i]))
POLLHUP(i) == conns.slot[i] # "" /\ Closed(conns.slot[i])
Ready == pp.backlog # <<>> \/ \E i \in 1..conns.n : POLLIN(i)

\* update_poll_fds, ppoll, and check_control at once: the clients that were
\* polled are seen to after that, in the order of their slots
Wakes ==
  /\ Alive /\ pp.at = 0 /\ Ready
  /\ check_control
  /\ pp' = [pp EXCEPT !.at = IF conns.n = 0 THEN 0 ELSE 1, !.n = conns.n, !.backlog = <<>>,
                      !.in = {i \in 1..conns.n : POLLIN(i)}, !.hup = {i \in 1..conns.n : POLLHUP(i)}]
  /\ UNCHANGED <<w, hist>>

(***************************************************************************)
(* timed: commands                                                         *)
(***************************************************************************)
SetSlots(v) == {i \in 1..NSERVS : "SET" \in v.servs[i].flags}
report_ping ==
  LET q == SelectSeq([i \in 1..NSERVS |-> i], LAMBDA i : i \in SetSlots(w))
  IN  [code |-> "PING", left |-> LEFT,
       list |-> [k \in DOMAIN q |-> LET s == w.servs[q[k]]
                 IN  [addr |-> s.addr, failed |-> {"FAIL", "KILL"} \cap s.flags # {}, rtt |-> "RTT" \in s.flags]]]
report_poll ==
  [code |-> "POLL", left |-> LEFT, failures |-> w.tm.failures,
   addr |-> IF w.tm.current = 0 THEN "" ELSE w.servs[w.tm.current].addr]

cmd_status ==
  CASE w.tm.state = "IDLE" -> [code |-> "IDLE"]
    [] w.tm.state = "SELECT" -> [code |-> "SELECT"]
    [] w.tm.state \in {"PING_SENT", "PING_WAIT"} -> report_ping
    [] OTHER -> report_poll

cmd_server(servers) ==
  LET v == FoldLeft(T!check_server, T!wipe_failed(w), servers)
  IN  IF v.tm.state = "IDLE" /\ T!got_usable_servers(v) THEN T!set_timed(v, "SELECT", FALSE) ELSE v

cmd_force ==
  CASE w.tm.state = "IDLE" -> "ENOTCONN"
    [] w.tm.state = "POLL_WAIT" -> "0"
    [] w.tm.state = "SELECT" -> "EFAULT"
    [] OTHER -> "EINPROGRESS"
retriable == {i \in SetSlots(w) : "KILL" \notin w.servs[i].flags}

\* the service after the command, and the reply
dispatch_cmd(r) ==
  CASE r.cmd = "status" -> <<w, cmd_status>>
    [] r.cmd = "list" -> <<w, report_ping>>
    [] r.cmd = "server" -> <<cmd_server(r.servers), [code |-> "0"]>>
    [] r.cmd = "retry" -> <<T!cmd_retry(w), [code |-> IF retriable = {} THEN "ENOENT" ELSE "0"]>>
    [] r.cmd = "reset" -> <<T!cmd_reset(w), [code |-> "0"]>>
    [] r.cmd = "sync" -> <<T!cmd_force(w), [code |-> cmd_force]>>

AddrsOf(v) == {v.servs[i].addr : i \in SetSlots(v)}
\* servers in the table that are not given up
Live(v) == {v.servs[i].addr : i \in {j \in SetSlots(v) : v.servs[j].flags \cap {"FAIL", "KILL"} = {}}}
\* servers timed may forget about
Forget(gone) == [hist EXCEPT !.known = @ \ gone, !.must = [c \in DOMAIN @ |-> @[c] \ gone]]

\* the servers of a request that the table has room for
Given(r) ==
  IF r.cmd = "server" /\ Len(r.servers) <= NSERVS - Cardinality(SetSlots(T!wipe_failed(w)))
  THEN ToSet(r.servers) ELSE {}

\* the request of the client in slot i; a reply to one that is gone is lost
check_client(i) ==
  LET c == conns.slot[i]
      r == cl[c].tx[1]
  IN  \E d \in {dispatch_cmd(r)} :
        /\ w' = d[1]
        /\ cl' = [cl EXCEPT ![c].tx = <<>>, ![c].rx = IF Closed(c) THEN <<>> ELSE <<d[2]>>]
        /\ hist' = [Forget(IF r.cmd = "reset" THEN AddrsOf(w) ELSE {}) EXCEPT !.known = @ \cup Given(r)]

\* the loop of check_polled_fds over the clients
Handle ==
  /\ pp.at # 0
  /\ LET c == conns.slot[pp.at]
     IN  /\ IF pp.at \in pp.in /\ cl[c].tx # <<>> THEN check_client(pp.at) ELSE UNCHANGED <<w, cl, hist>>
         /\ conns' = IF pp.at \in pp.hup THEN clear_client(conns, pp.at) ELSE conns
  /\ pp' = IF pp.at < pp.n THEN [pp EXCEPT !.at = @ + 1] ELSE [pp EXCEPT !.at = 0, !.n = 0, !.in = {}, !.hup = {}]

(***************************************************************************)
(* timed by itself: a timeout, or an answer of the server                  *)
(***************************************************************************)
Tick(v) == w' = v /\ hist' = [Forget(Live(w) \ Live(v)) EXCEPT !.ticks = @ + 1] /\ UNCHANGED <<conns, pp, cl>>
Timeout ==
  /\ Alive /\ pp.at = 0 /\ w.tm.state # "IDLE" /\ hist.ticks < TICKS
  /\ \E sent \in BOOLEAN :
       Tick(T!handle_timeout([w EXCEPT !.tm.tistate = IF @ = "ARMED" THEN "CLEAR" ELSE @, !.tm.alarm = FALSE], sent))
Answer ==
  /\ Alive /\ pp.at = 0 /\ hist.ticks < TICKS
  /\ \E m \in w.net, kind \in {"time", "kiss", "unsync"} :
       /\ T!recv_packet(w, m) /\ T!valid_packet(w, m)
       /\ Tick(T!maybe_close_socket(T!handle_packet([w EXCEPT !.tm.ref = FALSE], kind, 0, 0)))

Init ==
  /\ conns = [slot |-> [i \in Slots |-> ""], n |-> 0]
  /\ pp = [at |-> 0, n |-> 0, in |-> {}, hup |-> {}, backlog |-> <<>>]
  /\ \E x \in Cases :
       /\ w = x.w
       /\ cl = [c \in Clients |-> [st |-> "new", run |-> x.run[c], tx |-> <<>>, rx |-> <<>>, eof |-> FALSE,
                                 out |-> [code |-> "", text |-> <<>>]]]
       /\ hist = [ticks |-> 0, ints |-> x.ints, known |-> Live(x.w), must |-> [c \in {} |-> {}]]

Next ==
  \/ \E c \in Clients : Connect(c) \/ Send(c) \/ recv_reply(c) \/ Interrupt(c)
  \/ Wakes \/ Handle
  \/ Timeout \/ Answer

Spec == Init /\ [][Next]_ctl_vars

(***************************************************************************)
(* Properties                                                              *)
(***************************************************************************)
\* No client is forgotten: a connection that is open is in one slot, and in one ppoll
\* looks at; when nothing wakes timed, every client has its reply or none was asked for.
ClientsSeen ==
  /\ \A i, j \in Slots : conns.slot[i] # "" /\ conns.slot[i] = conns.slot[j] => i = j
  /\ pp.at = 0 => \A i \in Slots : conns.slot[i] # "" => i <= conns.n
  /\ Alive /\ pp.at = 0 /\ ~Ready => \A c \in Clients : cl[c].st = "sent" => cl[c].rx # <<>> \/ cl[c].eof

\* The table: no server is in it twice, the one in use stays whatever tictl does, and
\* what tictl list shows has every server that was given (to a table with room) before
\* the list was asked for and that timed did not give up since.
ServersListed ==
  /\ \A i, j \in SetSlots(w) : w.servs[i].addr = w.servs[j].addr => i = j
  /\ T!CurrentUsable
  /\ \A c \in Clients : cl[c].run.cmd = "list" /\ cl[c].out.code = "PING" /\ c \in DOMAIN hist.must =>
       /\ hist.must[c] \subseteq {cl[c].out.text[k].addr : k \in DOMAIN cl[c].out.text}
       /\ \A k, l \in DOMAIN cl[c].out.text : cl[c].out.text[k].addr = cl[c].out.text[l].addr => k = l
\* tictl says that servers were taken only if all it was given were sent.
AllSent ==
  \A c \in Clients : cl[c].tx # <<>> \/ cl[c].out.code = "0" => request_size(cl[c].run.servers) <= TXBUF

\* The time tictl shows is that of the timer, rounded down to what it shows.
Unit == [d |-> 86400, h |-> 3600, m |-> 60, s |-> 1]
ReadBack(f) == FoldLeft(LAMBDA t, x : t + x[1] * Unit[x[2]], 0, f)
Rounds(t, f) ==
  /\ ReadBack(f) <= t
  /\ t - ReadBack(f) < (IF t < 3600 THEN 1 ELSE IF t < 86400 THEN 60 ELSE 3600)
TimeShown ==
  /\ \A c \in Clients : cl[c].out.code \in {"PING", "POLL"} => Rounds(cl[c].out.left, cl[c].out.next)
  /\ (\A c \in Clients : cl[c].st = "new") => \A t \in Times : Rounds(t, fmt_dt_int(t))

ControlRight == ClientsSeen /\ ServersListed /\ AllSent /\ TimeShown
=============================================================================
