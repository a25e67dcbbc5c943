-------------------------------- MODULE DhConf --------------------------------
(***************************************************************************)
(* dhconf, the DHCP client for one interface: obtains a lease, configures  *)
(* the address, runs scripts with the options it got, renews the lease and *)
(* gives it back.  One process with a poll loop over a signalfd (timer,    *)
(* children, the user) and a raw socket that is closed while nothing is    *)
(* expected.                                                               *)
(*                                                                         *)
(* Around it: servers, which answer or do not, over a network that loses   *)
(* packets, and the kernel, which drops an address when its lifetime ends. *)
(* Times are kept as time left, so that behaviours need no end.            *)
(***************************************************************************)
EXTENDS Integers, Sequences, FiniteSets

CONSTANTS
  Servers,   \* each offers one address, which is named after it
  LEASE,     \* lease time, at least 2
  RETRY,     \* the timer of send_discover, send_request and send_renew
  AGAIN,     \* the timer of renew_timeout, 60 in the code
  MARGIN,    \* 10*60 in renew_timeout; LEASE is larger
  SHORT,     \* 10 in set_timer: from here on the socket is closed
  DISCOVERS, \* 5 in timeout_waiting
  REQUESTS,  \* 3 in timeout_waiting
  Options,   \* entries of scripts[] whose option is in the lease, out of 1..3
  Files,     \* the scripts in /etc/net
  Orders,    \* signals the user may send, out of SIGHUP, SIGINT, SIGTERM
  DELAY,     \* how long an answer may take
  PACKETS,   \* bound on answers on the way
  QUEUE      \* bound on answers waiting in the raw socket

SIGHUP == 1
SIGINT == 2
SIGALRM == 14
SIGTERM == 15
SIGCHLD == 17

\* What the proofs need to know about the constants.  The times are those of
\* the code or larger than none, options are the three of run_next_script, and
\* an answer that is delivered came within the second after it was sent.
Setting ==
  /\ LEASE \in Nat /\ LEASE >= 2 /\ MARGIN \in Nat /\ SHORT \in Nat
  /\ RETRY \in Nat \ {0} /\ AGAIN \in Nat \ {0} /\ DELAY \in Nat \ {0}
  /\ DISCOVERS \in Nat /\ REQUESTS \in Nat
  /\ Options \subseteq 1..3
  /\ Orders \subseteq {1, 2, 15}
  /\ Servers \cap {"none", "client"} = {}

VARIABLES
  dh,       \* the process: ctx, its timer and its socket
  revents,  \* what the last ppoll reported and is not handled yet
  signals,  \* signals pending in the signalfd
  net,      \* packets on the way
  addr,     \* the address on the interface, and for how long it is valid
  leases    \* server -> time left of the lease it has given to this host

dhcp_vars == <<dh, revents, signals, net, addr, leases>>

None == "none"
NoAddr == [ip |-> None, left |-> 0]
Holding == {"LEASED", "RENEWING"}

\* What a handler works on: the process, packets sent, and the address.
World == [dh |-> dh, net |-> net, addr |-> addr]
Apply(w) == \E v \in {w} : dh' = v.dh /\ net' = v.net /\ addr' = v.addr
Set(w, f, v) == [w EXCEPT !.dh[f] = v]

quit(w, why) == Set(w, "end", why)
Running(w) == w.dh.end = None

set_state(w, s) ==
  LET v == [w EXCEPT !.dh.state = s, !.dh.count = 0]
  IN  IF v.dh.timeact THEN [v EXCEPT !.dh.timer = 0, !.dh.timeact = FALSE] ELSE v

close_raw_socket(w) == [w EXCEPT !.dh.raw = FALSE, !.dh.sock = <<>>]

set_timer(w, sec) ==
  LET v == [w EXCEPT !.dh.timer = sec, !.dh.timeact = TRUE]
  IN  IF sec < SHORT THEN v ELSE close_raw_socket(v)

\* broadcast, through the socket reopened if need be
send_raw_packet(w, type) ==
  [w EXCEPT !.dh.raw = TRUE,
            !.net = @ \cup {[type |-> type, to |-> s, srv |-> w.dh.srv, late |-> FALSE] : s \in Servers}]

send_discover(w) == set_timer(send_raw_packet(w, "DISCOVER"), RETRY)
send_request(w) == set_timer(send_raw_packet(w, "REQUEST"), RETRY)
send_renew(w) == set_timer(send_raw_packet(w, "RENEW"), RETRY)

(* The interface *)

\* mutant of add_ip_address: the address is valid for ever
add_ip_forever(w) == [w EXCEPT !.addr = [ip |-> w.dh.srv, left |-> 2 * LEASE]]

\* replaces the lifetime of an address that is there already
add_ip_address(w) == [w EXCEPT !.addr = [ip |-> w.dh.srv, left |-> LEASE]]

deconf_iface(w) == [w EXCEPT !.addr = IF @.ip = w.dh.srv THEN NoAddr ELSE @]

(* Scripts: ctx->script is the number of entries of scripts[] tried *)

\* run_gw_script, run_dns_script and run_ntp_script; the last one runs dhcp-dns
script_file == <<"dhcp-gw", "dhcp-dns", "dhcp-dns">>

\* the entries that start something: the option is there and so is the file
Present == {i \in Options : script_file[i] \in Files}

next_script(w) ==
  CHOOSE i \in Present : i > w.dh.script /\ \A j \in Present : j > w.dh.script => i <= j

run_next_script(w) ==
  IF \A i \in Present : i <= w.dh.script THEN Set(w, "script", 3)
  ELSE LET i == next_script(w)
       IN  [w EXCEPT !.dh.script = i, !.dh.pid = i, !.dh.fed = @ \cup {i}]

\* fed, the entries run with the options of this lease, is a history variable
proceed_with_scripts(w) ==
  LET v == [w EXCEPT !.dh.script = 0] IN
  IF v.dh.pid # 0 THEN v ELSE run_next_script(v)

(* The lease *)

lease_obtained(w) ==
  proceed_with_scripts(add_ip_address(set_timer([w EXCEPT !.dh.fed = {}], LEASE \div 2)))

lease_renewed(w) == add_ip_address(set_timer(w, LEASE \div 2))

\* mutant of retry_discover: the address stays
retry_configured(w) == send_discover(set_state(w, "DISCOVER"))

retry_discover(w) == send_discover(set_state(deconf_iface(w), "DISCOVER"))

time_to_renew(w) ==
  IF w.dh.age >= LEASE THEN retry_discover(w) ELSE send_renew(set_state(w, "RENEWING"))

renew_timeout(w) ==
  IF w.dh.age > LEASE - MARGIN THEN retry_discover(w)
  ELSE set_timer(Set(w, "state", "LEASED"), AGAIN)

\* the second test also holds for ST_DISCOVER
gives_up(s, n) == (s = "DISCOVER" /\ n >= DISCOVERS) \/ n >= REQUESTS

\* mutant of timeout_waiting: attempts are not counted
timeout_uncounted(w) ==
  LET s == w.dh.state IN
  CASE s = "LEASED" -> time_to_renew(w)
    [] s = "RENEWING" -> renew_timeout(w)
    [] s = "DISCOVER" -> send_discover(w)
    [] s = "REQUEST" -> send_request(w)

timeout_waiting(w) ==
  LET s == w.dh.state  v == Set(w, "count", w.dh.count + 1) IN
  CASE s = "LEASED" -> time_to_renew(v)
    [] s = "RENEWING" -> renew_timeout(v)
    [] s \notin Holding /\ gives_up(s, w.dh.count) -> quit(v, "ETIMEDOUT")
    [] s = "DISCOVER" /\ ~gives_up(s, w.dh.count) -> send_discover(v)
    [] s = "REQUEST" /\ ~gives_up(s, w.dh.count) -> send_request(v)

release_address(w) ==
  IF w.dh.state \in Holding
  THEN set_state(send_raw_packet(w, "RELEASE"), "RELEASED") ELSE w

(* Packets *)

check_offer(w, m) ==
  IF m.type # "OFFER" THEN w
  ELSE set_state([w EXCEPT !.dh.srv = m.srv, !.dh.age = 0], "REQUEST")

check_acknak(w, m) ==
  CASE m.srv # w.dh.srv -> w
    [] m.srv = w.dh.srv /\ m.type = "NAK" -> quit(w, "lease NAK")
    [] m.srv = w.dh.srv /\ m.type = "ACK" -> set_state(w, "LEASED")
    [] OTHER -> w

check_newack(w, m) ==
  CASE m.srv # w.dh.srv -> w
    [] m.srv = w.dh.srv /\ m.type = "NAK" -> set_state(w, "DECONF")
    [] m.srv = w.dh.srv /\ m.type = "ACK" -> set_state(w, "LEASED")
    [] OTHER -> w

handle_packet(w, m) ==
  CASE w.dh.state = "DISCOVER" -> check_offer(w, m)
    [] w.dh.state = "REQUEST" -> check_acknak(w, m)
    [] w.dh.state = "RENEWING" -> check_newack(w, m)
    [] OTHER -> w

next_action(w, s0) ==
  LET s1 == w.dh.state IN
  CASE s1 = "REQUEST" -> send_request(w)
    [] s1 = "LEASED" /\ s0 = "REQUEST" -> lease_obtained(w)
    [] s1 = "LEASED" /\ s0 = "RENEWING" -> lease_renewed(w)
    [] s1 = "DECONF" -> retry_discover(w)

\* a socket closed since ppoll gives an error here
recv_incoming(w) ==
  IF ~w.dh.raw THEN quit(w, "recv")
  ELSE IF w.dh.sock = <<>> THEN w
  ELSE LET v == handle_packet([w EXCEPT !.dh.sock = Tail(@)], Head(w.dh.sock))
       IN  IF v.dh.state = w.dh.state \/ ~Running(v) THEN v ELSE next_action(v, w.dh.state)

(* The poll loop *)

poll ==
  /\ Running(World) /\ revents = {}
  /\ revents' = (IF signals # {} THEN {"signal"} ELSE {})
                  \cup (IF dh.sock # <<>> THEN {"packet"} ELSE {})
  /\ revents' # {}
  /\ UNCHANGED <<dh, signals, net, addr, leases>>

handle_signal(w, sig) ==
  CASE sig = SIGALRM -> timeout_waiting(Set(w, "timeact", FALSE))
    [] sig = SIGCHLD -> run_next_script(Set(w, "pid", 0))
    [] sig = SIGINT -> quit(deconf_iface(release_address(w)), "SIGINT")
    [] sig = SIGHUP -> quit(deconf_iface(w), "SIGHUP")
    [] sig = SIGTERM -> quit(w, "SIGTERM")

\* one read of the signalfd gives the pending signal with the lowest number
check_signals ==
  /\ Running(World) /\ "signal" \in revents
  /\ \E sig \in signals :
       /\ \A s \in signals : sig <= s
       /\ Apply(handle_signal(World, sig))
       /\ signals' = signals \ {sig}
  /\ revents' = revents \ {"signal"}
  /\ UNCHANGED leases

check_incoming ==
  /\ Running(World) /\ revents = {"packet"}
  /\ Apply(recv_incoming(World))
  /\ revents' = {}
  /\ UNCHANGED <<signals, leases>>

(* The world around *)

Script_ends ==
  /\ dh.pid # 0 /\ SIGCHLD \notin signals /\ Running(World)
  /\ signals' = signals \cup {SIGCHLD}
  /\ UNCHANGED <<dh, revents, net, addr, leases>>

Order(sig) ==
  /\ Running(World)
  /\ signals' = signals \cup {sig}
  /\ UNCHANGED <<dh, revents, net, addr, leases>>

\* a server gets a packet, keeps its lease accordingly and may answer (of no
\* interest once dhconf is gone)
Server(s) ==
  \E m \in net :
    /\ m.to = s /\ Running(World)
    /\ Cardinality({q \in net : q.to = "client"}) < PACKETS
    /\ \E answer \in CASE m.type = "DISCOVER" -> {"OFFER"}
                       [] m.type = "REQUEST" /\ m.srv = s -> {"ACK", "NAK"}
                       [] m.type = "RENEW" /\ m.srv = s /\ leases[s] > 0 -> {"ACK", "NAK"}
                       [] m.type = "RENEW" /\ m.srv # s -> {"NAK"}
                       [] OTHER -> {None} :
         /\ net' = (net \ {m}) \cup (IF answer = None THEN {}
                     ELSE {[type |-> answer, to |-> "client", srv |-> s, late |-> FALSE]})
         /\ leases' = [leases EXCEPT ![s] =
                         CASE answer = "ACK" -> LEASE + DELAY
                           [] m.type = "RELEASE" /\ m.srv = s -> 0
                           [] OTHER -> @]
    /\ UNCHANGED <<dh, revents, signals, addr>>

Deliver ==
  \E m \in net :
    /\ m.to = "client" /\ Running(World)
    /\ Len(dh.sock) < QUEUE
    /\ net' = net \ {m}
    /\ dh' = IF dh.raw THEN [dh EXCEPT !.sock = Append(@, m)] ELSE dh
    /\ UNCHANGED <<revents, signals, addr, leases>>

\* a second passes; dhconf has handled what there was; answers may still
\* come in the next second, everything else on the way is lost
Tick ==
  /\ Running(World) => revents = {} /\ signals = {} /\ dh.sock = <<>>
  /\ dh' = [dh EXCEPT !.timer = IF @ = 0 THEN 0 ELSE @ - 1, !.age = IF @ < LEASE THEN @ + 1 ELSE @]
  /\ signals' = IF dh.timer = 1 THEN signals \cup {SIGALRM} ELSE signals
  /\ addr' = IF addr.left <= 1 THEN NoAddr ELSE [addr EXCEPT !.left = @ - 1]
  /\ leases' = [s \in Servers |-> IF leases[s] = 0 THEN 0 ELSE leases[s] - 1]
  /\ net' = {[m EXCEPT !.late = TRUE] : m \in {q \in net : q.to = "client" /\ ~q.late}}
  /\ UNCHANGED revents

\* main: start_discover
Init ==
  LET w == send_discover(set_state(
             [dh |-> [state |-> None, count |-> 0, timer |-> 0, timeact |-> FALSE,
                      raw |-> TRUE, sock |-> <<>>, srv |-> None, age |-> 0,
                      script |-> 0, pid |-> 0, fed |-> {}, end |-> None],
              net |-> {}, addr |-> NoAddr], "DISCOVER"))
  IN  /\ dh = w.dh /\ net = w.net /\ addr = w.addr
      /\ revents = {} /\ signals = {}
      /\ leases = [s \in Servers |-> 0]

Daemon == poll \/ check_signals \/ check_incoming

Next ==
  \/ Daemon
  \/ Script_ends
  \/ \E sig \in Orders : Order(sig)
  \/ \E s \in Servers : Server(s)
  \/ Deliver
  \/ Tick

Spec == Init /\ [][Next]_dhcp_vars

\* the process runs, scripts are short, and time passes: the weak fairness of
\* Moves(k), whose enabling condition is Waits(k)
Waits(k) ==
  CASE k = 1 -> Running(World) /\ (revents # {} \/ signals # {} \/ dh.sock # <<>>)
    [] k = 2 -> ENABLED Script_ends
    [] k = 3 -> ENABLED <<Tick>>_dhcp_vars
Moves(k) ==
  CASE k = 1 -> Daemon
    [] k = 2 -> Script_ends
    [] k = 3 -> Tick
Fairness == \A k \in 1..3 : []<>~Waits(k) \/ []<><<Moves(k)>>_dhcp_vars

LiveSpec == Spec /\ Fairness

(* Properties *)

\* While dhconf runs, an address on the interface is the one of the lease it
\* holds: rediscovery, a NAK or another server's offer leave none behind.
AddrIsOurs ==
  Running(World) /\ addr # NoAddr => dh.state \in Holding /\ addr.ip = dh.srv

\* The interface never has an address whose lease has run out at its server,
\* but for the time the answer took, even if dhconf has been killed or could
\* not renew it.
AddrLeased == addr # NoAddr => leases[addr.ip] > 0

\* Whenever dhconf goes to sleep a timer will wake it up, so that it neither
\* waits for an answer nor misses a renewal for ever.
Watched ==
  Running(World) /\ revents = {} => dh.timer > 0 \/ SIGALRM \in signals

\* Told to stop by SIGINT or SIGHUP, dhconf leaves no address behind
\* (man/dhconf.1).
LeftClean == dh.end \in {"SIGINT", "SIGHUP"} => addr = NoAddr

\* An attempt to get a lease ends, with a lease or an error.
Trying == dh.state \in {"DISCOVER", "REQUEST"}
Settled == dh.state \in Holding \/ ~Running(World)
Settles == Trying ~> Settled

\* Every option of the lease held is handed to the script the code has for it, if
\* there is one, even if a script of the lease before was still running when the
\* lease was obtained.  (The script for time servers is dhcp-dns, and dhcp-ntp of
\* man/dhconf.1 is never run.)
ScriptsRun == dh.state \in Holding /\ dh.pid = 0 => Present \subseteq dh.fed

\* All of these, whatever is lost or late and whatever the user does.
DhcpSound == AddrIsOurs /\ AddrLeased /\ LeftClean /\ Watched /\ ScriptsRun
=============================================================================
