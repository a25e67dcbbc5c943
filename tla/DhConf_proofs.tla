---------------------------- MODULE DhConf_proofs ----------------------------
(***************************************************************************)
(* dhconf keeps DhcpSound for any servers, lease times and scripts, over a *)
(* network that loses what it likes and whatever signals come.             *)
(*                                                                         *)
(* The handlers are functions of a world, the process with the packets on  *)
(* the way and the address; the lemmas say what each of them leaves alone  *)
(* and what it sets.  The invariant adds to the properties what they lean  *)
(* on: an address does not stay longer than the server's lease, an ACK     *)
(* still on its way stands for a lease that is long enough, and nothing is *)
(* released while dhconf runs.                                             *)
(***************************************************************************)
EXTENDS DhConf, TLAPS

States == {"DISCOVER", "REQUEST", "LEASED", "RENEWING", "DECONF", "RELEASED"}
Kinds == {"DISCOVER", "REQUEST", "RENEW", "RELEASE", "OFFER", "ACK", "NAK"}
Packet == [type : Kinds, to : Servers \cup {"client"}, srv : Servers \cup {None}, late : BOOLEAN]
Ends == {None, "ETIMEDOUT", "recv", "lease NAK", "SIGINT", "SIGHUP", "SIGTERM"}
Process ==
  [state : States, count : Nat, timer : Nat, timeact : BOOLEAN, raw : BOOLEAN, sock : Seq(Packet),
   srv : Servers \cup {None}, age : Nat, script : 0..3, pid : 0..3, fed : SUBSET (1..3), end : Ends]
Address == [ip : Servers \cup {None}, left : Nat]
Worlds == [dh : Process, net : SUBSET Packet, addr : Address]

\* the address is that of the lease held
Ours(w) == w.addr # NoAddr => w.dh.state \in Holding /\ w.addr.ip = w.dh.srv /\ w.dh.srv \in Servers

\* scripts not run with the options of the lease are still to come
Scripts(w) ==
  w.dh.state \in Holding =>
    \A i \in Present : i \in w.dh.fed \/ (i > w.dh.script /\ w.dh.pid # 0)

\* the server counts on the address for as long as the kernel does
Covered(w, L) ==
  w.addr # NoAddr =>
    w.addr.ip \in Servers /\ w.addr.left \in 1..LEASE /\ w.addr.left <= L[w.addr.ip]

\* an ACK was sent by a server, and the lease it stands for is long enough
Waiting(s, L) ==
  \A k \in 1..Len(s) : s[k].srv \in Servers /\ (s[k].type = "ACK" => L[s[k].srv] >= LEASE)
OnTheWay(N, L) ==
  \A m \in N : m.to = "client" =>
    m.srv \in Servers /\ (m.type = "ACK" => L[m.srv] >= IF m.late THEN LEASE ELSE LEASE + 1)

NoRelease(N) == \A m \in N : m.type # "RELEASE"

\* what holds of the world while dhconf runs
Sound(w, L) ==
  /\ w.dh.state \in {"DISCOVER", "REQUEST", "LEASED", "RENEWING"}
  /\ Ours(w) /\ Waiting(w.dh.sock, L) /\ NoRelease(w.net)

Left(w) == w.dh.end \in {"SIGINT", "SIGHUP"} => w.addr = NoAddr

Good(w, L) ==
  /\ w \in Worlds
  /\ Covered(w, L) /\ Scripts(w) /\ Left(w) /\ OnTheWay(w.net, L)
  /\ Running(w) => Sound(w, L)

Typed ==
  /\ revents \subseteq {"signal", "packet"}
  /\ signals \subseteq {SIGHUP, SIGINT, SIGALRM, SIGTERM, SIGCHLD}
  /\ leases \in [Servers -> Nat]

IInv ==
  /\ Typed
  /\ Good(World, leases)
  /\ Running(World) => dh.timer > 0 \/ SIGALRM \in signals

-----------------------------------------------------------------------------
(* What the handlers are made of *)

\* what send_raw_packet and set_timer leave alone
Kept(u, w) ==
  /\ u.addr = w.addr
  /\ u.dh.state = w.dh.state /\ u.dh.srv = w.dh.srv /\ u.dh.end = w.dh.end
  /\ u.dh.script = w.dh.script /\ u.dh.pid = w.dh.pid /\ u.dh.fed = w.dh.fed

\* A timer that is set leaves the socket as it was or closed and empty.
LEMMA TimerSet ==
  ASSUME Setting, NEW w \in Worlds, NEW sec \in Nat
  PROVE  LET u == set_timer(w, sec) IN
         /\ u \in Worlds /\ Kept(u, w) /\ u.net = w.net /\ u.dh.timer = sec
         /\ u.dh.sock = w.dh.sock \/ u.dh.sock = <<>>
  <1> DEFINE v == [w EXCEPT !.dh.timer = sec, !.dh.timeact = TRUE]
  <1>1. v \in Worlds /\ Kept(v, w) /\ v.net = w.net /\ v.dh.timer = sec /\ v.dh.sock = w.dh.sock
    BY DEF Worlds, Process, Kept
  <1>2. ASSUME NEW x \in Worlds
        PROVE  LET u == close_raw_socket(x) IN
               /\ u \in Worlds /\ Kept(u, x) /\ u.net = x.net /\ u.dh.timer = x.dh.timer
               /\ u.dh.sock = <<>>
    <2>1. ASSUME NEW e \in Seq(Packet)
          PROVE  LET u == [x EXCEPT !.dh.raw = FALSE, !.dh.sock = e] IN
                 /\ u \in Worlds /\ Kept(u, x) /\ u.net = x.net /\ u.dh.timer = x.dh.timer
                 /\ u.dh.sock = e
      BY DEF Worlds, Process, Kept
    <2>2. <<>> \in Seq(Packet)
      OBVIOUS
    <2> QED BY <2>1, <2>2 DEF close_raw_socket
  <1>3. set_timer(w, sec) = v \/ set_timer(w, sec) = close_raw_socket(v)
    BY DEF set_timer
  <1> HIDE DEF v
  <1> QED BY <1>1, <1>2, <1>3 DEF Kept

LEMMA StateSet ==
  ASSUME NEW w \in Worlds, NEW s \in States
  PROVE  LET u == set_state(w, s) IN
         /\ u \in Worlds /\ u.net = w.net /\ u.addr = w.addr
         /\ u.dh.state = s /\ u.dh.srv = w.dh.srv /\ u.dh.end = w.dh.end
         /\ u.dh.script = w.dh.script /\ u.dh.pid = w.dh.pid /\ u.dh.fed = w.dh.fed
         /\ u.dh.sock = w.dh.sock
  BY DEF Worlds, Process, set_state

\* Requests are for servers.
LEMMA Sent ==
  ASSUME Setting, NEW w \in Worlds, NEW type \in {"DISCOVER", "REQUEST", "RENEW", "RELEASE"}
  PROVE  LET u == send_raw_packet(w, type) IN
         /\ u \in Worlds /\ Kept(u, w) /\ u.dh.sock = w.dh.sock
         /\ \A m \in u.net : m \in w.net \/ (m.type = type /\ m.to # "client")
  <1> DEFINE N == {[type |-> type, to |-> s, srv |-> w.dh.srv, late |-> FALSE] : s \in Servers}
             u == [w EXCEPT !.dh.raw = TRUE, !.net = @ \cup N]
  <1>1. w.dh.srv \in Servers \cup {None} /\ type \in Kinds
    BY DEF Worlds, Process, Kinds
  <1>2. N \subseteq Packet
    <2>1. ASSUME NEW s \in Servers
          PROVE  [type |-> type, to |-> s, srv |-> w.dh.srv, late |-> FALSE] \in Packet
      BY <1>1, Zenon DEF Packet
    <2> QED BY <2>1
  <1>3. \A m \in N : m.type = type /\ m.to # "client"
    BY DEF Setting
  <1> HIDE DEF N
  <1>4. w.net \cup N \in SUBSET Packet
    BY <1>2 DEF Worlds
  <1>5. u \in Worlds /\ Kept(u, w) /\ u.dh.sock = w.dh.sock /\ u.net = w.net \cup N
    BY <1>4 DEF Worlds, Process, Kept
  <1>6. send_raw_packet(w, type) = u
    BY DEF send_raw_packet, N
  <1> QED BY <1>3, <1>5, <1>6

\* the packets of w, and requests
Calm(u, w) == \A m \in u.net : m \in w.net \/ (m.type # "RELEASE" /\ m.to # "client")

\* send_discover, send_request and send_renew: a request and a timer.
LEMMA Asked ==
  ASSUME Setting, NEW w \in Worlds, NEW type \in {"DISCOVER", "REQUEST", "RENEW"}
  PROVE  LET u == set_timer(send_raw_packet(w, type), RETRY) IN
         /\ u \in Worlds /\ Kept(u, w) /\ Calm(u, w) /\ u.dh.timer > 0
         /\ u.dh.sock = w.dh.sock \/ u.dh.sock = <<>>
  <1> DEFINE v == send_raw_packet(w, type)
  <1>1. /\ v \in Worlds /\ Kept(v, w) /\ v.dh.sock = w.dh.sock
        /\ \A m \in v.net : m \in w.net \/ (m.type = type /\ m.to # "client")
    BY Sent
  <1> HIDE DEF v
  <1>2. RETRY \in Nat /\ RETRY > 0
    BY DEF Setting
  <1>3. LET u == set_timer(v, RETRY) IN
        /\ u \in Worlds /\ Kept(u, v) /\ u.net = v.net /\ u.dh.timer = RETRY
        /\ u.dh.sock = v.dh.sock \/ u.dh.sock = <<>>
    BY <1>1, <1>2, TimerSet
  <1>4. Kept(set_timer(v, RETRY), w)
    BY <1>1, <1>3 DEF Kept
  <1>5. Calm(set_timer(v, RETRY), w)
    BY <1>1, <1>3 DEF Calm
  <1> QED BY <1>1, <1>2, <1>3, <1>4, <1>5 DEF v

LEMMA EmptyWaits == ASSUME NEW L PROVE Waiting(<<>>, L)
  BY DEF Waiting

\* Requests do not stand for leases, and are no releases.
LEMMA CalmKeeps ==
  ASSUME NEW u, NEW w, NEW L, Calm(u, w)
  PROVE  /\ OnTheWay(w.net, L) => OnTheWay(u.net, L)
         /\ NoRelease(w.net) => NoRelease(u.net)
  BY DEF Calm, OnTheWay, NoRelease

\* Asking leaves a good world good.
LEMMA AskedGood ==
  ASSUME Setting, NEW w, NEW L, Good(w, L), Running(w), NEW type \in {"DISCOVER", "REQUEST", "RENEW"}
  PROVE  LET u == set_timer(send_raw_packet(w, type), RETRY) IN
         Good(u, L) /\ u.dh.timer > 0
  <1> DEFINE u == set_timer(send_raw_packet(w, type), RETRY)
  <1>1. w \in Worlds /\ Sound(w, L)
    BY DEF Good
  <1>2. /\ u \in Worlds /\ Kept(u, w) /\ Calm(u, w) /\ u.dh.timer > 0
        /\ u.dh.sock = w.dh.sock \/ u.dh.sock = <<>>
    BY <1>1, Asked
  <1> HIDE DEF u
  <1>3. OnTheWay(u.net, L) /\ NoRelease(u.net)
    BY <1>1, <1>2, CalmKeeps DEF Good, Sound
  <1>4. Waiting(u.dh.sock, L)
    BY <1>1, <1>2, EmptyWaits DEF Sound
  <1>5. Covered(u, L) /\ Scripts(u) /\ Left(u)
    BY <1>2 DEF Good, Kept, Covered, Scripts, Left
  <1>6. Sound(u, L)
    BY <1>1, <1>2, <1>3, <1>4 DEF Kept, Sound, Ours
  <1> QED BY <1>2, <1>3, <1>5, <1>6 DEF Good, u

\* An address of the lease's server, if any, is removed.
LEMMA Deconfigured ==
  ASSUME NEW w \in Worlds, w.addr # NoAddr => w.addr.ip = w.dh.srv
  PROVE  LET u == deconf_iface(w) IN
         u \in Worlds /\ u.dh = w.dh /\ u.net = w.net /\ u.addr = NoAddr
  <1>1. NoAddr \in Address
    BY DEF NoAddr, Address
  <1>2. ASSUME NEW a \in Address
        PROVE  LET u == [w EXCEPT !.addr = a] IN
               u \in Worlds /\ u.dh = w.dh /\ u.net = w.net /\ u.addr = a
    BY DEF Worlds
  <1>3. w.addr \in Address /\ (IF w.addr.ip = w.dh.srv THEN NoAddr ELSE w.addr) = NoAddr
    BY DEF Worlds
  <1>4. deconf_iface(w) = [w EXCEPT !.addr = IF w.addr.ip = w.dh.srv THEN NoAddr ELSE w.addr]
    BY DEF deconf_iface
  <1> QED BY <1>1, <1>2, <1>3, <1>4

\* Rediscovery, from any state: no address is left.
LEMMA RetryGood ==
  ASSUME Setting, NEW w \in Worlds, NEW L, Running(w),
         w.addr # NoAddr => w.addr.ip = w.dh.srv,
         Waiting(w.dh.sock, L), NoRelease(w.net), OnTheWay(w.net, L)
  PROVE  Good(retry_discover(w), L) /\ retry_discover(w).dh.timer > 0
  <1> DEFINE v == deconf_iface(w)  x == set_state(v, "DISCOVER")
  <1>1. v \in Worlds /\ v.dh = w.dh /\ v.net = w.net /\ v.addr = NoAddr
    BY Deconfigured
  <1> HIDE DEF v
  <1>2. /\ x \in Worlds /\ x.net = v.net /\ x.addr = v.addr
        /\ x.dh.state = "DISCOVER" /\ x.dh.end = v.dh.end /\ x.dh.sock = v.dh.sock
    BY <1>1, StateSet DEF States
  <1> HIDE DEF x
  <1>3. Good(x, L) /\ Running(x)
    BY <1>1, <1>2 DEF Good, Covered, Scripts, Left, Sound, Ours, Running, Holding
  <1>4. retry_discover(w) = set_timer(send_raw_packet(x, "DISCOVER"), RETRY)
    BY DEF retry_discover, send_discover, x, v
  <1> QED BY <1>3, <1>4, AskedGood

-----------------------------------------------------------------------------
(* The lease and the scripts *)

LEMMA AddrSet ==
  ASSUME Setting, NEW w \in Worlds
  PROVE  LET u == add_ip_address(w) IN
         /\ u \in Worlds /\ u.dh = w.dh /\ u.net = w.net
         /\ u.addr.ip = w.dh.srv /\ u.addr.left = LEASE
  <1>1. LEASE \in Nat /\ w.dh.srv \in Servers \cup {None}
    BY DEF Setting, Worlds, Process
  <1>2. [ip |-> w.dh.srv, left |-> LEASE] \in Address
    BY <1>1 DEF Address
  <1>3. ASSUME NEW a \in Address
        PROVE  LET u == [w EXCEPT !.addr = a] IN
               u \in Worlds /\ u.dh = w.dh /\ u.net = w.net /\ u.addr = a
    BY DEF Worlds
  <1>4. add_ip_address(w) = [w EXCEPT !.addr = [ip |-> w.dh.srv, left |-> LEASE]]
    BY DEF add_ip_address
  <1> QED BY <1>2, <1>3, <1>4

LEMMA NextScript ==
  ASSUME Setting, NEW w \in Worlds, NEW k \in Present, k > w.dh.script
  PROVE  LET i == next_script(w) IN
         /\ i \in Present /\ i \in 1..3 /\ i > w.dh.script
         /\ \A j \in Present : j > w.dh.script => i <= j
  <1>1. Present \subseteq 1..3 /\ w.dh.script \in 0..3
    BY DEF Setting, Present, Worlds, Process
  <1>2. \E i \in Present : i > w.dh.script /\ \A j \in Present : j > w.dh.script => i <= j
    <2>1. CASE 1 \in Present /\ 1 > w.dh.script
      BY <1>1, <2>1
    <2>2. CASE ~(1 \in Present /\ 1 > w.dh.script) /\ 2 \in Present /\ 2 > w.dh.script
      BY <1>1, <2>2
    <2>3. CASE ~(1 \in Present /\ 1 > w.dh.script) /\ ~(2 \in Present /\ 2 > w.dh.script)
      BY <1>1, <2>3
    <2> QED BY <2>1, <2>2, <2>3
  <1> QED BY <1>1, <1>2 DEF next_script

\* what the handlers of scripts leave alone
Apart(u, w) ==
  /\ u.addr = w.addr /\ u.net = w.net
  /\ u.dh.state = w.dh.state /\ u.dh.srv = w.dh.srv /\ u.dh.end = w.dh.end
  /\ u.dh.sock = w.dh.sock /\ u.dh.timer = w.dh.timer

\* A script that was not run yet is run, or comes after one that is.
LEMMA ScriptRun ==
  ASSUME Setting, NEW w \in Worlds
  PROVE  LET u == run_next_script(w) IN
         /\ u \in Worlds /\ Apart(u, w)
         /\ (\A i \in Present : i \in w.dh.fed \/ i > w.dh.script)
              => \A i \in Present : i \in u.dh.fed \/ (i > u.dh.script /\ u.dh.pid # 0)
  <1>0. Present \subseteq 1..3 /\ w.dh.script \in 0..3 /\ w.dh.fed \subseteq 1..3
    BY DEF Setting, Present, Worlds, Process
  <1>1. CASE \A i \in Present : i <= w.dh.script
    <2>1. run_next_script(w) = [w EXCEPT !.dh.script = 3]
      BY <1>1 DEF run_next_script, Set
    <2>2. LET u == [w EXCEPT !.dh.script = 3] IN u \in Worlds /\ Apart(u, w) /\ u.dh.fed = w.dh.fed
      <3>1. ASSUME NEW m \in 0..3
            PROVE  LET u == [w EXCEPT !.dh.script = m] IN u \in Worlds /\ Apart(u, w) /\ u.dh.fed = w.dh.fed
        BY DEF Worlds, Process, Apart
      <3> QED BY <3>1
    <2>3. \A i \in Present : ~(i > w.dh.script)
      BY <1>0, <1>1
    <2> QED BY <2>1, <2>2, <2>3
  <1>2. ASSUME NEW k \in Present, ~(k <= w.dh.script)
        PROVE  LET u == run_next_script(w) IN
               /\ u \in Worlds /\ Apart(u, w)
               /\ (\A i \in Present : i \in w.dh.fed \/ i > w.dh.script)
                    => \A i \in Present : i \in u.dh.fed \/ (i > u.dh.script /\ u.dh.pid # 0)
    <2> DEFINE n == next_script(w)
               u == [w EXCEPT !.dh.script = n, !.dh.pid = n, !.dh.fed = @ \cup {n}]
    <2>1. /\ n \in Present /\ n \in 1..3 /\ n > w.dh.script
          /\ \A j \in Present : j > w.dh.script => n <= j
      <3>1. k > w.dh.script
        BY <1>0, <1>2
      <3> QED BY <3>1, NextScript
    <2>2. run_next_script(w) = u
      BY <1>2 DEF run_next_script
    <2> HIDE DEF n
    <2>3. /\ u \in Worlds /\ Apart(u, w)
          /\ u.dh.fed = w.dh.fed \cup {n} /\ u.dh.script = n /\ u.dh.pid = n
      <3>1. w.dh.fed \cup {n} \in SUBSET (1..3) /\ n \in 0..3
        BY <1>0, <2>1
      <3>2. ASSUME NEW F \in SUBSET (1..3), NEW m \in 0..3
            PROVE  LET x == [w EXCEPT !.dh.script = m, !.dh.pid = m, !.dh.fed = F] IN
                   x \in Worlds /\ Apart(x, w) /\ x.dh.fed = F /\ x.dh.script = m /\ x.dh.pid = m
        BY DEF Worlds, Process, Apart
      <3>3. u = [w EXCEPT !.dh.script = n, !.dh.pid = n, !.dh.fed = w.dh.fed \cup {n}]
        BY DEF Worlds, Process
      <3> QED BY <3>1, <3>2, <3>3
    <2>4. (\A i \in Present : i \in w.dh.fed \/ i > w.dh.script)
            => \A i \in Present : i \in w.dh.fed \cup {n} \/ i > n
      BY <1>0, <2>1
    <2> QED BY <2>1, <2>2, <2>3, <2>4
  <1> QED BY <1>0, <1>1, <1>2

\* what the lease is taken from: an ACK of the server asked, long enough
Granted(w, L) ==
  /\ w \in Worlds /\ Running(w) /\ w.dh.state = "LEASED"
  /\ w.dh.srv \in Servers /\ L[w.dh.srv] >= LEASE
  /\ Waiting(w.dh.sock, L) /\ NoRelease(w.net) /\ OnTheWay(w.net, L)

\* The timer of the lease, and the address for as long as the lease.
LEMMA LeaseTaken ==
  ASSUME Setting, NEW w, NEW L, Granted(w, L)
  PROVE  LET u == add_ip_address(set_timer(w, LEASE \div 2)) IN
         /\ u \in Worlds /\ u.dh.timer > 0 /\ Running(u) /\ u.dh.state = "LEASED"
         /\ Covered(u, L) /\ Left(u) /\ OnTheWay(u.net, L) /\ Sound(u, L)
         /\ u.dh.script = w.dh.script /\ u.dh.pid = w.dh.pid /\ u.dh.fed = w.dh.fed
  <1> DEFINE v == set_timer(w, LEASE \div 2)  u == add_ip_address(v)
  <1>0. w \in Worlds /\ LEASE \div 2 \in Nat /\ LEASE \div 2 > 0 /\ LEASE \in Nat /\ LEASE > 0
    BY DEF Granted, Setting
  <1>1. /\ v \in Worlds /\ Kept(v, w) /\ v.net = w.net /\ v.dh.timer = LEASE \div 2
        /\ v.dh.sock = w.dh.sock \/ v.dh.sock = <<>>
    BY <1>0, TimerSet
  <1> HIDE DEF v
  <1>2. /\ u \in Worlds /\ u.dh = v.dh /\ u.net = v.net
        /\ u.addr.ip = v.dh.srv /\ u.addr.left = LEASE
    BY <1>1, AddrSet
  <1> HIDE DEF u
  <1>3. Waiting(u.dh.sock, L)
    BY <1>1, <1>2, EmptyWaits DEF Granted
  <1>4. Running(u) /\ u.dh.state = "LEASED" /\ u.dh.srv = w.dh.srv /\ u.dh.timer > 0
    BY <1>0, <1>1, <1>2 DEF Granted, Running, Kept
  <1>5. Covered(u, L)
    BY <1>0, <1>2, <1>4, <1>1 DEF Granted, Covered, Kept
  <1>6. Left(u)
    BY <1>4 DEF Left, Running, None
  <1>7. Sound(u, L) /\ OnTheWay(u.net, L)
    BY <1>1, <1>2, <1>3, <1>4 DEF Granted, Sound, Ours, Holding
  <1> QED BY <1>1, <1>2, <1>4, <1>5, <1>6, <1>7 DEF Kept, u, v

LEMMA RenewedGood ==
  ASSUME Setting, NEW w, NEW L, Granted(w, L), Scripts(w)
  PROVE  Good(lease_renewed(w), L) /\ lease_renewed(w).dh.timer > 0
  <1> DEFINE u == add_ip_address(set_timer(w, LEASE \div 2))
  <1>1. /\ u \in Worlds /\ u.dh.timer > 0 /\ Running(u) /\ u.dh.state = "LEASED"
        /\ Covered(u, L) /\ Left(u) /\ OnTheWay(u.net, L) /\ Sound(u, L)
        /\ u.dh.script = w.dh.script /\ u.dh.pid = w.dh.pid /\ u.dh.fed = w.dh.fed
    BY LeaseTaken
  <1>2. lease_renewed(w) = u
    BY DEF lease_renewed
  <1> HIDE DEF u
  <1>3. Scripts(u)
    BY <1>1 DEF Scripts, Granted, Holding
  <1> QED BY <1>1, <1>2, <1>3 DEF Good

\* A script that still runs for the lease before is waited for, and then all of
\* them are run for this one.
LEMMA ObtainedGood ==
  ASSUME Setting, NEW w, NEW L, Granted(w, L)
  PROVE  Good(lease_obtained(w), L) /\ lease_obtained(w).dh.timer > 0
  <1> DEFINE x == [w EXCEPT !.dh.fed = {}]
             v == add_ip_address(set_timer(x, LEASE \div 2))
             y == [v EXCEPT !.dh.script = 0]
             u == proceed_with_scripts(v)
  <1>1. w \in Worlds
    BY DEF Granted
  <1>2. /\ x \in Worlds /\ x.net = w.net /\ x.dh.state = w.dh.state /\ x.dh.srv = w.dh.srv
        /\ x.dh.end = w.dh.end /\ x.dh.sock = w.dh.sock /\ x.dh.fed = {} /\ x.dh.pid = w.dh.pid
    <2>1. ASSUME NEW F \in SUBSET (1..3)
          PROVE  LET z == [w EXCEPT !.dh.fed = F] IN
                 /\ z \in Worlds /\ z.net = w.net /\ z.dh.state = w.dh.state /\ z.dh.srv = w.dh.srv
                 /\ z.dh.end = w.dh.end /\ z.dh.sock = w.dh.sock /\ z.dh.fed = F /\ z.dh.pid = w.dh.pid
      BY <1>1 DEF Worlds, Process
    <2>2. {} \in SUBSET (1..3)
      OBVIOUS
    <2> QED BY <2>1, <2>2
  <1> HIDE DEF x
  <1>3. Granted(x, L)
    BY <1>2 DEF Granted, Running
  <1>4. /\ v \in Worlds /\ v.dh.timer > 0 /\ Running(v) /\ v.dh.state = "LEASED"
        /\ Covered(v, L) /\ Left(v) /\ OnTheWay(v.net, L) /\ Sound(v, L)
        /\ v.dh.script = x.dh.script /\ v.dh.pid = x.dh.pid /\ v.dh.fed = x.dh.fed
    BY <1>3, LeaseTaken
  <1> HIDE DEF v
  <1>5. /\ y \in Worlds /\ Apart(y, v) /\ y.dh.script = 0 /\ y.dh.pid = v.dh.pid /\ y.dh.fed = v.dh.fed
    BY <1>4 DEF Worlds, Process, Apart
  <1>6. u = IF y.dh.pid # 0 THEN y ELSE run_next_script(y)
    BY DEF proceed_with_scripts
  <1> HIDE DEF y
  <1>7. \A i \in Present : i > y.dh.script
    <2>1. y.dh.script = 0
      BY <1>5
    <2>2. \A i \in Present : i \in 1..3
      BY DEF Setting, Present
    <2> QED BY ONLY <2>1, <2>2, SMTT(30)
  <1>8. /\ u \in Worlds /\ Apart(u, v)
        /\ \A i \in Present : i \in u.dh.fed \/ (i > u.dh.script /\ u.dh.pid # 0)
    <2>1. CASE y.dh.pid # 0
      BY <1>5, <1>6, <1>7, <2>1
    <2>2. CASE y.dh.pid = 0
      <3>1. u = run_next_script(y)
        BY <1>6, <2>2
      <3>2. /\ u \in Worlds /\ Apart(u, y)
            /\ \A i \in Present : i \in u.dh.fed \/ (i > u.dh.script /\ u.dh.pid # 0)
        BY <1>5, <1>7, <3>1, ScriptRun
      <3> QED BY <1>5, <3>2 DEF Apart
    <2> QED BY <2>1, <2>2
  <1>9. lease_obtained(w) = u
    BY DEF lease_obtained, x, v
  <1> HIDE DEF u
  <1>10. Scripts(u) /\ Covered(u, L) /\ Left(u) /\ OnTheWay(u.net, L) /\ Sound(u, L) /\ u.dh.timer > 0
    BY <1>4, <1>8 DEF Scripts, Covered, Left, Sound, Ours, Apart
  <1> QED BY <1>8, <1>9, <1>10 DEF Good

-----------------------------------------------------------------------------
(* Timeouts *)

\* Good does not depend on the counters, the timer and the socket's being open.
LEMMA SameGood ==
  ASSUME NEW w, NEW u, NEW L, Good(w, L), u \in Worlds, Kept(u, w), u.net = w.net, u.dh.sock = w.dh.sock
  PROVE  Good(u, L) /\ (Running(w) => Running(u))
  BY DEF Good, Kept, Covered, Scripts, Left, Sound, Ours, Running

LEMMA QuitGood ==
  ASSUME NEW w \in Worlds, NEW L, Covered(w, L), Scripts(w), OnTheWay(w.net, L),
         NEW why \in Ends, why # None, why \in {"SIGINT", "SIGHUP"} => w.addr = NoAddr
  PROVE  Good(quit(w, why), L) /\ ~Running(quit(w, why))
  <1> DEFINE u == [w EXCEPT !.dh.end = why]
  <1>1. /\ u \in Worlds /\ u.net = w.net /\ u.addr = w.addr /\ u.dh.end = why
        /\ u.dh.state = w.dh.state /\ u.dh.script = w.dh.script /\ u.dh.pid = w.dh.pid /\ u.dh.fed = w.dh.fed
    BY DEF Worlds, Process
  <1>2. quit(w, why) = u
    BY DEF quit, Set
  <1> HIDE DEF u
  <1> QED BY <1>1, <1>2 DEF Good, Covered, Scripts, Left, Running

LEMMA RenewGood ==
  ASSUME Setting, NEW w, NEW L, Good(w, L), Running(w), w.dh.state = "LEASED"
  PROVE  Good(time_to_renew(w), L) /\ time_to_renew(w).dh.timer > 0
  <1>1. w \in Worlds /\ Sound(w, L) /\ OnTheWay(w.net, L)
    BY DEF Good
  <1>2. CASE w.dh.age >= LEASE
    <2>1. time_to_renew(w) = retry_discover(w)
      BY <1>2 DEF time_to_renew
    <2> QED BY <1>1, <2>1, RetryGood DEF Sound, Ours
  <1>3. CASE ~(w.dh.age >= LEASE)
    <2> DEFINE x == set_state(w, "RENEWING")
    <2>1. time_to_renew(w) = set_timer(send_raw_packet(x, "RENEW"), RETRY)
      BY <1>3 DEF time_to_renew, send_renew
    <2>2. /\ x \in Worlds /\ x.net = w.net /\ x.addr = w.addr
          /\ x.dh.state = "RENEWING" /\ x.dh.srv = w.dh.srv /\ x.dh.end = w.dh.end
          /\ x.dh.script = w.dh.script /\ x.dh.pid = w.dh.pid /\ x.dh.fed = w.dh.fed
          /\ x.dh.sock = w.dh.sock
      BY <1>1, StateSet DEF States
    <2> HIDE DEF x
    <2>3. Good(x, L) /\ Running(x)
      BY <1>1, <2>2 DEF Good, Covered, Scripts, Left, Sound, Ours, Running, Holding
    <2> QED BY <2>1, <2>3, AskedGood
  <1> QED BY <1>2, <1>3

LEMMA RenewTimeoutGood ==
  ASSUME Setting, NEW w, NEW L, Good(w, L), Running(w), w.dh.state = "RENEWING"
  PROVE  Good(renew_timeout(w), L) /\ renew_timeout(w).dh.timer > 0
  <1>1. w \in Worlds /\ Sound(w, L) /\ OnTheWay(w.net, L)
    BY DEF Good
  <1>2. CASE w.dh.age > LEASE - MARGIN
    <2>1. renew_timeout(w) = retry_discover(w)
      BY <1>2 DEF renew_timeout
    <2> QED BY <1>1, <2>1, RetryGood DEF Sound, Ours
  <1>3. CASE ~(w.dh.age > LEASE - MARGIN)
    <2> DEFINE x == [w EXCEPT !.dh.state = "LEASED"]  u == set_timer(x, AGAIN)
    <2>1. renew_timeout(w) = u
      BY <1>3 DEF renew_timeout, Set
    <2>2. /\ x \in Worlds /\ x.net = w.net /\ x.addr = w.addr
          /\ x.dh.state = "LEASED" /\ x.dh.srv = w.dh.srv /\ x.dh.end = w.dh.end
          /\ x.dh.script = w.dh.script /\ x.dh.pid = w.dh.pid /\ x.dh.fed = w.dh.fed
          /\ x.dh.sock = w.dh.sock
      BY <1>1 DEF Worlds, Process, States
    <2> HIDE DEF x
    <2>3. Good(x, L) /\ Running(x)
      BY <1>1, <2>2 DEF Good, Covered, Scripts, Left, Sound, Ours, Running, Holding
    <2>4. AGAIN \in Nat /\ AGAIN > 0
      BY DEF Setting
    <2>5. /\ u \in Worlds /\ Kept(u, x) /\ u.net = x.net /\ u.dh.timer = AGAIN
          /\ u.dh.sock = x.dh.sock \/ u.dh.sock = <<>>
      BY <2>2, <2>4, TimerSet
    <2> HIDE DEF u
    <2>6. Waiting(u.dh.sock, L)
      BY <1>1, <2>2, <2>5, EmptyWaits DEF Sound
    <2>7. Good(u, L)
      BY <2>3, <2>5, <2>6 DEF Good, Kept, Covered, Scripts, Left, Sound, Ours, Running
    <2> QED BY <2>1, <2>4, <2>5, <2>7
  <1> QED BY <1>2, <1>3

\* A timeout ends the service or sets another timer.
LEMMA TimeoutGood ==
  ASSUME Setting, NEW w, NEW L, Good(w, L), Running(w)
  PROVE  LET u == timeout_waiting(w) IN Good(u, L) /\ (Running(u) => u.dh.timer > 0)
  <1> DEFINE v == [w EXCEPT !.dh.count = w.dh.count + 1]  s == w.dh.state  n == w.dh.count
             u == timeout_waiting(w)
  <1>1. w \in Worlds /\ s \in {"DISCOVER", "REQUEST", "LEASED", "RENEWING"}
    BY DEF Good, Sound
  <1>2. v \in Worlds /\ Kept(v, w) /\ v.net = w.net /\ v.dh.sock = w.dh.sock
    <2>1. w.dh.count + 1 \in Nat
      BY <1>1 DEF Worlds, Process
    <2>2. ASSUME NEW c \in Nat
          PROVE  LET x == [w EXCEPT !.dh.count = c] IN
                 x \in Worlds /\ Kept(x, w) /\ x.net = w.net /\ x.dh.sock = w.dh.sock
      BY <1>1 DEF Worlds, Process, Kept
    <2> QED BY <2>1, <2>2
  <1>3. Set(w, "count", w.dh.count + 1) = v
    BY DEF Set
  <1>4. u = CASE s = "LEASED" -> time_to_renew(v)
              [] s = "RENEWING" -> renew_timeout(v)
              [] s \notin Holding /\ gives_up(s, n) -> quit(v, "ETIMEDOUT")
              [] s = "DISCOVER" /\ ~gives_up(s, n) -> send_discover(v)
              [] s = "REQUEST" /\ ~gives_up(s, n) -> send_request(v)
    BY <1>3, Zenon DEF timeout_waiting
  <1> HIDE DEF v, u
  <1>5. Good(v, L) /\ Running(v) /\ v.dh.state = s
    BY <1>2, SameGood DEF Kept
  <1>6. CASE s = "LEASED"
    <2>1. u = time_to_renew(v)
      BY <1>4, <1>6 DEF Holding
    <2> QED BY <1>5, <1>6, <2>1, RenewGood DEF u
  <1>7. CASE s = "RENEWING"
    <2>1. u = renew_timeout(v)
      BY <1>4, <1>7 DEF Holding
    <2> QED BY <1>5, <1>7, <2>1, RenewTimeoutGood DEF u
  <1>8. CASE s \notin Holding /\ gives_up(s, n)
    <2>1. u = quit(v, "ETIMEDOUT")
      BY <1>4, <1>8 DEF Holding
    <2>2. "ETIMEDOUT" \in Ends /\ "ETIMEDOUT" # None /\ "ETIMEDOUT" \notin {"SIGINT", "SIGHUP"}
      BY DEF None, Ends
    <2>3. v \in Worlds /\ Covered(v, L) /\ Scripts(v) /\ OnTheWay(v.net, L)
      BY <1>5 DEF Good
    <2>4. Good(u, L) /\ ~Running(u)
      BY <2>1, <2>2, <2>3, QuitGood
    <2> QED BY <2>4 DEF u
  <1>9. CASE s = "DISCOVER" /\ ~gives_up(s, n)
    <2>1. u = set_timer(send_raw_packet(v, "DISCOVER"), RETRY)
      BY <1>4, <1>9 DEF Holding, send_discover
    <2> QED BY <1>5, <2>1, AskedGood DEF u
  <1>10. CASE s = "REQUEST" /\ ~gives_up(s, n)
    <2>1. u = set_timer(send_raw_packet(v, "REQUEST"), RETRY)
      BY <1>4, <1>10 DEF Holding, send_request
    <2> QED BY <1>5, <2>1, AskedGood DEF u
  <1> QED BY <1>1, <1>6, <1>7, <1>8, <1>9, <1>10 DEF Holding, u

-----------------------------------------------------------------------------
(* Packets *)

\* an answer read from the socket
Answer(m, L) ==
  m \in Packet /\ m.srv \in Servers /\ (m.type = "ACK" => L[m.srv] >= LEASE)

LEMMA ReadGood ==
  ASSUME NEW w, NEW L, Good(w, L), Running(w), w.dh.sock # <<>>
  PROVE  LET x == [w EXCEPT !.dh.sock = Tail(@)] IN
         /\ Good(x, L) /\ Running(x) /\ Kept(x, w) /\ x.net = w.net /\ x.dh.timer = w.dh.timer
         /\ Answer(Head(w.dh.sock), L)
  <1> DEFINE q == w.dh.sock
  <1>1. w \in Worlds /\ q \in Seq(Packet) /\ Sound(w, L) /\ Waiting(q, L)
    BY DEF Good, Sound, Worlds, Process
  <1>2. /\ Tail(q) \in Seq(Packet) /\ Head(q) = q[1] /\ 1 \in 1..Len(q) /\ q[1] \in Packet
        /\ \A k \in 1..Len(Tail(q)) : k + 1 \in 1..Len(q) /\ Tail(q)[k] = q[k + 1]
    BY <1>1
  <1>3. Answer(Head(q), L)
    BY <1>1, <1>2 DEF Answer, Waiting
  <1>4. Waiting(Tail(q), L)
    BY <1>1, <1>2 DEF Waiting
  <1>5. ASSUME NEW r \in Seq(Packet)
        PROVE  LET x == [w EXCEPT !.dh.sock = r] IN
               x \in Worlds /\ Kept(x, w) /\ x.net = w.net /\ x.dh.sock = r /\ x.dh.timer = w.dh.timer
    BY <1>1, SMTT(30) DEF Worlds, Process, Kept
  <1> DEFINE x == [w EXCEPT !.dh.sock = Tail(q)]
  <1>6. x \in Worlds /\ Kept(x, w) /\ x.net = w.net /\ x.dh.sock = Tail(q) /\ x.dh.timer = w.dh.timer
    BY <1>2, <1>5
  <1>7. [w EXCEPT !.dh.sock = Tail(@)] = x
    OBVIOUS
  <1> HIDE DEF x
  <1>8. Good(x, L) /\ Running(x)
    BY <1>1, <1>4, <1>6 DEF Good, Kept, Covered, Scripts, Left, Sound, Ours, Running
  <1> QED BY <1>3, <1>6, <1>7, <1>8

\* what handle_packet makes of an answer
Taken(v, x, m) ==
  \/ v = x
  \/ v = quit(x, "lease NAK")
  \/ x.dh.state = "DISCOVER" /\ v = set_state([x EXCEPT !.dh.srv = m.srv, !.dh.age = 0], "REQUEST")
  \/ /\ x.dh.state \in {"REQUEST", "RENEWING"} /\ v = set_state(x, "LEASED")
     /\ m.srv = x.dh.srv /\ m.type = "ACK"
  \/ x.dh.state = "RENEWING" /\ v = set_state(x, "DECONF")

LEMMA HandleTakes ==
  ASSUME NEW x, NEW m
  PROVE  Taken(handle_packet(x, m), x, m)
  <1>1. Taken(check_offer(x, m), x, m) \/ x.dh.state # "DISCOVER"
    BY DEF Taken, check_offer
  <1>2. Taken(check_acknak(x, m), x, m) \/ x.dh.state # "REQUEST"
    <2>1. CASE m.srv # x.dh.srv
      BY <2>1 DEF Taken, check_acknak
    <2>2. CASE m.srv = x.dh.srv /\ m.type = "NAK"
      BY <2>2 DEF Taken, check_acknak
    <2>3. CASE m.srv = x.dh.srv /\ m.type = "ACK"
      BY <2>3 DEF Taken, check_acknak
    <2>4. CASE m.srv = x.dh.srv /\ m.type # "ACK" /\ m.type # "NAK"
      BY <2>4 DEF Taken, check_acknak
    <2> QED BY <2>1, <2>2, <2>3, <2>4
  <1>3. Taken(check_newack(x, m), x, m) \/ x.dh.state # "RENEWING"
    <2>1. CASE m.srv # x.dh.srv
      BY <2>1 DEF Taken, check_newack
    <2>2. CASE m.srv = x.dh.srv /\ m.type = "NAK"
      BY <2>2 DEF Taken, check_newack
    <2>3. CASE m.srv = x.dh.srv /\ m.type = "ACK"
      BY <2>3 DEF Taken, check_newack
    <2>4. CASE m.srv = x.dh.srv /\ m.type # "ACK" /\ m.type # "NAK"
      BY <2>4 DEF Taken, check_newack
    <2> QED BY <2>1, <2>2, <2>3, <2>4
  <1>4. \/ x.dh.state = "DISCOVER" /\ handle_packet(x, m) = check_offer(x, m)
        \/ x.dh.state = "REQUEST" /\ handle_packet(x, m) = check_acknak(x, m)
        \/ x.dh.state = "RENEWING" /\ handle_packet(x, m) = check_newack(x, m)
        \/ handle_packet(x, m) = x
    BY DEF handle_packet
  <1>5. Taken(x, x, m)
    BY DEF Taken
  <1> QED BY <1>1, <1>2, <1>3, <1>4, <1>5

\* what a handler does for the timer: sets it, leaves it or ends the service
Timer(u, w) == Running(u) => u.dh.timer > 0 \/ u.dh.timer = w.dh.timer

\* An answer is acted upon, or ignored.
LEMMA RecvGood ==
  ASSUME Setting, NEW w, NEW L, Good(w, L), Running(w)
  PROVE  Good(recv_incoming(w), L) /\ Timer(recv_incoming(w), w)
  <1> DEFINE m == Head(w.dh.sock)  x == [w EXCEPT !.dh.sock = Tail(@)]  v == handle_packet(x, m)
  <1>1. CASE ~w.dh.raw
    <2>1. "recv" \in Ends /\ "recv" # None /\ "recv" \notin {"SIGINT", "SIGHUP"}
      BY DEF None, Ends
    <2>2. w \in Worlds /\ Covered(w, L) /\ Scripts(w) /\ OnTheWay(w.net, L)
      BY DEF Good
    <2>3. recv_incoming(w) = quit(w, "recv")
      BY <1>1 DEF recv_incoming
    <2> QED BY <2>1, <2>2, <2>3, QuitGood DEF Timer
  <1>2. CASE w.dh.raw /\ w.dh.sock = <<>>
    <2>1. recv_incoming(w) = w
      BY <1>2 DEF recv_incoming
    <2> QED BY <2>1 DEF Timer
  <1>3. CASE w.dh.raw /\ w.dh.sock # <<>>
    <2>1. recv_incoming(w) =
            IF v.dh.state = w.dh.state \/ ~Running(v) THEN v ELSE next_action(v, w.dh.state)
      BY <1>3 DEF recv_incoming
    <2>2. /\ Good(x, L) /\ Running(x) /\ Kept(x, w) /\ x.net = w.net /\ x.dh.timer = w.dh.timer
          /\ Answer(m, L)
      BY <1>3, ReadGood
    <2>3. Taken(v, x, m)
      BY HandleTakes
    <2> HIDE DEF v, x, m
    <2>4. /\ x \in Worlds /\ Covered(x, L) /\ Scripts(x) /\ OnTheWay(x.net, L) /\ Sound(x, L)
          /\ x.dh.state = w.dh.state
      BY <2>2 DEF Good, Kept
    <2>5. CASE v = x
      <3>1. recv_incoming(w) = x
        BY <2>1, <2>4, <2>5
      <3> QED BY <2>2, <3>1 DEF Timer
    <2>6. CASE v = quit(x, "lease NAK")
      <3>1. "lease NAK" \in Ends /\ "lease NAK" # None /\ "lease NAK" \notin {"SIGINT", "SIGHUP"}
        BY DEF None, Ends
      <3>2. Good(v, L) /\ ~Running(v)
        BY <2>4, <2>6, <3>1, QuitGood
      <3>3. recv_incoming(w) = v
        BY <2>1, <3>2
      <3> QED BY <3>2, <3>3 DEF Timer
    <2>7. CASE x.dh.state = "DISCOVER" /\ v = set_state([x EXCEPT !.dh.srv = m.srv, !.dh.age = 0], "REQUEST")
      <3> DEFINE y == [x EXCEPT !.dh.srv = m.srv, !.dh.age = 0]
      <3>1. /\ y \in Worlds /\ y.addr = x.addr /\ y.net = x.net /\ y.dh.sock = x.dh.sock /\ y.dh.end = x.dh.end
        <4>1. m.srv \in Servers \cup {None} /\ 0 \in Nat
          BY <2>2 DEF Answer
        <4>2. ASSUME NEW a \in Servers \cup {None}, NEW n \in Nat
              PROVE  LET z == [x EXCEPT !.dh.srv = a, !.dh.age = n] IN
                     /\ z \in Worlds /\ z.addr = x.addr /\ z.net = x.net
                     /\ z.dh.sock = x.dh.sock /\ z.dh.end = x.dh.end
          BY <2>4 DEF Worlds, Process
        <4> QED BY <4>1, <4>2
      <3> HIDE DEF y
      <3>2. /\ v \in Worlds /\ v.addr = y.addr /\ v.net = y.net /\ v.dh.sock = y.dh.sock /\ v.dh.end = y.dh.end
            /\ v.dh.state = "REQUEST"
        BY <2>7, <3>1, StateSet, ZenonT(40) DEF States, y
      <3>3. x.addr = NoAddr
        BY <2>4, <2>7 DEF Sound, Ours, Holding
      <3>4. Good(v, L) /\ Running(v)
        BY <2>2, <2>4, <3>1, <3>2, <3>3 DEF Good, Covered, Scripts, Left, Sound, Ours, Running, Holding
      <3>5. recv_incoming(w) = set_timer(send_raw_packet(v, "REQUEST"), RETRY)
        BY <2>1, <2>4, <2>7, <3>2, <3>4 DEF next_action, send_request
      <3> QED BY <3>4, <3>5, AskedGood DEF Timer
    <2>8. CASE /\ x.dh.state \in {"REQUEST", "RENEWING"} /\ v = set_state(x, "LEASED")
               /\ m.srv = x.dh.srv /\ m.type = "ACK"
      <3>1. /\ v \in Worlds /\ v.addr = x.addr /\ v.net = x.net /\ v.dh.sock = x.dh.sock /\ v.dh.end = x.dh.end
            /\ v.dh.state = "LEASED" /\ v.dh.srv = x.dh.srv
            /\ v.dh.script = x.dh.script /\ v.dh.pid = x.dh.pid /\ v.dh.fed = x.dh.fed
        BY <2>4, <2>8, StateSet DEF States
      <3>2. Granted(v, L)
        BY <2>2, <2>4, <2>8, <3>1 DEF Granted, Answer, Sound, Running
      <3>3. Running(v)
        BY <3>2 DEF Granted
      <3>4. CASE x.dh.state = "REQUEST"
        <4>1. recv_incoming(w) = lease_obtained(v)
          BY <2>1, <2>4, <3>1, <3>3, <3>4 DEF next_action
        <4> QED BY <3>2, <4>1, ObtainedGood DEF Timer
      <3>5. CASE x.dh.state = "RENEWING"
        <4>1. recv_incoming(w) = lease_renewed(v)
          BY <2>1, <2>4, <3>1, <3>3, <3>5 DEF next_action
        <4>2. Scripts(v)
          BY <2>4, <3>1, <3>5 DEF Scripts, Holding
        <4> QED BY <3>2, <4>1, <4>2, RenewedGood DEF Timer
      <3> QED BY <2>8, <3>4, <3>5
    <2>9. CASE x.dh.state = "RENEWING" /\ v = set_state(x, "DECONF")
      <3>1. /\ v \in Worlds /\ v.addr = x.addr /\ v.net = x.net /\ v.dh.sock = x.dh.sock /\ v.dh.end = x.dh.end
            /\ v.dh.state = "DECONF" /\ v.dh.srv = x.dh.srv
        BY <2>4, <2>9, StateSet DEF States
      <3>2. Running(v)
        BY <2>2, <3>1 DEF Running
      <3>3. recv_incoming(w) = retry_discover(v)
        BY <2>1, <2>4, <2>9, <3>1, <3>2 DEF next_action
      <3> QED BY <2>4, <3>1, <3>2, <3>3, RetryGood DEF Sound, Ours, Timer
    <2> QED BY <2>3, <2>5, <2>6, <2>7, <2>8, <2>9 DEF Taken
  <1> QED BY <1>1, <1>2, <1>3

-----------------------------------------------------------------------------
(* Signals *)

\* Giving the lease back and removing the address leaves none.
LEMMA ReleaseGood ==
  ASSUME Setting, NEW w, NEW L, Good(w, L), Running(w)
  PROVE  LET u == quit(deconf_iface(release_address(w)), "SIGINT") IN Good(u, L) /\ ~Running(u)
  <1> DEFINE r == release_address(w)  v == deconf_iface(r)
  <1>0. w \in Worlds /\ OnTheWay(w.net, L) /\ Scripts(w) /\ Sound(w, L)
    BY DEF Good
  <1>1. /\ r \in Worlds /\ r.addr = w.addr /\ r.dh.srv = w.dh.srv /\ r.dh.state \notin Holding
        /\ OnTheWay(r.net, L)
    <2>1. CASE w.dh.state \in Holding
      <3> DEFINE x == send_raw_packet(w, "RELEASE")
      <3>1. r = set_state(x, "RELEASED")
        BY <2>1 DEF release_address
      <3>2. /\ x \in Worlds /\ Kept(x, w)
            /\ \A m \in x.net : m \in w.net \/ (m.type = "RELEASE" /\ m.to # "client")
        BY <1>0, Sent
      <3> HIDE DEF x
      <3>3. r \in Worlds /\ r.net = x.net /\ r.addr = x.addr /\ r.dh.srv = x.dh.srv /\ r.dh.state = "RELEASED"
        BY <3>1, <3>2, StateSet DEF States
      <3>4. OnTheWay(x.net, L)
        BY <1>0, <3>2 DEF OnTheWay
      <3> QED BY <3>2, <3>3, <3>4 DEF Kept, Holding
    <2>2. CASE w.dh.state \notin Holding
      <3>1. r = w
        BY <2>2 DEF release_address
      <3> QED BY <1>0, <2>2, <3>1
    <2> QED BY <2>1, <2>2
  <1> HIDE DEF r
  <1>2. r.addr # NoAddr => r.addr.ip = r.dh.srv
    BY <1>0, <1>1 DEF Sound, Ours
  <1>3. v \in Worlds /\ v.dh = r.dh /\ v.net = r.net /\ v.addr = NoAddr
    BY <1>1, <1>2, Deconfigured
  <1> HIDE DEF v
  <1>4. Covered(v, L) /\ Scripts(v) /\ OnTheWay(v.net, L)
    BY <1>1, <1>3 DEF Covered, Scripts
  <1>5. "SIGINT" \in Ends /\ "SIGINT" # None
    BY DEF None, Ends
  <1> QED BY <1>3, <1>4, <1>5, QuitGood DEF v, r

\* A signal is handled, and SIGALRM sets the timer again.
LEMMA SignalGood ==
  ASSUME Setting, NEW w, NEW L, Good(w, L), Running(w),
         NEW sig \in {SIGHUP, SIGINT, SIGALRM, SIGTERM, SIGCHLD}
  PROVE  LET u == handle_signal(w, sig) IN
         Good(u, L) /\ Timer(u, w) /\ (sig = SIGALRM /\ Running(u) => u.dh.timer > 0)
  <1> DEFINE u == handle_signal(w, sig)
  <1>0. w \in Worlds /\ Covered(w, L) /\ OnTheWay(w.net, L) /\ Scripts(w) /\ Sound(w, L)
    BY DEF Good
  <1> USE DEF SIGHUP, SIGINT, SIGALRM, SIGTERM, SIGCHLD
  <1>1. CASE sig = SIGALRM
    <2> DEFINE x == [w EXCEPT !.dh.timeact = FALSE]
    <2>1. x \in Worlds /\ Kept(x, w) /\ x.net = w.net /\ x.dh.sock = w.dh.sock
      BY <1>0 DEF Worlds, Process, Kept
    <2>2. u = timeout_waiting(x)
      <3>1. Set(w, "timeact", FALSE) = x
        BY Zenon DEF Set
      <3>2. u = timeout_waiting(Set(w, "timeact", FALSE))
        BY <1>1 DEF handle_signal
      <3> QED BY <3>1, <3>2
    <2> HIDE DEF x, u
    <2>3. Good(x, L) /\ Running(x)
      BY <2>1, SameGood
    <2>4. Good(u, L) /\ (Running(u) => u.dh.timer > 0)
      BY <2>2, <2>3, TimeoutGood
    <2> QED BY <2>4 DEF Timer, u
  <1>2. CASE sig = SIGCHLD
    <2> DEFINE x == [w EXCEPT !.dh.pid = 0]
    <2>1. /\ x \in Worlds /\ Apart(x, w) /\ x.dh.script = w.dh.script /\ x.dh.fed = w.dh.fed
      BY <1>0 DEF Worlds, Process, Apart
    <2>2. u = run_next_script(x)
      BY <1>2 DEF handle_signal, Set
    <2> HIDE DEF x, u
    <2>3. /\ u \in Worlds /\ Apart(u, x)
          /\ (\A i \in Present : i \in x.dh.fed \/ i > x.dh.script)
               => \A i \in Present : i \in u.dh.fed \/ (i > u.dh.script /\ u.dh.pid # 0)
      BY <2>1, <2>2, ScriptRun
    <2>4. Scripts(u)
      BY <1>0, <2>1, <2>3 DEF Scripts, Apart
    <2>5. Good(u, L)
      BY <2>1, <2>3, <2>4 DEF Good, Apart, Covered, Left, Sound, Ours, Running
    <2> QED BY <1>2, <2>1, <2>3, <2>5 DEF Timer, Apart, u
  <1>3. CASE sig = SIGINT
    <2>1. u = quit(deconf_iface(release_address(w)), "SIGINT")
      BY <1>3 DEF handle_signal
    <2> HIDE DEF u
    <2>2. Good(u, L) /\ ~Running(u)
      BY <2>1, ReleaseGood
    <2> QED BY <1>3, <2>2 DEF Timer, u
  <1>4. CASE sig = SIGHUP
    <2> DEFINE v == deconf_iface(w)
    <2>1. u = quit(v, "SIGHUP")
      BY <1>4 DEF handle_signal
    <2>2. v \in Worlds /\ v.dh = w.dh /\ v.net = w.net /\ v.addr = NoAddr
      BY <1>0, Deconfigured DEF Sound, Ours
    <2> HIDE DEF u, v
    <2>3. Covered(v, L) /\ Scripts(v) /\ OnTheWay(v.net, L)
      BY <1>0, <2>2 DEF Covered, Scripts
    <2>4. "SIGHUP" \in Ends /\ "SIGHUP" # None
      BY DEF None, Ends
    <2>5. Good(u, L) /\ ~Running(u)
      BY <2>1, <2>2, <2>3, <2>4, QuitGood
    <2> QED BY <1>4, <2>5 DEF Timer, u
  <1>5. CASE sig = SIGTERM
    <2>1. u = quit(w, "SIGTERM")
      BY <1>5 DEF handle_signal
    <2> HIDE DEF u
    <2>2. "SIGTERM" \in Ends /\ "SIGTERM" # None /\ "SIGTERM" \notin {"SIGINT", "SIGHUP"}
      BY DEF None, Ends
    <2>3. Good(u, L) /\ ~Running(u)
      BY <1>0, <2>1, <2>2, QuitGood, Zenon
    <2> QED BY <1>5, <2>3 DEF Timer, u
  <1> QED BY <1>1, <1>2, <1>3, <1>4, <1>5

-----------------------------------------------------------------------------
(* The steps *)

\* start_discover: nothing is configured, and a first request is sent.
LEMMA InitGood == ASSUME Setting, Init PROVE IInv
  <1> DEFINE L == [s \in Servers |-> 0]
             w0 == [dh |-> [state |-> None, count |-> 0, timer |-> 0, timeact |-> FALSE,
                            raw |-> TRUE, sock |-> <<>>, srv |-> None, age |-> 0,
                            script |-> 0, pid |-> 0, fed |-> {}, end |-> None],
                    net |-> {}, addr |-> NoAddr]
             x == set_state(w0, "DISCOVER")
             u == set_timer(send_raw_packet(x, "DISCOVER"), RETRY)
             y == [dh |-> [state |-> "DISCOVER", count |-> 0, timer |-> 0, timeact |-> FALSE,
                            raw |-> TRUE, sock |-> <<>>, srv |-> None, age |-> 0,
                            script |-> 0, pid |-> 0, fed |-> {}, end |-> None],
                    net |-> {}, addr |-> NoAddr]
  <1>1. x = y
    BY Zenon DEF set_state
  <1>2. y \in Worlds
    <2>1. y.dh \in Process
      <3>1. <<>> \in Seq(Packet) /\ {} \in SUBSET (1..3) /\ 0 \in 0..3 /\ 0 \in Nat
        OBVIOUS
      <3>2. "DISCOVER" \in States /\ None \in Ends /\ None \in Servers \cup {None}
        BY DEF States, Ends
      <3> QED BY <3>1, <3>2, Zenon DEF Process
    <2>2. NoAddr \in Address
      BY DEF NoAddr, Address
    <2> QED BY <2>1, <2>2, Zenon DEF Worlds
  <1>3. /\ y.dh.state = "DISCOVER" /\ y.dh.sock = <<>> /\ y.net = {} /\ y.addr = NoAddr
        /\ y.dh.end = None
    OBVIOUS
  <1>4. u \in Worlds /\ u.dh.timer > 0 /\ Good(u, L)
    <2> HIDE DEF y, L
    <2>1. Good(y, L) /\ Running(y)
      BY <1>2, <1>3, EmptyWaits
         DEF Good, Running, Covered, Scripts, Left, OnTheWay, Sound, Ours, NoRelease, Holding, None
    <2> QED BY <1>1, <2>1, AskedGood DEF Good, u
  <1>5. dh = u.dh /\ net = u.net /\ addr = u.addr /\ leases = L /\ revents = {} /\ signals = {}
    BY Zenon DEF Init, send_discover
  <1>6. L \in [Servers -> Nat]
    OBVIOUS
  <1> HIDE DEF u, L
  <1>7. World = u
    BY <1>4, <1>5 DEF World, Worlds
  <1> QED BY <1>4, <1>5, <1>6, <1>7 DEF IInv, Typed

\* what a handler leaves is the world after the step
LEMMA Applied ==
  ASSUME NEW u \in Worlds, Apply(u)
  PROVE  World' = u
  BY DEF Apply, World, Worlds

LEMMA PollGood == ASSUME IInv, poll PROVE IInv'
  <1>1. World' = World /\ leases' = leases /\ signals' = signals /\ dh' = dh
    BY DEF poll, World
  <1>2. revents' \subseteq {"signal", "packet"}
    BY DEF poll
  <1> QED BY <1>1, <1>2 DEF IInv, Typed

\* A signal is handled: the timer's brings a new one or the end.
LEMMA SignalsGood == ASSUME Setting, IInv, check_signals PROVE IInv'
  <1>1. PICK sig \in signals : Apply(handle_signal(World, sig)) /\ signals' = signals \ {sig}
    BY DEF check_signals
  <1> DEFINE u == handle_signal(World, sig)
  <1>2. sig \in {SIGHUP, SIGINT, SIGALRM, SIGTERM, SIGCHLD} /\ Good(World, leases) /\ Running(World)
    BY DEF IInv, Typed, check_signals
  <1>3. Good(u, leases) /\ Timer(u, World) /\ (sig = SIGALRM /\ Running(u) => u.dh.timer > 0)
    BY <1>2, SignalGood
  <1> HIDE DEF u
  <1>4. World' = u
    BY <1>1, <1>3, Applied DEF Good, u
  <1>5. leases' = leases /\ revents' \subseteq {"signal", "packet"}
    BY DEF check_signals, IInv, Typed
  <1>6. Typed'
    BY <1>1, <1>5 DEF IInv, Typed
  <1>7. dh' = u.dh /\ World.dh = dh
    BY <1>4 DEF World
  <1>8. Running(u) => u.dh.timer > 0 \/ SIGALRM \in signals'
    BY <1>1, <1>2, <1>3, <1>7 DEF Timer, IInv
  <1> QED BY <1>3, <1>4, <1>5, <1>6, <1>7, <1>8 DEF IInv

LEMMA IncomingGood == ASSUME Setting, IInv, check_incoming PROVE IInv'
  <1> DEFINE u == recv_incoming(World)
  <1>1. Good(World, leases) /\ Running(World) /\ Apply(u)
    BY DEF IInv, check_incoming
  <1>2. Good(u, leases) /\ Timer(u, World)
    BY <1>1, RecvGood
  <1> HIDE DEF u
  <1>3. World' = u
    BY <1>1, <1>2, Applied DEF Good
  <1>4. leases' = leases /\ signals' = signals /\ revents' = {}
    BY DEF check_incoming
  <1>5. dh' = u.dh /\ World.dh = dh
    BY <1>3 DEF World
  <1> QED BY <1>1, <1>2, <1>3, <1>4, <1>5 DEF IInv, Typed, Timer

\* A signal comes: a script has ended, or the user wants something.
LEMMA RaisedGood ==
  ASSUME IInv, NEW sig \in {SIGHUP, SIGINT, SIGALRM, SIGTERM, SIGCHLD},
         signals' = signals \cup {sig}, UNCHANGED <<dh, revents, net, addr, leases>>
  PROVE  IInv'
  <1>1. World' = World
    BY DEF World
  <1> QED BY <1>1 DEF IInv, Typed

\* A server answers: what it promises it counts from now on, and what it has
\* promised it keeps, as dhconf releases nothing before it ends.
LEMMA ServerGood == ASSUME Setting, IInv, NEW s \in Servers, Server(s) PROVE IInv'
  <1>1. PICK m \in net :
          /\ Running(World)
          /\ \E answer \in {"OFFER", "ACK", "NAK", None} :
               /\ net' = (net \ {m}) \cup (IF answer = None THEN {}
                           ELSE {[type |-> answer, to |-> "client", srv |-> s, late |-> FALSE]})
               /\ leases' = [leases EXCEPT ![s] =
                               CASE answer = "ACK" -> LEASE + DELAY
                                 [] m.type = "RELEASE" /\ m.srv = s -> 0
                                 [] OTHER -> @]
    <2>1. PICK m \in net : /\ Running(World)
            /\ \E answer \in CASE m.type = "DISCOVER" -> {"OFFER"}
                              [] m.type = "REQUEST" /\ m.srv = s -> {"ACK", "NAK"}
                              [] m.type = "RENEW" /\ m.srv = s /\ leases[s] > 0 -> {"ACK", "NAK"}
                              [] m.type = "RENEW" /\ m.srv # s -> {"NAK"}
                              [] OTHER -> {None} :
               /\ net' = (net \ {m}) \cup (IF answer = None THEN {}
                           ELSE {[type |-> answer, to |-> "client", srv |-> s, late |-> FALSE]})
               /\ leases' = [leases EXCEPT ![s] =
                               CASE answer = "ACK" -> LEASE + DELAY
                                 [] m.type = "RELEASE" /\ m.srv = s -> 0
                                 [] OTHER -> @]
      BY Zenon DEF Server
    <2>2. (CASE m.type = "DISCOVER" -> {"OFFER"}
             [] m.type = "REQUEST" /\ m.srv = s -> {"ACK", "NAK"}
             [] m.type = "RENEW" /\ m.srv = s /\ leases[s] > 0 -> {"ACK", "NAK"}
             [] m.type = "RENEW" /\ m.srv # s -> {"NAK"}
             [] OTHER -> {None}) \subseteq {"OFFER", "ACK", "NAK", None}
      OBVIOUS
    <2> HIDE DEF None
    <2> QED BY <2>1, <2>2, Zenon
  <1>2. PICK answer \in {"OFFER", "ACK", "NAK", None} :
               /\ net' = (net \ {m}) \cup (IF answer = None THEN {}
                           ELSE {[type |-> answer, to |-> "client", srv |-> s, late |-> FALSE]})
               /\ leases' = [leases EXCEPT ![s] =
                               CASE answer = "ACK" -> LEASE + DELAY
                                 [] m.type = "RELEASE" /\ m.srv = s -> 0
                                 [] OTHER -> @]
    BY <1>1
  <1> DEFINE r == [type |-> answer, to |-> "client", srv |-> s, late |-> FALSE]
  <1>3. /\ leases \in [Servers -> Nat] /\ Good(World, leases) /\ Sound(World, leases)
        /\ World.net = net /\ World.dh = dh /\ World.addr = addr
    BY <1>1 DEF IInv, Typed, Good, World
  <1>4. LEASE \in Nat /\ DELAY \in Nat /\ DELAY > 0
    BY DEF Setting
  <1>5. m.type # "RELEASE"
    BY <1>3 DEF Sound, NoRelease
  <1>6. leases' = IF answer = "ACK" THEN [leases EXCEPT ![s] = LEASE + DELAY] ELSE leases
    BY <1>2, <1>3, <1>5
  <1>7. /\ leases' \in [Servers -> Nat]
        /\ \A t \in Servers : leases'[t] = leases[t] \/ leases'[t] >= LEASE + 1
        /\ answer = "ACK" => leases'[s] >= LEASE + 1
    BY <1>3, <1>4, <1>6
  <1>8. /\ dh' = dh /\ revents' = revents /\ signals' = signals /\ addr' = addr
        /\ World'.dh = dh /\ World'.net = net' /\ World'.addr = addr
    BY DEF Server, World
  <1>9. \A q \in net' : q \in net \/ (q = r /\ answer # None)
    BY <1>2
  <1>10. answer # None => r \in Packet /\ r.to = "client" /\ r.srv = s /\ r.type = answer /\ r.late = FALSE
    <2>1. answer # None => answer \in Kinds
      BY DEF Kinds
    <2> QED BY <2>1, Zenon DEF Packet
  <1> HIDE DEF r
  <1>11. World' \in Worlds
    <2>1. net \in SUBSET Packet /\ dh \in Process /\ addr \in Address
      BY <1>3 DEF Good, Worlds
    <2>2. net' \in SUBSET Packet
      BY <1>9, <1>10, <2>1
    <2>3. World' = [dh |-> dh, net |-> net', addr |-> addr]
      BY <1>8 DEF World
    <2> QED BY <2>1, <2>2, <2>3 DEF Worlds
  <1>12. OnTheWay(World'.net, leases')
    <2> SUFFICES ASSUME NEW q \in net', q.to = "client"
                 PROVE  q.srv \in Servers /\ (q.type = "ACK" => leases'[q.srv] >= IF q.late THEN LEASE ELSE LEASE + 1)
      BY <1>8 DEF OnTheWay
    <2>1. CASE q \in net
      <3>1. q.srv \in Servers /\ (q.type = "ACK" => leases[q.srv] >= IF q.late THEN LEASE ELSE LEASE + 1)
        BY <1>3, <2>1 DEF Good, OnTheWay
      <3> QED BY <1>3, <1>4, <1>7, <3>1
    <2>2. CASE q = r /\ answer # None
      BY <1>7, <1>10, <2>2
    <2> QED BY <1>9, <2>1, <2>2
  <1>13. Covered(World', leases')
    BY <1>3, <1>4, <1>7, <1>8 DEF Good, Covered
  <1>14. Scripts(World') /\ Left(World')
    BY <1>3, <1>8 DEF Good, Scripts, Left
  <1>15. Sound(World', leases')
    <2>1. Waiting(dh.sock, leases')
      <3>1. Waiting(dh.sock, leases)
        BY <1>3 DEF Sound
      <3>2. ASSUME NEW k \in 1..Len(dh.sock)
            PROVE  dh.sock[k].srv \in Servers /\ (dh.sock[k].type = "ACK" => leases'[dh.sock[k].srv] >= LEASE)
        <4> DEFINE q == dh.sock[k]
        <4>1. q.srv \in Servers /\ (q.type = "ACK" => leases[q.srv] >= LEASE)
          BY <3>1 DEF Waiting
        <4> HIDE DEF q
        <4>2. q.type = "ACK" => leases'[q.srv] >= LEASE
          BY <1>3, <1>4, <1>7, <4>1
        <4> QED BY <4>1, <4>2 DEF q
      <3> QED BY <3>2 DEF Waiting
    <2>2. NoRelease(net')
      BY <1>3, <1>9, <1>10, <1>2 DEF Sound, NoRelease, None
    <2>3. Ours(World')
      BY <1>3, <1>8 DEF Sound, Ours
    <2> QED BY <1>3, <1>8, <2>1, <2>2, <2>3 DEF Sound
  <1>16. Good(World', leases')
    BY <1>11, <1>12, <1>13, <1>14, <1>15 DEF Good
  <1> QED BY <1>7, <1>8, <1>16, <1>1 DEF IInv, Typed, Running

\* An answer reaches the socket, or a closed one.
LEMMA DeliverGood == ASSUME Setting, IInv, Deliver PROVE IInv'
  <1>1. PICK m \in net :
          /\ m.to = "client" /\ Running(World) /\ net' = net \ {m}
          /\ dh' = IF dh.raw THEN [dh EXCEPT !.sock = Append(@, m)] ELSE dh
          /\ UNCHANGED <<revents, signals, addr, leases>>
    BY DEF Deliver
  <1>2. /\ Good(World, leases) /\ Sound(World, leases) /\ World \in Worlds
        /\ World.net = net /\ World.dh = dh /\ World.addr = addr
    BY <1>1 DEF IInv, Good, World
  <1>3. /\ dh \in Process /\ net \in SUBSET Packet /\ addr \in Address /\ m \in Packet
        /\ dh.sock \in Seq(Packet)
    BY <1>2 DEF Worlds, Process
  <1>4. LEASE \in Nat
    BY DEF Setting
  <1>5. m.srv \in Servers /\ (m.type = "ACK" => leases[m.srv] >= LEASE)
    <2>1. m.srv \in Servers /\ (m.type = "ACK" => leases[m.srv] >= IF m.late THEN LEASE ELSE LEASE + 1)
      BY <1>1, <1>2 DEF Good, OnTheWay
    <2> QED BY <1>4, <2>1 DEF IInv, Typed
  <1> DEFINE q == Append(dh.sock, m)
  <1>6. q \in Seq(Packet) /\ Waiting(q, leases)
    <2>1. /\ q \in Seq(Packet)
          /\ \A k \in 1..Len(q) : q[k] = m \/ (k \in 1..Len(dh.sock) /\ q[k] = dh.sock[k])
      BY <1>3
    <2>2. Waiting(dh.sock, leases)
      BY <1>2 DEF Sound
    <2> HIDE DEF q
    <2> QED BY <1>5, <2>1, <2>2 DEF Waiting
  <1> HIDE DEF q
  <1>7. /\ dh' \in Process /\ (dh'.sock = q \/ dh'.sock = dh.sock)
        /\ dh'.state = dh.state /\ dh'.srv = dh.srv /\ dh'.end = dh.end /\ dh'.timer = dh.timer
        /\ dh'.script = dh.script /\ dh'.pid = dh.pid /\ dh'.fed = dh.fed
    <2>1. ASSUME NEW e \in Seq(Packet)
          PROVE  LET d == [dh EXCEPT !.sock = e] IN
                 /\ d \in Process /\ d.sock = e
                 /\ d.state = dh.state /\ d.srv = dh.srv /\ d.end = dh.end /\ d.timer = dh.timer
                 /\ d.script = dh.script /\ d.pid = dh.pid /\ d.fed = dh.fed
      BY <1>3 DEF Process
    <2>2. dh' = [dh EXCEPT !.sock = q] \/ dh' = dh
      BY <1>1 DEF q
    <2>3. CASE dh' = [dh EXCEPT !.sock = q]
      BY <1>6, <2>1, <2>3
    <2>4. CASE dh' = dh
      BY <1>3, <2>4
    <2> QED BY <2>2, <2>3, <2>4
  <1>8. /\ World' = [dh |-> dh', net |-> net \ {m}, addr |-> addr]
        /\ World'.dh = dh' /\ World'.net = net \ {m} /\ World'.addr = addr
    BY <1>1 DEF World
  <1>9. World' \in Worlds
    BY <1>3, <1>7, <1>8 DEF Worlds
  <1>10. Covered(World', leases) /\ Scripts(World') /\ Left(World') /\ OnTheWay(World'.net, leases)
    BY <1>2, <1>7, <1>8 DEF Good, Covered, Scripts, Left, OnTheWay
  <1>11. Sound(World', leases)
    <2>1. Waiting(World'.dh.sock, leases)
      BY <1>2, <1>6, <1>7, <1>8 DEF Sound
    <2> QED BY <1>2, <1>7, <1>8, <2>1 DEF Sound, Ours, NoRelease
  <1>12. Good(World', leases)
    BY <1>9, <1>10, <1>11 DEF Good
  <1> QED BY <1>1, <1>7, <1>8, <1>12, <1>2 DEF IInv, Typed, Running

\* A second passes: leases and lifetimes shrink alike, an ACK becomes late and
\* no later, and the timer that runs out becomes a signal.
LEMMA TickGood == ASSUME Setting, IInv, Tick PROVE IInv'
  <1>1. /\ leases \in [Servers -> Nat] /\ Good(World, leases) /\ World \in Worlds
        /\ World.net = net /\ World.dh = dh /\ World.addr = addr
    BY DEF IInv, Typed, Good, World
  <1>2. /\ dh \in Process /\ net \in SUBSET Packet /\ addr \in Address
        /\ dh.timer \in Nat /\ dh.age \in Nat /\ LEASE \in Nat
    BY <1>1 DEF Worlds, Process, Setting
  <1>3. /\ dh' \in Process
        /\ dh'.state = dh.state /\ dh'.srv = dh.srv /\ dh'.end = dh.end /\ dh'.sock = dh.sock
        /\ dh'.script = dh.script /\ dh'.pid = dh.pid /\ dh'.fed = dh.fed
        /\ dh'.timer = IF dh.timer = 0 THEN 0 ELSE dh.timer - 1
    <2> DEFINE t == IF dh.timer = 0 THEN 0 ELSE dh.timer - 1
               a == IF dh.age < LEASE THEN dh.age + 1 ELSE dh.age
    <2>1. t \in Nat /\ a \in Nat
      BY <1>2
    <2>2. dh' = [dh EXCEPT !.timer = t, !.age = a]
      BY DEF Tick
    <2> HIDE DEF t, a
    <2>3. /\ dh' \in Process
          /\ dh'.state = dh.state /\ dh'.srv = dh.srv /\ dh'.end = dh.end /\ dh'.sock = dh.sock
          /\ dh'.script = dh.script /\ dh'.pid = dh.pid /\ dh'.fed = dh.fed /\ dh'.timer = t
      BY <1>2, <2>1, <2>2 DEF Process
    <2> QED BY <2>3 DEF t
  <1>4. leases' = [s \in Servers |-> IF leases[s] = 0 THEN 0 ELSE leases[s] - 1]
    BY DEF Tick
  <1>5. /\ leases' \in [Servers -> Nat]
        /\ \A s \in Servers : leases[s] > 0 => leases'[s] = leases[s] - 1
    BY <1>1, <1>4
  <1>6. /\ addr' \in Address
        /\ addr' # NoAddr => addr # NoAddr /\ addr'.ip = addr.ip /\ addr.left > 1 /\ addr'.left = addr.left - 1
    <2>1. addr' = IF addr.left <= 1 THEN NoAddr ELSE [addr EXCEPT !.left = @ - 1]
      BY DEF Tick
    <2>2. addr.left \in Nat /\ NoAddr \in Address /\ NoAddr.left = 0
      BY <1>2 DEF Address, NoAddr
    <2> QED BY <1>2, <2>1, <2>2 DEF Address
  <1>7. net' = {[m EXCEPT !.late = TRUE] : m \in {q \in net : q.to = "client" /\ ~q.late}}
    BY DEF Tick
  <1>8. \A q \in net' : \E m \in net :
          /\ q \in Packet /\ m.to = "client" /\ ~m.late
          /\ q.to = m.to /\ q.srv = m.srv /\ q.type = m.type /\ q.late = TRUE
    BY <1>2, <1>7 DEF Packet
  <1>9. World' = [dh |-> dh', net |-> net', addr |-> addr'] /\ World'.dh = dh' /\ World'.net = net' /\ World'.addr = addr'
    BY DEF World
  <1>10. World' \in Worlds
    BY <1>3, <1>6, <1>8, <1>9 DEF Worlds
  <1>11. OnTheWay(World'.net, leases')
    <2> SUFFICES ASSUME NEW q \in net'
                 PROVE  q.srv \in Servers /\ (q.type = "ACK" => leases'[q.srv] >= IF q.late THEN LEASE ELSE LEASE + 1)
      BY <1>9 DEF OnTheWay
    <2>1. PICK m \in net : /\ m.to = "client" /\ ~m.late /\ q.srv = m.srv /\ q.type = m.type /\ q.late = TRUE
      BY <1>8
    <2>2. m.srv \in Servers /\ (m.type = "ACK" => leases[m.srv] >= LEASE + 1)
      BY <1>1, <2>1 DEF Good, OnTheWay
    <2>3. q.type = "ACK" => leases'[q.srv] >= LEASE
      BY <1>1, <1>2, <1>5, <2>1, <2>2
    <2> QED BY <2>1, <2>2, <2>3
  <1>12. Covered(World', leases')
    <2>1. Covered(World, leases)
      BY <1>1 DEF Good
    <2> QED BY <1>1, <1>2, <1>5, <1>6, <1>9, <2>1 DEF Covered
  <1>13. Scripts(World') /\ Left(World')
    <2>1. addr = NoAddr => addr' = NoAddr
      BY <1>6
    <2> QED BY <1>1, <1>3, <1>9, <2>1 DEF Good, Scripts, Left
  <1>14. CASE Running(World)
    <2>1. dh.sock = <<>> /\ signals = {} /\ revents = {} /\ Sound(World, leases)
      BY <1>1, <1>14 DEF Tick, Good
    <2>2. Waiting(World'.dh.sock, leases')
      BY <1>3, <1>9, <2>1, EmptyWaits
    <2>3. NoRelease(World'.net)
      BY <1>1, <1>8, <1>9, <2>1 DEF Sound, NoRelease
    <2>4. Sound(World', leases')
      BY <1>1, <1>3, <1>6, <1>9, <2>1, <2>2, <2>3 DEF Sound, Ours
    <2>5. Good(World', leases')
      BY <1>10, <1>11, <1>12, <1>13, <2>4 DEF Good
    <2>6. dh'.timer > 0 \/ SIGALRM \in signals'
      BY <1>2, <1>3, <1>14, <2>1 DEF IInv, Tick
    <2>7. Typed'
      BY <1>5, <2>1 DEF Typed, IInv, Tick
    <2> QED BY <2>5, <2>6, <2>7 DEF IInv
  <1>15. CASE ~Running(World)
    <2>1. ~Running(World')
      BY <1>1, <1>3, <1>9, <1>15 DEF Running
    <2>2. Good(World', leases')
      BY <1>10, <1>11, <1>12, <1>13, <2>1 DEF Good
    <2>3. Typed'
      BY <1>5 DEF Typed, IInv, Tick
    <2> QED BY <2>1, <2>2, <2>3 DEF IInv
  <1> QED BY <1>14, <1>15

LEMMA NextGood == ASSUME Setting, IInv, [Next]_dhcp_vars PROVE IInv'
  <1>1. CASE Daemon
    BY <1>1, PollGood, SignalsGood, IncomingGood DEF Daemon
  <1>2. CASE Script_ends
    <2>1. SIGCHLD \in {SIGHUP, SIGINT, SIGALRM, SIGTERM, SIGCHLD}
      OBVIOUS
    <2> QED BY <1>2, <2>1, RaisedGood DEF Script_ends
  <1>3. ASSUME NEW sig \in Orders, Order(sig) PROVE IInv'
    <2>1. sig \in {SIGHUP, SIGINT, SIGALRM, SIGTERM, SIGCHLD}
      BY DEF Setting, SIGHUP, SIGINT, SIGTERM
    <2> QED BY <1>3, <2>1, RaisedGood DEF Order
  <1>4. ASSUME NEW s \in Servers, Server(s) PROVE IInv'
    BY <1>4, ServerGood
  <1>5. CASE Deliver
    BY <1>5, DeliverGood
  <1>6. CASE Tick
    BY <1>6, TickGood
  <1>7. CASE UNCHANGED dhcp_vars
    <2>1. World' = World
      BY <1>7 DEF dhcp_vars, World
    <2> QED BY <1>7, <2>1 DEF dhcp_vars, IInv, Typed
  <1> QED BY <1>1, <1>2, <1>3, <1>4, <1>5, <1>6, <1>7 DEF Next

\* The invariant says no less than the properties.
LEMMA GoodIsSound == ASSUME Setting, IInv PROVE DhcpSound
  <1>1. Good(World, leases) /\ World.dh = dh /\ World.addr = addr /\ leases \in [Servers -> Nat]
    BY DEF IInv, Typed, World
  <1>2. AddrIsOurs
    BY <1>1 DEF Good, Sound, Ours, AddrIsOurs
  <1>3. AddrLeased
    BY <1>1 DEF Good, Covered, AddrLeased, Setting
  <1>4. LeftClean
    BY <1>1 DEF Good, Left, LeftClean
  <1>5. Watched
    BY DEF IInv, Watched
  <1>6. ScriptsRun
    BY <1>1 DEF Good, Scripts, ScriptsRun
  <1> QED BY <1>2, <1>3, <1>4, <1>5, <1>6 DEF DhcpSound

\* dhconf, whatever the servers answer or do not, whatever is lost or late,
\* whichever scripts there are and whatever the user orders: the address on
\* the interface is that of the lease held and never outlives it, a clean stop
\* leaves none, dhconf never sleeps without a timer, and every script gets the
\* options of the lease.
THEOREM DhcpCorrect == ASSUME Setting PROVE Spec => []DhcpSound
  <1>1. Init => IInv
    BY InitGood
  <1>2. IInv /\ [Next]_dhcp_vars => IInv'
    BY NextGood
  <1>3. IInv => DhcpSound
    BY GoodIsSound
  <1> QED BY <1>1, <1>2, <1>3, PTL DEF Spec

=============================================================================
