--------------------------------- MODULE Timed ---------------------------------
(***************************************************************************)
(* timed, the SNTP client: pings the servers it was given, picks the one   *)
(* with the shortest round trip and polls it, adjusting the system clock.  *)
(* One process in ppoll, woken by packets, by tictl, by the timeout of     *)
(* ppoll (short waits) or by a timer and SIGALRM (long ones).              *)
(*                                                                         *)
(* Around it: servers that answer, refuse or are silent, a network that    *)
(* loses, delays and duplicates, and the system clock, which is off by     *)
(* some amount from the clock of the servers.                              *)
(***************************************************************************)
EXTENDS Integers

CONSTANTS
  Addrs,    \* server addresses tictl may give
  NSERVS,   \* slots for servers
  PINGS,    \* attempts to ping, 1 in the code
  POLLS,    \* attempts to poll, 3 in the code
  TINY,     \* 1<<22, about 1ms: not worth an adjustment
  STEP,     \* 1<<31, 500ms: from here on the clock is stepped
  DELAY,    \* longest a packet takes one way
  LATE,     \* time between two requests
  OFF,      \* bound on how far the clock is off at first
  Commands  \* commands of tictl that are tried

\* What the proofs need to know about the constants.
Setting ==
  /\ NSERVS \in Nat /\ PINGS \in Nat /\ POLLS \in Nat /\ DELAY \in Nat
  /\ TINY \in Nat /\ STEP \in Nat /\ LATE \in Nat /\ OFF \in Nat
  /\ Commands \subseteq {"server", "retry", "reset", "force"}

VARIABLES
  tm,       \* struct top but for the servers
  servs,    \* slot -> address, flags and round trip time
  net,      \* requests answered or about to be; new: the last one sent
  sig,      \* SIGALRM is pending
  off       \* system time minus server time

time_vars == <<tm, servs, net, sig, off>>

Slots == 1..NSERVS
None == "none"
NoServ == [addr |-> None, flags |-> {}, rtt |-> 0]
Chosen == {"PING_SENT", "PING_WAIT", "POLL_SENT", "POLL_WAIT"}
abs(x) == IF x < 0 THEN -x ELSE x
larger(x, y) == IF x < y THEN y ELSE x
smaller(x, y) == IF x < y THEN x ELSE y
first(S) == CHOOSE i \in S : \A j \in S : i <= j
last(S) == CHOOSE i \in S : \A j \in S : j <= i

\* what a handler works on; dt is the adjustment it asks the kernel for
World == [tm |-> tm, servs |-> servs, net |-> net, dt |-> 0]
Alive == ~tm.quit

\* a step is applied at once, of a slew any part before the next one
adjusted(dt) ==
  IF abs(dt) >= STEP THEN {off + dt}
  ELSE {off + d : d \in IF dt < 0 THEN dt..0 ELSE 0..dt}

Apply(w) ==
  \E v \in {w} : /\ tm' = v.tm /\ servs' = v.servs /\ net' = v.net
                 /\ off' \in adjusted(v.dt)

quit(w) == [w EXCEPT !.tm.quit = TRUE]

(* Timers *)

\* long: more than 5 minutes, for which the timer is used and not ppoll
set_timed(w, state, long) ==
  [w EXCEPT !.tm.state = state, !.tm.alarm = ~long,
            !.tm.tistate = IF long THEN "ARMED" ELSE IF @ = "ARMED" THEN "CLEAR" ELSE @]

stop_service(w) ==
  [w EXCEPT !.tm.state = "IDLE", !.tm.current = 0, !.tm.failures = 0, !.tm.interval = 0,
            !.tm.tistate = "NONE"]

(* The clock *)

MAXEXP == 3   \* intervals are MIN_POLL_INTERVAL, its double and its fourfold
increase_interval(w) == [w EXCEPT !.tm.interval = IF @ < MAXEXP THEN @ + 1 ELSE @]
reset_interval(w) == [w EXCEPT !.tm.interval = 1]

correction(lo, hi, over) ==
  IF lo > 0 THEN -(lo + over) ELSE IF hi < 0 THEN -(hi - over) ELSE 0

\* (1<<31 is a negative int: the first test always holds, and the interval is
\* never decreased)
consider_synching(w) ==
  LET dt == correction(w.tm.lo, w.tm.hi, w.servs[w.tm.current].rtt \div 2) IN
  IF dt = 0 \/ abs(dt) < TINY THEN increase_interval(w)
  ELSE reset_interval([w EXCEPT !.dt = dt])

(* Servers *)

has(sv, yes, no) == yes \subseteq sv.flags /\ no \cap sv.flags = {}

\* of equals, the last
find_next_best(w) ==
  LET S == {i \in Slots : has(w.servs[i], {"SET", "RTT"}, {"KILL", "FAIL"})}
      best == {i \in S : \A j \in S : w.servs[i].rtt <= w.servs[j].rtt}
  IN  IF S = {} THEN 0 ELSE last(best)

ping_pass_complete(w) ==
  LET ai == find_next_best(w)
      v  == [w EXCEPT !.tm.current = ai]
      u  == CASE ai = 0 -> stop_service(v)
              [] ai # 0 /\ ai = w.tm.bestidx -> set_timed(consider_synching(v), "POLL_WAIT", TRUE)
              [] OTHER -> set_timed(v, "POLL_WAIT", FALSE)
  IN  [u EXCEPT !.tm.bestidx = 0, !.tm.bestrtt = 0]

\* mutant of select_unpinged: the server is not marked
select_unmarked(w) ==
  LET S == {i \in Slots : has(w.servs[i], {"SET"}, {"PING"})} IN
  [w EXCEPT !.tm.current = IF S = {} THEN 0 ELSE first(S)]

select_unpinged(w) ==
  LET S == {i \in Slots : has(w.servs[i], {"SET"}, {"PING"})} IN
  IF S = {} THEN [w EXCEPT !.tm.current = 0]
  ELSE [w EXCEPT !.tm.current = first(S), !.servs[first(S)].flags = @ \cup {"PING"}]

\* mutant of find_backup: takes the first server, measured or not
find_first(w) ==
  LET S == {i \in Slots : has(w.servs[i], {"SET"}, {})} IN IF S = {} THEN 0 ELSE first(S)

find_backup(w) == find_next_best(w)

switch_to_backup(w) ==
  LET i == find_backup(w) IN
  IF i = 0 THEN stop_service([w EXCEPT !.tm.current = 0])
  ELSE set_timed([w EXCEPT !.tm.current = i], "POLL_WAIT", FALSE)

mark_current(w, flag) ==
  [w EXCEPT !.servs[w.tm.current].flags = @ \cup {flag}, !.tm.current = 0]

next_or_complete(w) ==
  LET v == select_unpinged(w) IN
  IF v.tm.current # 0 THEN set_timed(v, "PING_WAIT", FALSE) ELSE ping_pass_complete(v)

drop_server(w, flag) ==
  LET v == mark_current(w, flag) IN
  CASE w.tm.state = "PING_SENT" -> next_or_complete(v)
    [] w.tm.state = "POLL_SENT" -> switch_to_backup(v)
    [] OTHER -> quit(v)

(* Packets *)

\* the socket is closed while nothing is expected, and with it go the answers
maybe_close_socket(w) ==
  IF w.tm.state \in {"IDLE", "POLL_WAIT"} THEN [w EXCEPT !.tm.sock = FALSE, !.net = {}] ELSE w

\* rtt is negative, or longer than the best of this pass, or the new best
add_ping_point(w, lo, hi) ==
  LET rtt == hi - lo
      v == [w EXCEPT !.servs[w.tm.current].rtt = rtt,
                     !.servs[w.tm.current].flags = @ \cup {"RTT"}]
      u == [v EXCEPT !.tm.lo = lo, !.tm.hi = hi, !.tm.interval = 0,
                     !.tm.bestidx = w.tm.current, !.tm.bestrtt = rtt]
      x == CASE rtt < 0 -> w
             [] rtt >= 0 /\ w.tm.bestidx # 0 /\ w.tm.bestrtt < rtt -> v
             [] OTHER -> u
      y == select_unpinged(x)
  IN  IF y.tm.current # 0 THEN [y EXCEPT !.tm.state = "PING_WAIT"] ELSE ping_pass_complete(y)

add_poll_point(w, lo, hi) ==
  LET rtt == larger(hi - lo, 0)
      v == [w EXCEPT !.servs[w.tm.current].rtt = smaller(@, rtt), !.tm.lo = lo, !.tm.hi = hi]
  IN  set_timed(consider_synching(v), "POLL_WAIT", TRUE)

\* kiss of death, server not synchronized, or the time
handle_packet(w, kind, lo, hi) ==
  LET v == [w EXCEPT !.tm.failures = 0] IN
  CASE kind = "kiss" -> drop_server(w, "KILL")
    [] kind = "unsync" -> drop_server(w, "FAIL")
    [] kind = "time" /\ w.tm.state = "PING_SENT" -> add_ping_point(v, lo, hi)
    [] kind = "time" /\ w.tm.state = "POLL_SENT" -> add_poll_point(v, lo, hi)
    [] OTHER -> v

\* mutant of valid_packet: any answer of the server will do
valid_any(w, m) == w.tm.ref

\* originate must match, once
valid_packet(w, m) == w.tm.ref /\ m.new

recv_packet(w, m) == w.tm.current # 0 /\ w.servs[w.tm.current].addr = m.srv

\* An answer to a request in net; it may come again, or never.  t1 and t2 are
\* the times the packets took.  For an answer to an earlier request, sendtime
\* is not that of the request.
check_packet ==
  \E m \in net, kind \in {"time", "kiss", "unsync"}, t1, t2 \in 0..DELAY :
    /\ Alive /\ tm.sock /\ recv_packet(World, m) /\ valid_packet(World, m)
    /\ Apply(LET lo == off - t1 + IF m.new THEN 0 ELSE LATE
                 hi == off + t2
             IN  maybe_close_socket(handle_packet([World EXCEPT !.tm.ref = FALSE], kind, lo, hi)))
    /\ UNCHANGED sig

send_packet(w) ==
  [w EXCEPT !.tm.sock = TRUE, !.tm.ref = TRUE,
            !.net = {[m EXCEPT !.new = FALSE] : m \in @}
                      \cup {[srv |-> w.servs[w.tm.current].addr, new |-> TRUE]}]

(* Timeouts; sent is whether sendto works *)

send_ping_request(w, sent) ==
  CASE sent -> set_timed(send_packet(w), "PING_SENT", FALSE)
    [] ~sent /\ w.tm.failures < PINGS ->
         set_timed([w EXCEPT !.tm.failures = @ + 1], "PING_WAIT", FALSE)
    [] OTHER -> next_or_complete(w)

handle_ping_timeout(w, sent) ==
  LET v == select_unpinged(w) IN
  CASE w.tm.failures < PINGS -> send_ping_request([w EXCEPT !.tm.failures = @ + 1], sent)
    [] w.tm.failures >= PINGS /\ v.tm.current # 0 -> send_ping_request(v, sent)
    [] OTHER -> ping_pass_complete(v)

send_poll_request(w, sent) ==
  CASE sent -> set_timed(send_packet(w), "POLL_SENT", FALSE)
    [] ~sent /\ w.tm.failures < POLLS ->
         set_timed([w EXCEPT !.tm.failures = @ + 1], "POLL_WAIT", FALSE)
    [] OTHER -> switch_to_backup(mark_current(w, "FAIL"))

handle_poll_timeout(w) ==
  IF w.tm.failures < POLLS
  THEN set_timed([w EXCEPT !.tm.failures = @ + 1], "POLL_WAIT", FALSE)
  ELSE set_timed(mark_current(w, "FAIL"), "SELECT", FALSE)

start_selection(w, sent) ==
  LET v == select_unpinged([w EXCEPT !.tm.bestidx = 0, !.tm.bestrtt = 0]) IN
  IF v.tm.current # 0 THEN send_ping_request(v, sent) ELSE ping_pass_complete(v)

handle_timeout(w, sent) ==
  maybe_close_socket(
    CASE w.tm.state = "SELECT" -> start_selection(w, sent)
      [] w.tm.state = "PING_SENT" -> handle_ping_timeout(w, sent)
      [] w.tm.state = "POLL_SENT" -> handle_poll_timeout(w)
      [] w.tm.state = "PING_WAIT" -> send_ping_request(w, sent)
      [] w.tm.state = "POLL_WAIT" -> send_poll_request(w, sent)
      [] OTHER -> w)

\* ppoll would block without a timeout
sleeps == tm.state = "IDLE" \/ tm.tistate = "ARMED"

timed_out_waiting ==
  /\ Alive /\ ~sleeps /\ ~sig
  /\ \E sent \in BOOLEAN : Apply(handle_timeout([World EXCEPT !.tm.alarm = FALSE], sent))
  /\ UNCHANGED sig

sleep_timer_expired ==
  /\ Alive /\ sig
  /\ sig' = FALSE
  /\ IF tm.tistate = "ARMED"
     THEN \E sent \in BOOLEAN : Apply(handle_timeout([World EXCEPT !.tm.tistate = "CLEAR"], sent))
     ELSE UNCHANGED <<tm, servs, net, off>>

(* tictl *)

wipe_failed(w) ==
  [w EXCEPT !.servs = [i \in Slots |->
    IF i # w.tm.current /\ "SET" \in w.servs[i].flags /\ {"KILL", "FAIL"} \cap w.servs[i].flags # {}
    THEN NoServ ELSE w.servs[i]]]

check_server(w, a) ==
  LET known == {i \in Slots : w.servs[i].addr = a}
      free  == {i \in Slots : "SET" \notin w.servs[i].flags}
  IN  CASE known # {} -> [w EXCEPT !.servs[first(known)].flags = @ \ {"FAIL"}]
        [] known = {} /\ free # {} ->
             [w EXCEPT !.servs[first(free)] = [addr |-> a, flags |-> {"SET"}, rtt |-> 0]]
        [] OTHER -> w

got_usable_servers(w) == \E i \in Slots : has(w.servs[i], {"SET"}, {"KILL", "FAIL"})

cmd_server(w, a) ==
  LET v == check_server(wipe_failed(w), a) IN
  IF v.tm.state = "IDLE" /\ got_usable_servers(v) THEN set_timed(v, "SELECT", FALSE) ELSE v

cmd_retry(w) ==
  LET S == {i \in Slots : has(w.servs[i], {"SET"}, {"KILL"})} IN
  IF S = {} THEN w
  ELSE set_timed([w EXCEPT !.servs = [i \in Slots |->
         IF i \in S THEN [w.servs[i] EXCEPT !.flags = @ \ {"FAIL"}] ELSE w.servs[i]]], "SELECT", FALSE)

cmd_reset(w) == stop_service([w EXCEPT !.servs = [i \in Slots |-> NoServ]])

cmd_force(w) == IF w.tm.state # "POLL_WAIT" THEN w ELSE set_timed(w, "POLL_WAIT", FALSE)

dispatch_cmd(cmd) ==
  /\ Alive /\ UNCHANGED sig
  /\ \E a \in Addrs :
       Apply(CASE cmd = "server" -> cmd_server(World, a)
               [] cmd = "retry" -> cmd_retry(World)
               [] cmd = "reset" -> cmd_reset(World)
               [] cmd = "force" -> cmd_force(World))

(* The kernel *)

expire ==
  /\ Alive /\ tm.tistate = "ARMED" /\ ~sig
  /\ sig' = TRUE /\ UNCHANGED <<tm, servs, net, off>>

\* The clock drifts over the long waits; bound: up to OFF.
drift ==
  /\ Alive /\ tm.tistate = "ARMED" /\ ~sig
  /\ \E d \in {-1, 1} : off + d \in -OFF..OFF /\ off' = off + d
  /\ UNCHANGED <<tm, servs, net, sig>>

Init ==
  /\ tm = [state |-> "IDLE", current |-> 0, failures |-> 0, bestidx |-> 0, bestrtt |-> 0,
           interval |-> 0, tistate |-> "NONE", alarm |-> FALSE, sock |-> FALSE, ref |-> FALSE,
           lo |-> 0, hi |-> 0, quit |-> FALSE]
  /\ servs = [i \in Slots |-> NoServ]
  /\ net = {} /\ sig = FALSE /\ off \in -OFF..OFF

Next ==
  \/ check_packet
  \/ timed_out_waiting
  \/ sleep_timer_expired
  \/ \E cmd \in Commands : dispatch_cmd(cmd)
  \/ expire
  \/ drift

Spec == Init /\ [][Next]_time_vars

\* Timeouts pass and the timer expires: the weak fairness of Moves(k), whose
\* enabling condition is Waits(k).
Waits(k) ==
  CASE k = 1 -> Alive /\ ~sleeps /\ ~sig
    [] k = 2 -> Alive /\ sig
    [] k = 3 -> Alive /\ tm.tistate = "ARMED" /\ ~sig
Moves(k) ==
  CASE k = 1 -> timed_out_waiting
    [] k = 2 -> sleep_timer_expired
    [] k = 3 -> expire
Fairness == \A k \in 1..3 : []<>~Waits(k) \/ []<><<Moves(k)>>_time_vars

\* tictl is not run for ever in the middle of a selection
Quiet == <>[][\A cmd \in Commands : ~dispatch_cmd(cmd)]_time_vars

LiveSpec == Spec /\ Fairness /\ Quiet

(* Properties *)

\* While a server is pinged or polled, current is the slot of a server that was
\* not given up; one that is polled has been measured.  (Otherwise current()
\* ends the service.)
CurrentUsable ==
  Alive /\ tm.state \in Chosen =>
    /\ tm.current # 0
    /\ has(servs[tm.current], {"SET"}, {"KILL", "FAIL"})
    /\ tm.state \in {"POLL_SENT", "POLL_WAIT"} => "RTT" \in servs[tm.current].flags

\* Unless idle, timed waits for something that will come: the timeout given to
\* ppoll is a valid one whenever the timer is not used.
Awake == Alive /\ tm.state # "IDLE" => tm.alarm \/ tm.tistate = "ARMED"

\* timed is idle only if no server is left that it has measured and not given
\* up, whatever tictl did meanwhile.
IdleForReason ==
  Alive /\ tm.state = "IDLE" => \A i \in Slots : ~has(servs[i], {"SET", "RTT"}, {"KILL", "FAIL"})

\* timed goes on, with a server that works, for as long as there is one.
TimeGoesOn == CurrentUsable /\ Awake /\ IdleForReason

\* An adjustment leaves the clock no further off than it was, or at most half
\* the round trip; no late answer or one of another server spoils it.
SyncStep ==
  tm' # tm /\ off' # off => abs(off') <= larger(abs(off), servs'[tm'.current].rtt \div 2)
TimeSyncSound == [][SyncStep]_time_vars

\* Selecting a server ends, with a server to poll or with none.
Selecting == tm.state = "SELECT"
Selected == tm.state \in {"POLL_WAIT", "IDLE"} \/ ~Alive
SelectEnds == Selecting ~> Selected
=============================================================================
