------------------------------ MODULE Console ------------------------------
(* Virtual terminals: vtmux and xorgvt. *)
EXTENDS Integers, FiniteSets, FiniteSetsExt

(***************************************************************************)
(* vtmux, which starts sessions on virtual terminals and lends graphic     *)
(* cards and inputs to the one that is active: one process in ppoll over   *)
(* its control socket and the pipes of the sessions.  A round of the loop  *)
(* handles one event here.                                                 *)
(*                                                                         *)
(* The kernel may switch elsewhere than asked, or not in time; whichever   *)
(* terminal it shows, activetty is the one that has the devices.  Devices  *)
(* that could not be opened leave an empty slot behind, and emptying the   *)
(* table then closes descriptor 0: the next thing opened becomes 0, which  *)
(* most of the code takes for none.                                        *)
(***************************************************************************)
CONSTANTS
  Pinned,     \* terminals with a script of their own
  Primary,    \* primarytty
  Greeters,   \* the terminals query_greeter_tty looks at
  Initial,    \* the terminal vtmux is started from
  Inputs,     \* input devices; there is one card
  NTERMS, NMDEVS,
  Faults,     \* what may go wrong: "miss", "lock", "exec", "open"
  STEPS       \* bound on sessions started

Ttys == Pinned \cup Greeters \cup {Initial}
Card == "card"
Devs == Inputs \cup {Card}

VARIABLES
  vt,         \* terms, mdevs and the terminals of vtmux
  kern,       \* what the kernel keeps: devices that work, who has descriptor 0
  phase       \* poll_inputs, then the stages of terminate_children

vt_vars == <<vt, kern, phase>>

\* told is the last notification sent; a session starts with the devices
NoTerm == [tty |-> 0, proc |-> "none", ctl |-> FALSE, fd |-> 0, told |-> "", killed |-> FALSE]
NoDev == [fd |-> 0, tty |-> 0, dev |-> ""]
World == [vt |-> vt, kern |-> kern]
Become(w) == vt' = w.vt /\ kern' = w.kern

(* Slots.  proc is "none" where pid is 0; a process that has ended is "ok" or *)
(* "bad" until it is collected                                                *)

Pid(t) == t.proc # "none"
find_term_by_tty(w, tty) == {i \in 1..NTERMS : w.vt.terms[i].tty = tty /\ tty # 0}
grab_term_slot(w) == {i \in 1..NTERMS : w.vt.terms[i] = NoTerm}
free_mdev_slot(w, k) ==
  LET m == [w.vt.mdevs EXCEPT ![k] = NoDev] IN
  [w EXCEPT !.vt.mdevs = m,
            !.vt.nmdevs = Max({0} \cup {j \in 1..@ : m[j] # NoDev})]
grab_mdev_slot(w) ==
  LET S == {k \in 1..w.vt.nmdevs : w.vt.mdevs[k] = NoDev} IN
  IF S # {} THEN Min(S) ELSE IF w.vt.nmdevs < NMDEVS THEN w.vt.nmdevs + 1 ELSE 0

\* descriptor 0 is taken by whatever is opened first once it is free
open_fd(w) == IF w.kern.zero = "free" THEN 0 ELSE 1
take_fd(w) == [w EXCEPT !.kern.zero = IF @ = "free" THEN "used" ELSE @]
close_fd(w, fd) == [w EXCEPT !.kern.zero = IF fd = 0 THEN "free" ELSE @]

send_notification(w, tty, cmd) ==
  LET S == {i \in find_term_by_tty(w, tty) : w.vt.terms[i].ctl} IN
  IF S = {} THEN w ELSE [w EXCEPT !.vt.terms[Min(S)].told = cmd]

(* Devices *)

\* mutant of disable: an input is left to the session
disable_card(w, k, drop) ==
  LET md == w.vt.mdevs[k] IN
  LET v == IF md.dev = Card THEN [w EXCEPT !.kern.live = @ \ {<<md.tty, md.dev>>}] ELSE w IN
  IF drop \/ md.dev \in Inputs
  THEN [v EXCEPT !.vt.mdevs[k].tty = 0, !.vt.mdevs[k].dev = "", !.vt.mdevreq = TRUE]
  ELSE v

disable(w, k, drop) ==
  LET md == w.vt.mdevs[k] IN
  LET v == [w EXCEPT !.kern.live = @ \ {<<md.tty, md.dev>>}] IN
  IF drop \/ md.dev \in Inputs
  THEN [v EXCEPT !.vt.mdevs[k].tty = 0, !.vt.mdevs[k].dev = "", !.vt.mdevreq = TRUE]
  ELSE v

\* the slots in order, those of tty that pass the test
each(w, tty, zero, op(_, _)) ==
  LET go[k \in 0..NMDEVS] ==
        IF k = 0 THEN w
        ELSE LET u == go[k - 1] IN
             IF k <= w.vt.nmdevs /\ u.vt.mdevs[k].tty = tty /\ (zero \/ u.vt.mdevs[k].fd > 0)
             THEN op(u, k) ELSE u
  IN  go[NMDEVS]

disable_all_devs_for(w, tty) == each(w, tty, TRUE, LAMBDA u, k : disable(u, k, TRUE))

disengage(w, tty) ==
  send_notification(each(w, tty, FALSE, LAMBDA u, k : disable(u, k, FALSE)), tty, "off")

\* the card has one master at a time
set_master(w, k) ==
  IF w.vt.mdevs[k].dev # Card \/ \E t \in Ttys : <<t, Card>> \in w.kern.live THEN w
  ELSE [w EXCEPT !.kern.live = @ \cup {<<w.vt.mdevs[k].tty, Card>>}]

engage(w, tty) == send_notification(each(w, tty, FALSE, set_master), tty, "on")

flush_mdevs(w) ==
  LET n == w.vt.nmdevs
      go[k \in 0..n] ==
        IF k = 0 THEN w
        ELSE LET u == go[k - 1] IN
             IF u.vt.mdevs[k].dev # "" THEN u
             ELSE free_mdev_slot(close_fd(u, u.vt.mdevs[k].fd), k)
  IN  IF w.vt.mdevreq THEN [go[n] EXCEPT !.vt.mdevreq = FALSE] ELSE w

(* Switching: sets of what may come out, with ok where the code returns 0 or more *)

\* what switch_wait and lock_switch may end with, after its tries
switched(tty) ==
  {[to |-> tty, ok |-> TRUE, lock |-> TRUE]}
    \cup (IF "miss" \in Faults THEN [to : Ttys, ok : {FALSE}, lock : {TRUE}] ELSE {})
    \cup (IF "lock" \in Faults THEN {[to |-> tty, ok |-> FALSE, lock |-> FALSE]} ELSE {})

\* mutant of activate: the devices go to the terminal that was asked for
activate_asked(w, tty) ==
  IF w.vt.active = tty THEN {[w |-> w, ok |-> TRUE]}
  ELSE LET d == disengage(w, w.vt.active) IN
       {[w |-> IF s.lock THEN engage([d EXCEPT !.vt.active = s.to], tty) ELSE d, ok |-> s.ok]
         : s \in switched(tty)}

activate(w, tty) ==
  IF w.vt.active = tty THEN {[w |-> w, ok |-> TRUE]}
  ELSE LET d == disengage(w, w.vt.active) IN
       {[w |-> IF s.lock THEN engage([d EXCEPT !.vt.active = s.to], s.to) ELSE d, ok |-> s.ok]
         : s \in switched(tty)}

start_cmd_on(w, i, tty) ==
  [take_fd(w) EXCEPT !.vt.terms[i] = [tty |-> tty, proc |-> "runs", ctl |-> TRUE,
                                      fd |-> open_fd(w), told |-> "on", killed |-> FALSE],
                     !.vt.started = @ + 1]

\* the terminal is switched to before the session is started, and back if it is not
spawn(w, tty) ==
  LET old == w.vt.active IN
  IF grab_term_slot(w) = {} THEN {w}
  ELSE LET i == Min(grab_term_slot(w)) IN
       UNION {IF ~a.ok THEN {a.w}
              ELSE (IF w.vt.started < STEPS THEN {start_cmd_on(a.w, i, tty)} ELSE {})
                     \cup (IF "exec" \in Faults THEN {b.w : b \in activate(a.w, old)} ELSE {})
                : a \in activate(w, tty)}

switchto(w, tty) ==
  IF tty <= 0 \/ tty = w.vt.active THEN {w}
  ELSE LET u == [w EXCEPT !.vt.lock = FALSE] IN
       IF find_term_by_tty(w, tty) # {} THEN {a.w : a \in activate(u, tty)}
       ELSE IF tty \in Pinned THEN spawn(u, tty) ELSE {u}

\* the last one that is not in use
query_greeter_tty(w) == Max({0} \cup {t \in Greeters : find_term_by_tty(w, t) = {}})

show_greeter(w) ==
  LET u == [w EXCEPT !.vt.last = IF w.vt.active # w.vt.greeter THEN w.vt.active ELSE @] IN
  IF u.vt.greeter # 0 THEN switchto(u, u.vt.greeter)
  ELSE LET tty == query_greeter_tty(w) IN
       IF tty = 0 THEN {u} ELSE spawn([u EXCEPT !.vt.greeter = tty], tty)

switch_to_smth(w) ==
  LET there(i) == Pid(w.vt.terms[i]) /\ w.vt.terms[i].tty # w.vt.active
      rest == {i \in 2..NTERMS : there(i)}
  IN  IF \E i \in find_term_by_tty(w, Primary) : there(i) THEN switchto(w, Primary)
      ELSE IF rest # {} THEN switchto(w, w.vt.terms[Min(rest)].tty)
      ELSE show_greeter(w)

(* Sessions that end *)

reopen_tty_device(w, i) ==
  close_fd([take_fd(w) EXCEPT !.vt.terms[i].fd = open_fd(w)], w.vt.terms[i].fd)

finalize(w, i) ==
  [(IF w.vt.terms[i].fd > 0 THEN close_fd(w, w.vt.terms[i].fd) ELSE w) EXCEPT !.vt.terms[i] = NoTerm]

handle_dead(w, i) ==
  LET tty == w.vt.terms[i].tty
      u == [disable_all_devs_for(w, tty) EXCEPT !.vt.greeter = IF @ = tty THEN 0 ELSE @,
                                                !.vt.last = IF @ = tty THEN 0 ELSE @,
                                                !.vt.terms[i].ctl = FALSE, !.vt.terms[i].told = ""]
  IN  IF w.vt.terms[i].proc = "ok" THEN finalize(u, i)
      ELSE [u EXCEPT !.vt.terms[i].proc = "none"]

Dead(w) == {i \in 1..NTERMS : w.vt.terms[i].proc \in {"ok", "bad"}}

\* those in the background at once, the active one after the switch
wait_pids(w, shutdown) ==
  LET go[i \in 0..NTERMS] ==
        IF i = 0 THEN w
        ELSE IF i \in Dead(w) /\ w.vt.terms[i].tty # w.vt.active
             THEN handle_dead(reopen_tty_device(go[i - 1], i), i) ELSE go[i - 1]
      act == {i \in Dead(w) : w.vt.terms[i].tty = w.vt.active}
      u == go[NTERMS]
  IN  IF act = {} THEN {u}
      ELSE LET i == Min(act)
               r == reopen_tty_device(u, i)
           IN  {handle_dead(v, i) : v \in IF w.vt.terms[i].proc = "ok" /\ ~shutdown
                                          THEN switch_to_smth(r) ELSE {r}}

final_enter(w, i) ==
  LET tty == w.vt.terms[i].tty
      u == finalize(w, i)
  IN  IF tty # w.vt.active THEN {u}
      ELSE IF tty = Primary /\ tty \in Pinned THEN spawn(u, tty)
      ELSE switch_to_smth(u)

(* The pipe of a session *)

\* a new descriptor works, except that a card has only one master
open_managed_dev(w, i, dev) ==
  LET tty == w.vt.terms[i].tty
      k == grab_mdev_slot(w)
      v == [take_fd(w) EXCEPT !.vt.nmdevs = IF k > @ THEN k ELSE @,
                              !.vt.mdevs[k] = [fd |-> open_fd(w), tty |-> tty, dev |-> dev],
                              !.kern.live = IF dev = Card /\ \E t \in Ttys : <<t, Card>> \in @ THEN @
                                            ELSE @ \cup {<<tty, dev>>}]
  IN  IF k = 0 \/ \E j \in 1..NMDEVS : w.vt.mdevs[j].tty = tty /\ w.vt.mdevs[j].dev = dev THEN w
      ELSE IF tty # v.vt.active THEN disable(v, k, FALSE) ELSE v

\* no such device, or not one to be lent
open_failed(w) ==
  LET k == grab_mdev_slot(w) IN [w EXCEPT !.vt.nmdevs = IF k > @ THEN k ELSE @]

(* Rounds of the loop *)

Round(W) == \E w \in W : Become(flush_mdevs(w))

reap ==
  /\ phase = "poll" /\ Dead(World) # {}
  /\ Round(wait_pids(World, FALSE))
  /\ UNCHANGED phase

recv_pipe(i) ==
  /\ phase = "poll" /\ Pid(vt.terms[i]) /\ vt.terms[i].ctl
  /\ \/ \E d \in Devs : Round({open_managed_dev(World, i, d)})
     \/ "open" \in Faults /\ Round({open_failed(World)})
  /\ UNCHANGED phase

\* the session has closed its end
check_pipe(i) ==
  /\ phase = "poll" /\ vt.terms[i].ctl /\ vt.terms[i].proc # "runs"
  /\ Become([World EXCEPT !.vt.terms[i].ctl = FALSE, !.vt.terms[i].told = ""])
  /\ UNCHANGED phase

\* Enter on a terminal whose session has failed; a descriptor 0 is not polled
check_term(i) ==
  /\ phase = "poll" /\ vt.terms[i].tty # 0 /\ ~Pid(vt.terms[i]) /\ vt.terms[i].fd > 0
  /\ Round(final_enter(World, i))
  /\ UNCHANGED phase

cmd_swback(w) ==
  IF w.vt.lock THEN {w}
  ELSE IF find_term_by_tty(w, w.vt.last) # {} THEN switchto(w, w.vt.last)
  ELSE IF find_term_by_tty(w, Primary) # {} THEN switchto(w, Primary)
  ELSE {w}

cmd_switch(w, tty) ==
  IF w.vt.lock THEN {w} ELSE IF tty = 0 THEN show_greeter(w) ELSE switchto(w, tty)

\* a connection that is given descriptor 0 is never read
recv_conn ==
  /\ phase = "poll"
  /\ IF kern.zero = "free" THEN Become(take_fd(World))
     ELSE \/ \E t \in Ttys \cup {0} : Round(cmd_switch(World, t))
          \/ Round(cmd_swback(World))
          \/ Become([World EXCEPT !.vt.lock = TRUE])
          \/ Become([World EXCEPT !.vt.lock = FALSE])
  /\ UNCHANGED phase

(* The end *)

kill_all_terms(w) ==
  [w EXCEPT !.vt.terms = [i \in 1..NTERMS |->
    IF Pid(@[i]) THEN [@[i] EXCEPT !.killed = TRUE] ELSE @[i]]]
count_running(w) == Cardinality({i \in 1..NTERMS : Pid(w.vt.terms[i])})

\* SIGTERM in the poll loop
stop ==
  /\ phase = "poll" /\ phase' = "term"
  /\ UNCHANGED <<vt, kern>>

final_reap ==
  /\ phase \in {"term", "kill"} /\ Dead(World) # {}
  /\ \E w \in wait_pids(World, TRUE) : Become(w)
  /\ UNCHANGED phase

\* none is left, or the time is up, or SIGTERM again
terminate_children ==
  /\ \/ /\ phase \in {"term", "kill"} /\ count_running(World) = 0 /\ phase' = "done"
        /\ UNCHANGED <<vt, kern>>
     \/ /\ phase = "term" /\ count_running(World) > 0 /\ phase' = "kill"
        /\ Become(kill_all_terms(World))
     \/ /\ phase = "kill" /\ count_running(World) > 0 /\ phase' = "done"
        /\ UNCHANGED <<vt, kern>>

(* Sessions, at any time *)

session_exit(i, how) ==
  /\ vt.terms[i].proc = "runs"
  /\ vt' = [vt EXCEPT !.terms[i].proc = how]
  /\ UNCHANGED <<kern, phase>>

Init0 ==
  [vt |-> [terms |-> [i \in 1..NTERMS |-> NoTerm], mdevs |-> [k \in 1..NMDEVS |-> NoDev],
           nmdevs |-> 0, mdevreq |-> FALSE, active |-> Initial, greeter |-> 0, last |-> 0,
           lock |-> FALSE, started |-> 0],
   kern |-> [live |-> {}, zero |-> "stdin"]]

\* switchto(primarytty), then the loop
MuxInit == phase = "poll" /\ \E w \in switchto(Init0, Primary) : vt = w.vt /\ kern = w.kern

MuxNext ==
  \/ reap \/ recv_conn \/ stop \/ final_reap \/ terminate_children
  \/ \E i \in 1..NTERMS :
       recv_pipe(i) \/ check_pipe(i) \/ check_term(i) \/ \E how \in {"ok", "bad"} : session_exit(i, how)

MuxSpec == MuxInit /\ [][MuxNext]_vt_vars

(* Properties *)

Zeroed(tty) == \E k \in 1..NMDEVS : vt.mdevs[k].tty = tty /\ vt.mdevs[k].fd = 0

\* Only the active session has devices that work, whatever the kernel made of the
\* switches; and as long as locking works, the card it has been given obeys it.
\* Except for devices that came to be descriptor 0.
DevicesActive ==
  /\ \A p \in kern.live : p[1] = vt.active \/ Zeroed(p[1])
  /\ "lock" \notin Faults =>
       \A k \in 1..NMDEVS :
         LET md == vt.mdevs[k] IN
         md.dev = Card /\ md.tty = vt.active /\ md.fd > 0 /\ kern.zero = "stdin"
           => <<md.tty, Card>> \in kern.live

\* A session that can be told was last told what is true: that it has the devices,
\* or that it has not; and no device is kept for a terminal without a session.
SessionsTold ==
  /\ \A i \in 1..NTERMS :
       LET t == vt.terms[i] IN
       t.ctl /\ "lock" \notin Faults => (t.told = "on") = (t.tty = vt.active)
  /\ \A k \in 1..NMDEVS : vt.mdevs[k].tty # 0 =>
       \E i \in 1..NTERMS : vt.terms[i].tty = vt.mdevs[k].tty /\ Pid(vt.terms[i])

\* Each terminal has one session; the greeter is known by its terminal, unless it
\* could not be started; what is left when vtmux ends has been told to die.
SessionsFound ==
  /\ \A i, j \in 1..NTERMS : i # j => vt.terms[i].tty # vt.terms[j].tty \/ vt.terms[i].tty = 0
  /\ vt.greeter # 0 /\ Faults \cap {"miss", "lock", "exec"} = {} /\ Cardinality(Ttys) <= NTERMS + 1
       => find_term_by_tty(World, vt.greeter) # {}
  /\ phase = "done" => \A i \in 1..NTERMS : Pid(vt.terms[i]) => vt.terms[i].killed

VtSafe == DevicesActive /\ SessionsTold /\ SessionsFound

(***************************************************************************)
(* xorgvt, the session that runs an X server and one client of it: it      *)
(* reads signals from a signalfd, one read at a time.  Signals of a kind   *)
(* that come before the first of them is read are one.                     *)
(***************************************************************************)
VARIABLES
  xv,     \* where it is, and term: it has been told to stop
  procs,  \* the server and the client: "none", "runs", "told" to end, "dead", "gone"
  sigs    \* what there is to read

xorg_vars == <<xv, procs, sigs>>

Kill(p, who) == [p EXCEPT ![who] = IF @ = "runs" THEN "told" ELSE @]
Fail(x) == [x EXCEPT !.pc = "fail"]

\* SIGTERM or SIGINT while waiting for the server goes to the server
x_stop ==
  /\ xv.pc = "server" /\ "stop" \in sigs
  /\ sigs' = sigs \ {"stop"}
  /\ xv' = [xv EXCEPT !.term = TRUE] /\ procs' = Kill(procs, "server")

\* the server is ready
start_client ==
  /\ xv.pc = "server" /\ "ready" \in sigs
  /\ sigs' = sigs \ {"ready"}
  /\ IF xv.term THEN UNCHANGED <<xv, procs>>
     ELSE \/ xv' = [xv EXCEPT !.pc = "both"] /\ procs' = [procs EXCEPT !["client"] = "runs"]
          \/ xv' = Fail(xv) /\ UNCHANGED procs

wait_x_signal ==
  /\ xv.pc = "server" /\ "chld" \in sigs
  /\ sigs' = sigs \ {"chld"}
  /\ procs["server"] = "dead"
  /\ xv' = Fail(xv) /\ procs' = [procs EXCEPT !["server"] = "gone"]

\* waitpid takes any one of the dead; the loop ends with the first
\* mutant of wait_sigchld: the server is not told when the client has ended
wait_sigchld_client ==
  /\ xv.pc = "both" /\ "chld" \in sigs
  /\ sigs' = sigs \ {"chld"}
  /\ \E d \in {w \in DOMAIN procs : procs[w] = "dead"} :
       /\ xv' = [xv EXCEPT !.pc = "done"]
       /\ procs' = IF d = "server" /\ ~xv.term THEN Kill([procs EXCEPT ![d] = "gone"], "client")
                   ELSE [procs EXCEPT ![d] = "gone"]

wait_sigchld ==
  /\ xv.pc = "both" /\ "chld" \in sigs
  /\ sigs' = sigs \ {"chld"}
  /\ \E d \in {w \in DOMAIN procs : procs[w] = "dead"} :
       /\ xv' = [xv EXCEPT !.pc = "done"]
       /\ procs' = IF d = "client" THEN Kill([procs EXCEPT ![d] = "gone"], "server")
                   ELSE IF ~xv.term THEN Kill([procs EXCEPT ![d] = "gone"], "client")
                   ELSE [procs EXCEPT ![d] = "gone"]

sigchld_stop ==
  /\ xv.pc = "both" /\ "stop" \in sigs
  /\ sigs' = sigs \ {"stop"}
  /\ xv' = [xv EXCEPT !.term = TRUE] /\ procs' = Kill(procs, "client")

\* SIGUSR1 is taken for nothing from then on; nor does one mean more than one
other_signal ==
  /\ xv.pc = "both" /\ "ready" \in sigs
  /\ sigs' = sigs \ {"ready"}
  /\ UNCHANGED <<xv, procs>>

dies(w) ==
  /\ procs[w] \in {"runs", "told"}
  /\ procs' = [procs EXCEPT ![w] = "dead"]
  /\ sigs' = sigs \cup {"chld"}
  /\ UNCHANGED xv

gets_ready ==
  /\ procs["server"] = "runs" /\ xv.pc = "server"
  /\ sigs' = sigs \cup {"ready"}
  /\ UNCHANGED <<xv, procs>>

stopped ==
  /\ xv.pc \in {"server", "both"}
  /\ sigs' = sigs \cup {"stop"}
  /\ UNCHANGED <<xv, procs>>

XorgInit ==
  /\ xv = [pc |-> "server", term |-> FALSE]
  /\ procs = [w \in {"server", "client"} |-> IF w = "server" THEN "runs" ELSE "none"]
  /\ sigs = {}

XorgNext ==
  \/ x_stop \/ start_client \/ wait_x_signal \/ wait_sigchld \/ sigchld_stop \/ other_signal
  \/ gets_ready \/ stopped \/ \E w \in DOMAIN procs : dies(w)

XorgSpec == XorgInit /\ [][XorgNext]_xorg_vars

\* When the session ends, whichever of the two has died first, the other has been
\* told to end.  (The comment of wait_sigchld also has xorgvt wait for both; its loop
\* ends with the first, and the other may still be there when xorgvt is gone.)
LeavesNone == xv.pc = "done" => \A w \in DOMAIN procs : procs[w] # "runs"
=============================================================================
