-------------------------------- MODULE KeyMon --------------------------------
(***************************************************************************)
(* keymon, which runs commands when keys are pressed or held on any of the *)
(* keyboards: one process in ppoll over a signalfd, inotify on /dev/input  *)
(* and the keyboards it has opened.  Keyboards come and go, keys go down   *)
(* and up on them, and commands end, at any time.                          *)
(*                                                                         *)
(* Only the keys asked for with EVIOCSMASK are reported: those of the      *)
(* actions, left Ctrl and left Alt.  The codes of switches do not fit the  *)
(* short they are kept in, so that no event matches an action on a switch; *)
(* there are none here.                                                    *)
(***************************************************************************)
EXTENDS Integers, Sequences, FiniteSets, FiniteSetsExt, SequencesExt

CONSTANTS
  Devs,     \* keyboards
  Acts,     \* the configuration: a sequence of records code, mods, hold
  Mods,     \* the modifiers, left Ctrl and left Alt
  Low,      \* codes below 16
  NDEVS,    \* slots for keyboards
  PIDS,     \* bound on processes at a time
  QUEUE,    \* bound on events not read yet
  PLUGS     \* bound on keyboards plugged in

Keys == Mods \cup {Acts[i].code : i \in DOMAIN Acts}
Slots == 1..NDEVS
None == ""

VARIABLES
  km,       \* struct top
  fds,      \* slot -> the open keyboard: events to read, and whether it is gone
  devs,     \* keyboard -> the keys that are down, if it is there
  news,     \* /dev/input entries inotify has to tell about
  kids,     \* pid -> the action it runs, and its state
  hist      \* keyboards plugged in so far, keys down when one was unplugged

key_vars == <<km, fds, devs, news, kids, hist>>

NoFd == [dev |-> None, q |-> <<>>, hup |-> FALSE]
NoKid == [act |-> 0, st |-> "none"]
Open(i) == fds[i].dev # None

\* what the handlers of events work on
World == [km |-> km, kids |-> kids]

(* Slots: npfds counts without signalfd and inotify *)

find_device_slot ==
  LET S == {i \in 1..km.npfds : ~Open(i)} IN
  IF S # {} THEN Min(S) ELSE IF km.npfds < NDEVS THEN km.npfds + 1 ELSE 0

set_device_fd(k, i) ==
  [k EXCEPT !.bits[i] = {}, !.npfds = IF i <= @ THEN @ ELSE i,
            !.nbits = IF i <= k.npfds THEN @ ELSE i]

\* mutant of update_npfds: up to the first free slot
update_npfds_first(f) == Min({i \in 1..NDEVS + 1 : i > NDEVS \/ f[i].dev = None}) - 1

update_npfds(f) == Max({0} \cup {i \in 1..km.npfds : f[i].dev # None})

(* Commands *)

\* mutant of spawn_action: the process told to end is not waited for
spawn_again(w, a) ==
  LET P == {p \in 1..PIDS : w.kids[p] = NoKid} IN
  IF P = {} THEN w
  ELSE [w EXCEPT !.km.pid[a] = Min(P), !.kids[Min(P)] = [act |-> a, st |-> "runs"]]

\* a running one is told to end; fork fails if there are PIDS already
spawn_action(w, a) ==
  LET P == {p \in 1..PIDS : w.kids[p] = NoKid} IN
  IF w.km.pid[a] > 0 \/ P = {} THEN w
  ELSE [w EXCEPT !.km.pid[a] = Min(P), !.kids[Min(P)] = [act |-> a, st |-> "runs"]]

hold_timeout(w) == spawn_action([w EXCEPT !.km.held = 0], w.km.held)

check_children(w) ==
  LET Z == {p \in 1..PIDS : w.kids[p].st = "zombie"} IN
  [w EXCEPT !.kids = [p \in 1..PIDS |-> IF p \in Z THEN NoKid ELSE @[p]],
            !.km.pid = [a \in DOMAIN @ |-> IF @[a] \in Z THEN 0 ELSE @[a]]]

(* Keys *)

set_global_mods(k) == [k EXCEPT !.modstate = UNION {k.bits[i] : i \in 1..k.nbits}]

key_release(w, i, code) ==
  LET v == IF w.km.held # 0 /\ Acts[w.km.held].code = code THEN [w EXCEPT !.km.held = 0] ELSE w
  IN  IF code \notin Mods THEN v
      ELSE [v EXCEPT !.km = set_global_mods([@ EXCEPT !.bits[i] = @ \ {code}])]

\* actions in the order of the configuration
key_press(w, i, code) ==
  LET act(u, a) ==
        IF Acts[a].code # code \/ Acts[a].mods # u.km.modstate THEN u
        ELSE IF Acts[a].hold THEN [u EXCEPT !.km.held = a] ELSE spawn_action(u, a)
      acts[a \in 0..Len(Acts)] == IF a = 0 THEN w ELSE act(acts[a - 1], a)
      v == acts[Len(Acts)]
  IN  IF code \notin Mods THEN v
      ELSE [v EXCEPT !.km = set_global_mods([@ EXCEPT !.bits[i] = @ \cup {code}])]

handle_event(w, i, ev) == IF ev.down THEN key_press(w, i, ev.code) ELSE key_release(w, i, ev.code)

\* handle_input goes on by 8 bytes where an event takes 24, so that time stamps
\* are taken for events: a number of microseconds may look like the release of a
\* key with a small code
misread(w, i) ==
  {w} \cup {key_release(w, i, c) : c \in Low}

(* The poll loop *)

\* What ppoll may report is handled in this order.  (What comes in during a
\* pass is left to the next one, which is as if it had come in later.)
Pending ==
  {i \in 1..km.npfds : Open(i) /\ (fds[i].q # <<>> \/ fds[i].hup)}
    \cup (IF news # {} THEN {NDEVS + 1} ELSE {})
    \cup (IF \E p \in 1..PIDS : kids[p].st = "zombie" THEN {NDEVS + 2} ELSE {})
Turn(i) == i \in Pending /\ \A j \in Pending : i <= j

timed_out ==
  /\ Pending = {} /\ km.held # 0
  /\ \E w \in {hold_timeout(World)} : km' = w.km /\ kids' = w.kids
  /\ UNCHANGED <<fds, devs, news, hist>>

\* one event of those read
handle_input(i) ==
  /\ Turn(i) /\ fds[i].q # <<>>
  /\ \E w \in misread(handle_event(World, i, Head(fds[i].q)), i) : km' = w.km /\ kids' = w.kids
  /\ fds' = [fds EXCEPT ![i].q = Tail(@)]
  /\ UNCHANGED <<devs, news, hist>>

\* all is read, and the keyboard is gone
close_device(i) ==
  /\ Turn(i) /\ fds[i].q = <<>>
  /\ fds' = [fds EXCEPT ![i] = NoFd]
  /\ km' = [km EXCEPT !.bits[i] = {}, !.npfds = update_npfds(fds')]
  /\ UNCHANGED <<devs, news, kids, hist>>

\* an entry of the directory; the device may not be ready to be opened
check_dir_ent(d, ok) ==
  LET i == find_device_slot IN
  IF i = 0 \/ ~ok \/ ~devs[d].there THEN UNCHANGED <<km, fds>>
  ELSE /\ km' = set_device_fd(km, i)
       /\ fds' = [fds EXCEPT ![i] = [NoFd EXCEPT !.dev = d]]

handle_inotify ==
  /\ Turn(NDEVS + 1)
  /\ \E d \in news, ok \in BOOLEAN : check_dir_ent(d, ok) /\ news' = news \ {d}
  /\ UNCHANGED <<devs, kids, hist>>

handle_signals ==
  /\ Turn(NDEVS + 2)
  /\ \E w \in {check_children(World)} : km' = w.km /\ kids' = w.kids
  /\ UNCHANGED <<fds, devs, news, hist>>

(* Users and the kernel *)

\* every fd a keyboard is open under gets the event
strike(d, code) ==
  LET down == code \notin devs[d].down IN
  /\ devs[d].there
  /\ \A i \in Slots : fds[i].dev = d => Len(fds[i].q) < QUEUE
  /\ devs' = [devs EXCEPT ![d].down = IF down THEN @ \cup {code} ELSE @ \ {code}]
  /\ fds' = [i \in Slots |-> IF fds[i].dev # d \/ fds[i].hup THEN fds[i]
               ELSE [fds[i] EXCEPT !.q = Append(@, [code |-> code, down |-> down])]]
  /\ UNCHANGED <<km, news, kids, hist>>

plug(d) ==
  /\ ~devs[d].there /\ hist.plugs < PLUGS
  /\ devs' = [devs EXCEPT ![d].there = TRUE]
  /\ hist' = [hist EXCEPT !.plugs = @ + 1]
  /\ news' = news \cup {d}
  /\ UNCHANGED <<km, fds, kids>>

unplug(d) ==
  /\ devs[d].there
  /\ devs' = [devs EXCEPT ![d] = [there |-> FALSE, down |-> {}]]
  /\ hist' = [hist EXCEPT !.lost = @ \cup devs[d].down]
  /\ fds' = [i \in Slots |-> IF fds[i].dev # d THEN fds[i] ELSE [fds[i] EXCEPT !.hup = TRUE]]
  /\ UNCHANGED <<km, news, kids>>

exit(p) ==
  /\ kids[p].st = "runs"
  /\ kids' = [kids EXCEPT ![p].st = "zombie"]
  /\ UNCHANGED <<km, fds, devs, news, hist>>

\* main, after scan_devices has opened the keyboards T.  Since inotify was set up
\* before, it will tell again about those that came meanwhile.
Init ==
  \E T \in SUBSET Devs :
  /\ Cardinality(T) <= NDEVS
  /\ km = [held |-> 0, modstate |-> {}, npfds |-> Cardinality(T), nbits |-> Cardinality(T),
           bits |-> [i \in Slots |-> {}], pid |-> [a \in DOMAIN Acts |-> 0]]
  /\ devs = [d \in Devs |-> [there |-> d \in T, down |-> {}]]
  /\ fds = [i \in Slots |->
              IF i > Cardinality(T) THEN NoFd ELSE [NoFd EXCEPT !.dev = SetToSeq(T)[i]]]
  /\ news \in SUBSET T
  /\ kids = [p \in 1..PIDS |-> NoKid]
  /\ hist = [plugs |-> 0, lost |-> {}]

Next ==
  \/ timed_out \/ handle_inotify \/ handle_signals
  \/ \E i \in Slots : handle_input(i) \/ close_device(i)
  \/ \E d \in Devs : plug(d) \/ unplug(d) \/ \E c \in Keys : strike(d, c)
  \/ \E p \in 1..PIDS : exit(p)

Spec == Init /\ [][Next]_key_vars

(* Properties *)

\* However fast events come, an action has one process at a time, and keymon
\* knows it until it is collected.
OneEach ==
  \A p \in 1..PIDS : kids[p] # NoKid => km.pid[kids[p].act] = p

\* Every keyboard that is open is polled, whatever was unplugged before it.
Watched == \A i \in Slots : Open(i) => i <= km.npfds

\* no keyboard has anything to say
Quiet == \A i \in Slots : Open(i) => fds[i].q = <<>> /\ ~fds[i].hup

Down == UNION {devs[d].down : d \in Devs} \cup hist.lost

\* A modifier that keymon takes for pressed is down on some keyboard, or was
\* when that keyboard went away.
ModsDown == Quiet => km.modstate \subseteq Down

\* Modifiers count on whatever keyboard they are pressed (man/keymon.8 "Modifier
\* keys state is tracked indiscriminately across all devices").
ModsSeen == \A i \in Slots : km.bits[i] \subseteq km.modstate

\* An action is held for only while its key is down, or was when its keyboard
\* went away: it does not run after a short press.
HoldMeans == Quiet /\ km.held # 0 => Acts[km.held].code \in Down
=============================================================================
