------------------------------- MODULE InitRd -------------------------------
(* Before the root is mounted: rdinit and passblk. *)
EXTENDS Integers, Sequences, FiniteSets, SequencesExt

(***************************************************************************)
(* rdinit, pid 1 of an initramfs: it starts modpipe, gives it the          *)
(* modaliases of the devices there are (a scan of /sys/devices) and of     *)
(* those that appear (uevents), runs the setup script, and once both are   *)
(* gone moves on to the real root.  The kernel, the children and orphans   *)
(* left to pid 1 act in between; SIGCHLD is one bit, as in the kernel.     *)
(***************************************************************************)
CONSTANTS
  Trees,     \* what is under /sys/devices: directory -> its listing
  Late,      \* directories of devices that are plugged in later
  ORPHANS    \* bound on the orphans that pid 1 inherits

VARIABLES
  sys,       \* [tree, in]: the directories, and those that exist
  queue,     \* the uevents that wait on the netlink socket
  piped,     \* what modpipe was given: [dev, cut], the device and whether its alias was cut
  kids,      \* [script, modpipe, orphan]: "none", "run", "term", "dead", ...
  sigchld,   \* SIGCHLD is pending
  top,       \* struct top: [pc, stack, flags, runpid, modpid, modfd, root]
  hist       \* [merged, ok, orphans]

rd_vars == <<sys, queue, piped, kids, sigchld, top, hist>>

Root == 0
At(pc) == top.pc = pc

--------------------------------------------------------------------------
(* The children and the kernel                                            *)

\* a child dies; a second death before the signal is read adds nothing
Dies(k, how) ==
  /\ kids' = [kids EXCEPT ![k] = how]
  /\ sigchld' = TRUE
  /\ hist' = [hist EXCEPT !.merged = @ \/ sigchld]

\* the script ends, well or not, or is killed by SIGTERM
ScriptEnds ==
  /\ kids.script \in {"run", "term"}
  /\ \E how \in {"ok", "bad"} :
       /\ kids.script = "term" => how = "bad"
       /\ Dies("script", how)
  /\ UNCHANGED <<sys, queue, piped, top>>

\* modpipe fails, or is killed by SIGTERM
ModpipeEnds ==
  /\ kids.modpipe \in {"run", "term"}
  /\ Dies("modpipe", "bad")
  /\ UNCHANGED <<sys, queue, piped, top>>

\* a process the script left behind dies
OrphanEnds ==
  /\ kids.script # "none" /\ kids.orphan = "none" /\ hist.orphans < ORPHANS
  /\ kids' = [kids EXCEPT !.orphan = "bad"]
  /\ sigchld' = TRUE
  /\ hist' = [hist EXCEPT !.merged = @ \/ sigchld, !.orphans = @ + 1]
  /\ UNCHANGED <<sys, queue, piped, top>>

\* a device appears: its directory, then its event
Plug ==
  /\ \E d \in Late \ sys.in :
       /\ sys' = [sys EXCEPT !.in = @ \union {d}]
       /\ queue' = IF top.devfd THEN Append(queue, d) ELSE queue
  /\ top.pc \notin {"exec", "abort", "failed"}
  /\ UNCHANGED <<piped, kids, sigchld, top, hist>>

--------------------------------------------------------------------------
(* rdinit                                                                 *)

\* modprobe: a write that fails turns modfd off
modprobe(t, a) ==
  IF ~t.modfd THEN [t |-> t, piped |-> piped]
  ELSE IF kids.modpipe \in {"run", "term"}
  THEN [t |-> t, piped |-> piped \union {a}]
  ELSE [t |-> [t EXCEPT !.modfd = FALSE], piped |-> piped]

\* mutant of open_udev
open_udev_late ==
  /\ At("udev")
  /\ top' = [top EXCEPT !.pc = "modpipe"]
  /\ UNCHANGED <<sys, queue, piped, kids, sigchld, hist>>

\* start_modpipe, open_udev: the socket is there before the scan
open_udev ==
  /\ At("udev")
  /\ top' = [top EXCEPT !.pc = "modpipe", !.devfd = TRUE]
  /\ UNCHANGED <<sys, queue, piped, kids, sigchld, hist>>

\* start_modpipe without a modpipe script
no_modpipe ==
  /\ At("udev")
  /\ top' = [top EXCEPT !.pc = "script"]
  /\ UNCHANGED <<sys, queue, piped, kids, sigchld, hist>>

\* open_modpipe
open_modpipe ==
  /\ At("modpipe")
  /\ kids' = [kids EXCEPT !.modpipe = "run"]
  /\ top' = [top EXCEPT !.pc = "scan", !.modpid = "modpipe", !.modfd = TRUE,
                        !.stack = <<sys.tree[Root]>>]
  /\ UNCHANGED <<sys, queue, piped, sigchld, hist>>

\* pick_modalias: what does not fit into its buffer is cut off
pick_modalias(e) == [dev |-> e.dev, cut |-> e.long]

\* scan_dir: the next entry of the innermost directory; the file modalias
\* ends the directory it is in
scan_dir ==
  /\ At("scan")
  /\ IF top.stack = <<>>
     THEN top' = [top EXCEPT !.pc = "script"] /\ UNCHANGED piped
     ELSE LET s == Last(top.stack)
              rest == Front(top.stack)
          IN IF s = <<>> THEN /\ top' = [top EXCEPT !.stack = rest]
                              /\ UNCHANGED piped
             ELSE LET e == Head(s)
                      w == modprobe([top EXCEPT !.stack = rest], pick_modalias(e))
                      go == Append(rest, Tail(s))
                  IN IF e.file THEN top' = w.t /\ piped' = w.piped
                     ELSE /\ top' = [top EXCEPT !.stack =
                               IF e.dev \in sys.in
                               THEN Append(go, sys.tree[e.dev]) ELSE go]
                          /\ UNCHANGED piped
  /\ UNCHANGED <<sys, queue, kids, sigchld, hist>>

\* start_script
start_script ==
  /\ At("script")
  /\ kids' = [kids EXCEPT !.script = "run"]
  /\ top' = [top EXCEPT !.pc = "poll", !.runpid = "script"]
  /\ UNCHANGED <<sys, queue, piped, sigchld, hist>>

\* poll: locate_devices goes on until FL_DONE
Polling == At("poll") /\ "DONE" \notin top.flags

\* an error of recv, as after an overflow of the queue, ends rdinit
recv_event ==
  /\ Polling /\ queue # <<>>
  /\ \/ LET w == modprobe(top, [dev |-> Head(queue), cut |-> FALSE])
        IN top' = w.t /\ piped' = w.piped
     \/ top' = [top EXCEPT !.pc = "failed"] /\ UNCHANGED piped
  /\ queue' = Tail(queue)
  /\ UNCHANGED <<sys, kids, sigchld, hist>>

\* kill_check: the alarm it sets does nothing to pid 1
Killed(k, who) == IF k[who] = "run" THEN [k EXCEPT ![who] = "term"] ELSE k

\* handle_script_exit
handle_script_exit(k, status) ==
  /\ kids' = IF top.modpid # "none" THEN Killed(k, "modpipe") ELSE k
  /\ top' = [top EXCEPT !.runpid = "none",
               !.flags = @ \union (IF status = "ok" THEN {} ELSE {"FAILURE"})
                           \union (IF top.modpid # "none" THEN {} ELSE {"DONE"})]

\* handle_modpipe_exit
handle_modpipe_exit(k) ==
  /\ top' = [top EXCEPT !.modpid = "none",
       !.flags = @ \union (IF top.runpid # "none" THEN {"FAILURE"} ELSE {"DONE"})]
  /\ kids' = IF top.runpid # "none" THEN Killed(k, "script") ELSE k

\* recv_signal, check_children: one child for each signal
recv_signal ==
  /\ Polling /\ sigchld
  /\ sigchld' = FALSE
  /\ \/ \E k \in {x \in DOMAIN kids : kids[x] \in {"ok", "bad"}} :
          LET reaped == [kids EXCEPT ![k] = IF k = "orphan" THEN "none" ELSE "gone"]
          IN /\ CASE top.runpid = k -> handle_script_exit(reaped, kids[k])
                  [] top.modpid = k -> handle_modpipe_exit(reaped)
                  [] OTHER -> kids' = reaped /\ UNCHANGED top
             /\ hist' = [hist EXCEPT !.ok = @ \/ (k = "script" /\ kids[k] = "ok")]
     \/ /\ \A x \in DOMAIN kids : kids[x] \notin {"ok", "bad"}
        /\ UNCHANGED <<kids, top, hist>>
  /\ UNCHANGED <<sys, queue, piped>>

\* the end of locate_devices: abort, or on to switch_root
Located ==
  /\ At("poll") /\ "DONE" \in top.flags
  /\ top' = [top EXCEPT !.pc = IF "FAILURE" \in top.flags THEN "abort"
                               ELSE "switch"]
  /\ UNCHANGED <<sys, queue, piped, kids, sigchld, hist>>

\* switch_root, clear_initramfs, invoke_next_stage: only when something is
\* mounted on /mnt.  delete_rec returns at the first of the entries . and ..,
\* which a ramfs lists before all others: nothing is deleted.
switch_root ==
  /\ At("switch")
  /\ \E mounted \in BOOLEAN :
       top' = [top EXCEPT !.pc = IF mounted THEN "exec" ELSE "abort"]
  /\ UNCHANGED <<sys, queue, piped, kids, sigchld, hist>>

--------------------------------------------------------------------------
RdInit ==
  /\ \E t \in Trees : sys = [tree |-> t, in |-> DOMAIN t \ Late]
  /\ queue = <<>> /\ piped = {}
  /\ kids = [script |-> "none", modpipe |-> "none", orphan |-> "none"]
  /\ sigchld = FALSE
  /\ top = [pc |-> "udev", stack |-> <<>>, flags |-> {}, runpid |-> "none",
            modpid |-> "none", modfd |-> FALSE, devfd |-> FALSE]
  /\ hist = [merged |-> FALSE, ok |-> FALSE, orphans |-> 0]

RdNext ==
  \/ ScriptEnds \/ ModpipeEnds \/ OrphanEnds \/ Plug
  \/ open_udev \/ no_modpipe \/ open_modpipe \/ scan_dir \/ start_script
  \/ recv_event \/ recv_signal \/ Located \/ switch_root

RdSpec == RdInit /\ [][RdNext]_rd_vars

--------------------------------------------------------------------------
\* the aliases the scan comes to: not those listed after a modalias
RECURSIVE Listed(_, _, _)
Listed(t, s, in) ==
  IF s = <<>> THEN {}
  ELSE IF Head(s).file THEN {Head(s)}
  ELSE (IF Head(s).dev \in in THEN Listed(t, t[Head(s).dev], in) ELSE {})
         \union Listed(t, Tail(s), in)

Ended(k) == k \notin {"run", "term", "ok", "bad"}

\* The real root is only booted when the setup script has succeeded and
\* neither it nor modpipe is left.  While modpipe works, every device is
\* brought to it once the queue is empty, whether it was there before the
\* scan or was plugged in during or after it, unless it is listed after the
\* modalias of the directory it is in; and by its whole alias, unless that
\* comes from the scan and is longer than pick_modalias reads, when nothing
\* is said of what modpipe makes of it.  rdinit only sleeps beside a dead
\* script, or a dead modpipe it waits for, when two deaths shared a SIGCHLD.
BootSound ==
  /\ top.pc \in {"switch", "exec"} =>
       hist.ok /\ kids.script = "gone" /\ Ended(kids.modpipe)
  /\ Polling /\ queue = <<>> /\ top.modfd /\ kids.modpipe \in {"run", "term"} =>
       /\ \A e \in Listed(sys.tree, sys.tree[Root], sys.in \ Late) :
            e.long \/ [dev |-> e.dev, cut |-> FALSE] \in piped
       /\ \A d \in sys.in \intersect Late : [dev |-> d, cut |-> FALSE] \in piped
  /\ Polling /\ ~sigchld /\ ~hist.merged =>
       /\ kids.script \notin {"ok", "bad"}
       /\ kids.modpipe \notin {"ok", "bad"}

(***************************************************************************)
(* passblk asks for the passphrase of a key file on the console, and with  *)
(* the keys in it sets up encrypted partitions.  The input line is edited  *)
(* in a box that shows a part of it; only the cells that change are drawn. *)
(* A wrong passphrase is flashed for a second and may be tried again.      *)
(***************************************************************************)
CONSTANTS
  Secret,      \* the passphrase
  Letters,
  MAXPASS,
  Widths,      \* of the box
  STEP,        \* by which the part shown moves
  ArgLists,    \* its arguments: sequences of [t, label, idx]: a label, one with the index of
               \* its key, or "-"
  NKEYS,       \* the keys in the file
  RUNS, RESIZES

VARIABLES
  pass_top,     \* struct top: [pass, psptr, showpass, state, keyst, wait, inlen, at, i, rdev]; rdev
                \* is that of the partition's node
  box,     \* the cells of the input on the screen
  tty,     \* the terminal is ours: raw, without cursor, with a scroll area
  data,    \* keydata: "wrapped", "keys" or "garbage"
  dm,      \* (external) [map: label -> mapping, link: label -> device]
  pass_hist

pass_vars == <<pass_top, box, tty, data, dm, pass_hist>>

Least(a, b) == IF a < b THEN a ELSE b

(***************************************************************************)
(* The screen                                                              *)
(***************************************************************************)

\* fmt_box_input: what fits, and a line for what is free
fmt_box_input(t) ==
  LET abclen == Len(t.pass) - t.psptr
  IN [i \in 1..t.inlen |-> IF i > abclen THEN "_"
                           ELSE IF t.showpass THEN t.pass[t.psptr + i] ELSE "*"]

Redrawn(t) == [top |-> t, box |-> fmt_box_input(t)]

\* show_add_char, show_del_char: one cell
show_add_char(t, b, c) ==
  [top |-> t, box |-> [b EXCEPT ![Len(t.pass) - t.psptr] = IF t.showpass THEN c ELSE "*"]]
show_del_char(t, b) == [top |-> t, box |-> [b EXCEPT ![Len(t.pass) - t.psptr + 1] = "_"]]

\* mutant of adjusted
adjusted_late(t) ==
  LET right == Len(t.pass) - t.psptr
  IN IF right > t.inlen THEN t.psptr + STEP
     ELSE IF t.psptr > 0 /\ Len(t.pass) < t.inlen THEN 0
     ELSE IF t.psptr > 0 /\ right < t.inlen \div 2
     THEN IF t.psptr < STEP THEN 0 ELSE t.psptr - STEP
     ELSE t.psptr

\* adjust_input_ptr
adjusted(t) ==
  LET right == Len(t.pass) - t.psptr
  IN IF right >= t.inlen THEN t.psptr + STEP
     ELSE IF t.psptr > 0 /\ Len(t.pass) < t.inlen THEN 0
     ELSE IF t.psptr > 0 /\ right < t.inlen \div 2
     THEN IF t.psptr < STEP THEN 0 ELSE t.psptr - STEP
     ELSE t.psptr
Adjust(t) == [t EXCEPT !.psptr = adjusted(t)]

(***************************************************************************)
(* The keys                                                                *)
(***************************************************************************)

add_char(w, c) ==
  IF Len(w.top.pass) >= MAXPASS THEN w
  ELSE LET t == [w.top EXCEPT !.pass = Append(@, c)]
       IN IF Adjust(t) # t THEN Redrawn(Adjust(t)) ELSE show_add_char(t, w.box, c)

del_char(w) ==
  IF w.top.pass = <<>> THEN w
  ELSE LET t == [w.top EXCEPT !.pass = Front(@)]
       IN IF Adjust(t) # t THEN Redrawn(Adjust(t)) ELSE show_del_char(t, w.box)

toggle_showpass(w) == Redrawn([w.top EXCEPT !.showpass = ~@])

\* clear_input, reset_input
clear_input(w) == Redrawn([w.top EXCEPT !.pass = <<>>, !.psptr = 0])
reset_input(w) == Redrawn([w.top EXCEPT !.pass = <<>>, !.psptr = 0, !.state = "INPUT"])

\* enter_pass up to unwrap_keydata; the length stays, the characters do not
enter_pass(w, right) ==
  IF w.top.pass = <<>> THEN w
  ELSE LET t == [w.top EXCEPT !.showpass = FALSE]
       IN IF right THEN [Redrawn([t EXCEPT !.state = "HASHING"]) EXCEPT !.top.at = "create"]
          ELSE Redrawn([t EXCEPT !.state = "INVALID", !.wait = TRUE,
                                 !.pass = [i \in DOMAIN t.pass |-> "nul"]])

\* handle_reg_key
handle_reg_key(w, c, right) ==
  IF w.top.state # "INPUT" THEN w
  ELSE CASE c \in Letters -> add_char(w, c)
         [] c = "del" -> del_char(w)
         [] c = "^L" -> Redrawn(w.top)
         [] c = "enter" -> enter_pass(w, right)
         [] c = "tab" -> toggle_showpass(w)
         [] c = "^U" -> clear_input(w)
         [] OTHER -> w

\* handle_inchr: control sequences are skipped
handle_inchr(w, c, right) ==
  CASE w.top.keyst = "REG" /\ c = "esc" -> [w EXCEPT !.top.keyst = "ESC"]
    [] w.top.keyst = "REG" -> handle_reg_key(w, c, right)
    [] w.top.keyst = "ESC" -> [w EXCEPT !.top.keyst = IF c = "[" THEN "CSI" ELSE "REG"]
    [] OTHER -> IF c = ";" THEN w ELSE [w EXCEPT !.top.keyst = "REG"]

\* unwrap_keydata: wrong key data, once unwrapped, are garbage until they are
\* copied back
Unwraps(t) == data = "wrapped" /\ t.pass = Secret

unwrapped(right) == IF right THEN "keys" ELSE data

--------------------------------------------------------------------------
Running == pass_top.at = "poll"
Is(w) == pass_top' = w.top /\ box' = w.box

\* the line as a line editor has it
Typed(s, c) ==
  CASE c \in Letters -> IF Len(s) < MAXPASS THEN Append(s, c) ELSE s
    [] c = "del" -> IF s = <<>> THEN s ELSE Front(s)
    [] c = "^U" -> <<>>
    [] OTHER -> s

\* handle_input for one key: an invalid input is dropped first
handle_input(c) ==
  /\ Running
  /\ \E w \in {IF pass_top.state = "INVALID" THEN reset_input([top |-> pass_top, box |-> box])
               ELSE [top |-> pass_top, box |-> box]} :
       LET right == Unwraps(w.top)
           tries == c = "enter" /\ w.top.keyst = "REG" /\ w.top.pass # <<>>
           line == IF pass_top.state = "INVALID" THEN <<>> ELSE pass_hist.typed
       IN /\ Is(handle_inchr(w, c, right))
          /\ data' = IF tries THEN unwrapped(right) ELSE data
          /\ pass_hist' = [pass_hist EXCEPT
               !.typed = IF w.top.keyst = "REG" THEN Typed(line, c) ELSE line,
               !.agree = tries => (right <=> line = Secret)]
  /\ UNCHANGED <<tty, dm>>

\* the same for Enter and a key read with it: the key is dropped
handle_input_two(c) ==
  /\ Running /\ pass_top.state = "INPUT" /\ pass_top.keyst = "REG" /\ pass_top.pass # <<>>
  /\ ~Unwraps(pass_top)
  /\ Is(handle_inchr(enter_pass([top |-> pass_top, box |-> box], FALSE), c, FALSE))
  /\ data' = unwrapped(FALSE)
  /\ pass_hist' = [pass_hist EXCEPT !.agree = pass_hist.typed # Secret]
  /\ UNCHANGED <<tty, dm>>

\* handle_timeout: reset_input
handle_timeout ==
  /\ Running /\ pass_top.wait /\ pass_top.state = "INVALID"
  /\ Is(reset_input([top |-> pass_top, box |-> box]))
  /\ pass_hist' = [pass_hist EXCEPT !.typed = <<>>]
  /\ UNCHANGED <<tty, data, dm>>

\* terminate_input
Leave(at) == pass_top' = [pass_top EXCEPT !.at = at] /\ tty' = FALSE

\* update_term_size, handle_sigwinch: the dialog is drawn again, or the window
\* is too small
handle_sigwinch ==
  /\ Running /\ pass_hist.resizes < RESIZES
  /\ \/ \E n \in Widths : Is(Redrawn([pass_top EXCEPT !.inlen = n])) /\ UNCHANGED tty
     \/ Leave("exit") /\ UNCHANGED box
  /\ pass_hist' = [pass_hist EXCEPT !.resizes = @ + 1]
  /\ UNCHANGED <<data, dm>>

\* handle_user_end
handle_user_end ==
  /\ Running
  /\ Leave("exit")
  /\ UNCHANGED <<box, data, dm, pass_hist>>

--------------------------------------------------------------------------
(* decrypt_parts, partition by partition; any of its calls may fail        *)

\* parse_part_labels: a label without an index has the key of the one before it, "-"
\* moves on by one
parse_part_labels(l) ==
  FoldLeft(LAMBDA w, a :
             CASE a.t = "skip" -> [w EXCEPT !.ki = @ + 1]
               [] a.t = "plain" -> [w EXCEPT !.parts = Append(@, [label |-> a.label, keyidx |-> w.ki])]
               [] a.t = "index" -> [ki |-> a.idx - 1,
                                    parts |-> Append(w.parts, [label |-> a.label, keyidx |-> a.idx - 1])],
           [ki |-> 0, parts |-> <<>>], l).parts

Parts == parse_part_labels(pass_hist.args)
Part == Parts[pass_top.i]
Goto(at) == pass_top' = [pass_top EXCEPT !.at = at]
Fails == Goto("exit") /\ UNCHANGED dm
Free == [st |-> "none", key |-> 0, dev |-> ""]

\* dm_create: a name is taken once
dm_create ==
  /\ pass_top.at = "create"
  /\ \/ /\ dm.map[Part.label].st = "none"
        /\ dm' = [dm EXCEPT !.map[Part.label].st = "new"] /\ Goto("load")
     \/ Fails
  /\ tty' = FALSE
  /\ UNCHANGED <<box, data, pass_hist>>

\* dm_crypt, dm_single
dm_crypt ==
  /\ pass_top.at = "load"
  /\ \/ /\ dm' = [dm EXCEPT !.map[Part.label] =
                    [st |-> "loaded", key |-> Part.keyidx + 1, dev |-> pass_top.rdev[pass_top.i]]]
        /\ Goto("resume")
     \/ Fails
  /\ UNCHANGED <<box, tty, data, pass_hist>>

dm_resume ==
  /\ pass_top.at = "resume"
  /\ \/ dm' = [dm EXCEPT !.map[Part.label].st = "active"] /\ Goto("unlink")
     \/ Fails
  /\ UNCHANGED <<box, tty, data, pass_hist>>

\* redo_symlink: unlink and symlink
redo_unlink ==
  /\ pass_top.at = "unlink"
  /\ dm' = [dm EXCEPT !.link[Part.label] = "none"] /\ Goto("symlink")
  /\ UNCHANGED <<box, tty, data, pass_hist>>
redo_symlink ==
  /\ pass_top.at = "symlink"
  /\ \/ /\ dm' = [dm EXCEPT !.link[Part.label] = "dm"]
        /\ pass_top' = [pass_top EXCEPT !.at = IF pass_top.i = Len(Parts) THEN "done" ELSE "create",
                              !.i = IF @ = Len(Parts) THEN @ ELSE @ + 1]
     \/ Fails
  /\ UNCHANGED <<box, tty, data, pass_hist>>

\* setup_args, validate_parts, start_terminal: there must be a key for every label,
\* which must open, and its device is noted
main ==
  /\ pass_top.at = "exit" /\ pass_hist.runs < RUNS
  /\ pass_hist' = [pass_hist EXCEPT !.runs = @ + 1, !.typed = <<>>]
  /\ \A k \in DOMAIN Parts : Parts[k].keyidx < NKEYS /\ dm.link[Parts[k].label] # "none"
  /\ \E n \in Widths :
       Is(Redrawn([pass |-> <<>>, psptr |-> 0, showpass |-> FALSE, state |-> "INPUT",
                   keyst |-> "REG", wait |-> FALSE, inlen |-> n, at |-> "poll", i |-> 1,
                   rdev |-> [k \in DOMAIN Parts |-> dm.link[Parts[k].label]]]))
  /\ tty' = TRUE /\ data' = "wrapped"
  /\ UNCHANGED dm

PassInit ==
  /\ pass_top = [at |-> "exit"] /\ box = <<>> /\ tty = FALSE /\ data = "wrapped"
  /\ \E l \in ArgLists :
       pass_hist = [typed |-> <<>>, agree |-> TRUE, runs |-> 0, resizes |-> 0, args |-> l]
  /\ LET labels == {Parts[k].label : k \in DOMAIN Parts}
     IN dm = [map |-> [l \in labels |-> Free], link |-> [l \in labels |-> "raw"]]

PassNext ==
  \/ \E c \in Letters \union {"del", "^L", "enter", "tab", "^U", "esc", "[", ";"} : handle_input(c)
  \/ \E c \in Letters \union {"enter"} : handle_input_two(c)
  \/ handle_timeout \/ handle_sigwinch \/ handle_user_end
  \/ dm_create \/ dm_crypt \/ dm_resume \/ redo_unlink \/ redo_symlink \/ main

PassSpec == PassInit /\ [][PassNext]_pass_vars

--------------------------------------------------------------------------
\* The box shows the part of the line it has come to, whatever was typed,
\* deleted or resized, and the last character is in it unless the window has
\* become smaller.  A line is accepted exactly if it is the passphrase, also
\* after others were not.  Nothing but a signal, an error or the keys leads
\* out, and then the terminal is as it was; a wrong passphrase is cleared
\* without a key.  A mapping has the device of its partition, and the key that
\* its argument has the index of.  The key of an argument without an index is
\* left open: the manual takes the keys in order, but parse_part_labels does
\* not move on from one partition to the next.
PassSafe ==
  /\ Running => /\ pass_top.psptr <= Len(pass_top.pass)
                /\ box = fmt_box_input(pass_top)
                /\ pass_hist.resizes = 0 => Len(pass_top.pass) - pass_top.psptr < pass_top.inlen
                /\ pass_top.state = "INPUT" => pass_top.pass = pass_hist.typed
                /\ pass_top.state = "INVALID" => pass_top.wait
                /\ tty
  /\ pass_hist.agree
  /\ pass_top.at \in {"exit", "done"} => ~tty
  /\ \A k \in DOMAIN pass_hist.args :
       LET a == pass_hist.args[k]
           m == dm.map[a.label]
       IN a.t # "skip" /\ m.st \in {"loaded", "active"} =>
            m.dev = "raw" /\ m.key \in 1..NKEYS /\ (a.t = "index" => m.key = a.idx)
=============================================================================
