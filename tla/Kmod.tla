-------------------------------- MODULE Kmod --------------------------------
(* Kernel modules: depmod, modprobe and udevmod. *)
EXTENDS Naturals, Sequences, SequencesExt, FiniteSets

(***************************************************************************)
(* depmod, which writes modules.dep from what the modules say they depend  *)
(* on, and modprobe, which loads and removes modules by it.  Modules are   *)
(* installed at any time; depmod reads the directory, then the modules,    *)
(* and puts the index in place with rename, so that modprobe sees the one  *)
(* before or the new one.  A module of the index may be gone from disk.    *)
(***************************************************************************)
CONSTANTS
  Mods,      \* modules, numbered so that one depends on smaller ones
  Builtin,   \* names built into the kernel, which are not files
  SEEN       \* slots for dependencies seen

VARIABLES
  disk,      \* module -> what it depends on, in the order of its list
  index,     \* modules.dep: module -> the modules of its line
  tmp,       \* modules.dep.tmp, while depmod runs
  loaded,    \* modules in the kernel
  done       \* the last modprobe: what was asked for, and how it ended

Nothing == [cmd |-> "none", name |-> 0, ok |-> TRUE]

mod_vars == <<disk, index, tmp, loaded, done>>

Files(d) == DOMAIN d
DepNames == Mods \cup Builtin

(* depmod *)

\* mutant of seen_this_module: a name is noted when it is resolved
seen_never(st, name) == FALSE

\* a name is noted as seen, resolved or not, as long as there are slots
seen_this_module(st, name) == \E i \in 1..Len(st.seen) : st.seen[i] = name

note_seen(st, name) == [st EXCEPT !.seen = IF Len(@) < SEEN THEN Append(@, name) ELSE @]

RECURSIVE try_resolve_deps(_, _, _)

\* what is missing is reported until the first is found
try_resolve_name(d, st, name) ==
  IF seen_this_module(st, name) THEN st
  ELSE IF name \notin Files(d)
  THEN [note_seen(st, name) EXCEPT !.failed = @ \/ (st.out = <<>> /\ name \notin Builtin)]
  ELSE try_resolve_deps(d, [note_seen(st, name) EXCEPT !.out = Append(@, name)], name)

try_resolve_deps(d, st, md) ==
  LET deps == d[md]
      go[i \in 0..Len(deps)] ==
        IF i = 0 THEN st
        ELSE try_resolve_name(d, go[i - 1], deps[i])
  IN  go[Len(deps)]

resolve_module(d, md) == try_resolve_deps(d, [out |-> <<>>, seen |-> <<>>, failed |-> FALSE], md)

process_index(d) == [md \in Files(d) |-> resolve_module(d, md).out]

\* what it writes is what was there when it read the modules
depmod_reads ==
  /\ tmp = <<>>
  /\ tmp' = <<process_index(disk)>> /\ done' = Nothing
  /\ UNCHANGED <<disk, index, loaded>>

fini_output ==
  /\ tmp # <<>>
  /\ index' = tmp[1] /\ tmp' = <<>> /\ done' = Nothing
  /\ UNCHANGED <<disk, loaded>>

(* modprobe: world [loaded, ok] *)

\* init_module: a module there already is as good; the symbols it needs must be there
init_module(w, md) ==
  IF md \in w.loaded THEN w
  ELSE IF \A i \in 1..Len(disk[md]) : disk[md][i] \in w.loaded \cup Builtin
  THEN [w EXCEPT !.loaded = @ \cup {md}]
  ELSE [w EXCEPT !.ok = FALSE]

insert_relative(w, md) ==
  IF ~w.ok THEN w ELSE IF md \notin Files(disk) THEN [w EXCEPT !.ok = FALSE] ELSE init_module(w, md)

\* from the last
insert_dependencies(w, deps) ==
  LET go[i \in 0..Len(deps)] == IF i = 0 THEN w ELSE insert_relative(go[i - 1], deps[Len(deps) + 1 - i])
  IN  go[Len(deps)]

insert_named(w, name) ==
  IF name \notin DOMAIN index THEN [w EXCEPT !.ok = name \in Builtin]
  ELSE insert_relative(insert_dependencies(w, index[name]), name)

insert(name) ==
  /\ \E w \in {insert_named([loaded |-> loaded, ok |-> TRUE], name)} :
       loaded' = w.loaded /\ done' = [cmd |-> "insert", name |-> name, ok |-> w.ok]
  /\ UNCHANGED <<disk, index, tmp>>

Users(L, md) == {m \in L : \E i \in 1..Len(disk[m]) : disk[m][i] = md}

remove_named(w, name) ==
  IF ~w.ok THEN w
  ELSE IF name \notin w.loaded \/ Users(w.loaded, name) # {} THEN [w EXCEPT !.ok = FALSE]
  ELSE [w EXCEPT !.loaded = @ \ {name}]

\* what is on the line in its order, then the module itself; it ends with the first
\* error, as when the module that is to be removed still uses what is removed first
remove(name) ==
  LET deps == IF name \in DOMAIN index THEN index[name] ELSE <<>>
      go[i \in 0..Len(deps)] ==
        IF i = 0 THEN [loaded |-> loaded, ok |-> TRUE] ELSE remove_named(go[i - 1], deps[i])
      w == remove_named(go[Len(deps)], name)
  IN  /\ loaded' = w.loaded
      /\ done' = [cmd |-> "remove", name |-> name, ok |-> w.ok]
      /\ UNCHANGED <<disk, index, tmp>>

(* Installing modules.  No two depend on each other, as the kernel's build sees to. *)

Lists(S) == {s \in UNION {[1..n -> S] : n \in 0..2} : \A i, j \in DOMAIN s : i # j => s[i] # s[j]}

Reach(d) ==
  LET step[n \in 0..Cardinality(Mods)] ==
        IF n = 0 THEN {<<a, b>> \in Mods \X Mods : a \in Files(d) /\ \E i \in DOMAIN d[a] : d[a][i] = b}
        ELSE step[n - 1] \cup {p \in Mods \X Mods :
               \E c \in Mods : <<p[1], c>> \in step[n - 1] /\ <<c, p[2]>> \in step[n - 1]}
  IN  step[Cardinality(Mods)]

\* without what is built in or missing
Present(d) == [f \in Files(d) |-> SelectSeq(d[f], LAMBDA x : x \in Files(d))]

install(m) ==
  /\ m \notin Files(disk)
  /\ \E l \in Lists({x \in DepNames : x < m}) :
       disk' = [f \in Files(disk) \cup {m} |-> IF f = m THEN l ELSE disk[f]]
  /\ done' = Nothing
  /\ UNCHANGED <<index, tmp, loaded>>

DepsInit ==
  /\ disk = <<>> /\ index = <<>> /\ tmp = <<>> /\ loaded = {}
  /\ done = Nothing

DepsNext == depmod_reads \/ fini_output \/ \E m \in Mods : install(m) \/ insert(m) \/ remove(m)

DepsSpec == DepsInit /\ [][DepsNext]_mod_vars

(* Properties *)

\* depmod: whatever the modules on disk, the line of one has all that it depends on,
\* directly or not, as far as there are files, and each once.  (Every disk there may
\* be is there before the first depmod, and is looked at then.)
LinesComplete ==
  index = <<>> /\ tmp = <<>> /\ done = Nothing =>
    LET lines == process_index(disk)
        reach == Reach(Present(disk))
    IN  \A m \in Files(disk) :
          /\ ToSet(lines[m]) = {b \in Files(disk) : <<m, b>> \in reach}
          /\ IsInjective(lines[m])

Fresh == index = process_index(disk)
Ordered(s) == \A i, j \in DOMAIN s : i < j => s[i] \notin ToSet(disk[s[j]])
Complete(m) == \A x \in {m} \cup ToSet(index[m]) : ToSet(disk[x]) \subseteq Files(disk) \cup Builtin

\* modprobe: when it says that a module is loaded, all that is on its line is, whatever
\* index it had.  With an index that is up to date, a module whose dependencies are
\* there is loaded, if none of the line is needed by one further on; whatever else is in
\* the kernel already.  (depmod puts a name where it met it first, so a line may have
\* one that is needed further on, and then modprobe fails unless it is loaded.)
LoadsWhole ==
  done.cmd = "insert" /\ done.name \in DOMAIN index =>
    /\ done.ok => {done.name} \cup ToSet(index[done.name]) \subseteq loaded
    /\ Fresh /\ Complete(done.name) /\ Ordered(index[done.name]) => done.ok

ModulesSafe == LinesComplete /\ LoadsWhole

(***************************************************************************)
(* How modprobe finds a device's alias among the patterns of               *)
(* modules.alias.  Patterns and names are sequences of terminals, which    *)
(* are lowercase, of characters of values, and, in patterns, of stars.     *)
(***************************************************************************)
CONSTANTS
  Terminals, Values,
  PLEN, NLEN   \* bounds on the lengths of patterns and names

VARIABLES
  pattern, alias,
  found        \* "unknown" until the line has been looked at

STAR == "*"

Strings(S, n) == UNION {[1..k -> S] : k \in 0..n}

\* as the kernel writes them: a star is followed by a terminal, or is the last
Patterns ==
  {p \in Strings(Terminals \cup Values \cup {STAR}, PLEN) :
     \A i \in 1..(Len(p) - 1) : p[i] = STAR => p[i + 1] \in Terminals}

Names == Strings(Terminals \cup Values, NLEN)

\* the first of n from position i on that is c, or the end
Skip(n, i, c) ==
  IF \E j \in i..Len(n) : n[j] = c
  THEN CHOOSE j \in i..Len(n) : n[j] = c /\ \A k \in i..(j - 1) : n[k] # c
  ELSE Len(n) + 1

At(p, i) == IF i <= Len(p) THEN p[i] ELSE " "

\* mutant of Ends: a star that has matched nothing is left over
ends_strict(p, i, n, j) == j > Len(n) /\ i > Len(p)

\* a star at the end of the pattern may match nothing
Ends(p, i, n, j) ==
  j > Len(n) /\ (i > Len(p) \/ (i = Len(p) /\ p[i] = STAR))

RECURSIVE Walk(_, _, _, _)
Walk(p, i, n, j) ==
  IF j > Len(n) \/ i > Len(p) THEN Ends(p, i, n, j)
  ELSE IF p[i] = STAR THEN Walk(p, i + 1, n, Skip(n, j, At(p, i + 1)))
  ELSE p[i] = n[j] /\ Walk(p, i + 1, n, j + 1)

match_alias(p, n) == Walk(p, 1, n, 1)

locate_alias_line ==
  /\ found = "unknown"
  /\ found' = IF match_alias(pattern, alias) THEN "yes" ELSE "no"
  /\ UNCHANGED <<pattern, alias>>

AliasInit == pattern \in Patterns /\ alias \in Names /\ found = "unknown"
AliasNext == locate_alias_line
AliasSpec == AliasInit /\ [][AliasNext]_<<pattern, alias, found>>

\* what a pattern means, when a star stands for characters of S only
RECURSIVE Glob(_, _, _)
Glob(p, n, S) ==
  IF p = <<>> THEN n = <<>>
  ELSE IF Head(p) = STAR
  THEN Glob(Tail(p), n, S) \/ (n # <<>> /\ Head(n) \in S /\ Glob(p, Tail(n), S))
  ELSE n # <<>> /\ Head(n) = Head(p) /\ Glob(Tail(p), Tail(n), S)

\* match_alias, which skips to the next terminal and never goes back: a name is found
\* when its values, put for the stars, give it, and never when no string does.
AliasFound ==
  /\ found = "no" => ~Glob(pattern, alias, Values)
  /\ found = "yes" => Glob(pattern, alias, Terminals \cup Values)

(***************************************************************************)
(* modprobe -p at the end of udevmod's pipe: aliases are written whole,    *)
(* one line each, and read as the pipe has them into a buffer that may end *)
(* in the middle of a line.  A character is the number of the alias it     *)
(* belongs to, or the end of its line.                                     *)
(***************************************************************************)
CONSTANTS
  ALIASES,   \* aliases written
  MAXLEN,    \* characters of the longest
  SIZE       \* of the buffer

VARIABLES
  pipe,      \* characters written and not read
  buf,       \* what is left in the buffer of the line that has begun
  tried      \* [sent, lines]: aliases written, with their lengths, and what was looked up

EOL == 0

Line(a, n) == Append([i \in 1..n |-> a], EOL)

\* out_modprobe: a write this short is not split
out_modprobe(n) ==
  /\ Len(tried.sent) < ALIASES
  /\ \E a \in {Len(tried.sent) + 1} :
       /\ pipe' = pipe \o Line(a, n)
       /\ tried' = [tried EXCEPT !.sent = Append(@, [i \in 1..n |-> a])]
  /\ UNCHANGED buf

\* the lines of b that have an end, and what is left after the last of them
RECURSIVE Split(_, _)
Split(b, lines) ==
  IF ~Contains(b, EOL) THEN [lines |-> lines, left |-> b]
  ELSE LET q == CHOOSE i \in 1..Len(b) : b[i] = EOL /\ \A j \in 1..(i - 1) : b[j] # EOL
       IN  Split(SubSeq(b, q + 1, Len(b)), Append(lines, SubSeq(b, 1, q - 1)))

\* mutant of Rest: what has begun is dropped with what was before it
rest_dropped(b, old) == <<>>

\* what stays in the buffer: if no line ended, what was there before this read
Rest(b, old) == IF Split(b, <<>>).lines # <<>> THEN Split(b, <<>>).left ELSE old

\* one round of read_stdin: as much as there is and fits
read_stdin ==
  /\ pipe # <<>> /\ Len(buf) < SIZE
  /\ \E n \in {IF Len(pipe) < SIZE - Len(buf) THEN Len(pipe) ELSE SIZE - Len(buf)} :
     \E b \in {buf \o SubSeq(pipe, 1, n)} :
       /\ pipe' = SubSeq(pipe, n + 1, Len(pipe))
       /\ buf' = Rest(b, buf)
       /\ tried' = [tried EXCEPT !.lines = @ \o Split(b, <<>>).lines]

PipeInit == pipe = <<>> /\ buf = <<>> /\ tried = [sent |-> <<>>, lines |-> <<>>]

PipeNext == (\E n \in 1..MAXLEN : out_modprobe(n)) \/ read_stdin

PipeSpec == PipeInit /\ [][PipeNext]_<<pipe, buf, tried>>

\* modprobe -p: the aliases are looked up whole and in order, however the reads cut
\* them, and none is left when the pipe is empty.
AliasesWhole ==
  /\ IsPrefix(tried.lines, tried.sent)
  /\ pipe = <<>> => tried.lines = tried.sent

(***************************************************************************)
(* udevmod: it binds to the kernel's events, walks /sys for the devices    *)
(* that are there already and pipes their aliases to one modprobe, writes  *)
(* the tags of the input devices it finds in /dev/input, and then takes    *)
(* the events.  Devices come and go all the time.  What is read of a       *)
(* device is read when its event is handled, and may be of another device  *)
(* by then; the tags are written one step later.  Events it has no space   *)
(* for end udevmod, and it is started again.                               *)
(***************************************************************************)
CONSTANTS
  Slots,     \* places for devices, which are names and device numbers
  QLEN,      \* events the kernel keeps for the socket
  PLUGS      \* bound on the devices plugged in

VARIABLES
  dev,       \* slot -> what is there, "none" or one of Kinds
  sock,      \* events queued, whether some did not fit; ghost: slots with events nobody got
  um,        \* phase of udevmod, what it has left to do, what it has read
  file,      \* slot -> tags in /run/udev/data
  udev_tried      \* ghost: slot -> the alias that was passed to modprobe last

udev_vars == <<dev, sock, um, file, udev_tried>>

\* kbd: an event device with bits worth a tag; plain: one without; bus: one with an
\* alias; long: one with an alias longer than the buffer of pick_modalias
Kinds == {"kbd", "plain", "bus", "long"}
Aliased == {"bus", "long"}
Tags(k) == IF k = "kbd" THEN "kbd" ELSE "none"

NoRead == [slot |-> 0, tags |-> "none"]
Phase(p) == [phase |-> p, left |-> {}, pipe |-> um.pipe, got |-> NoRead]

(* The kernel *)

Event(act, s, k) ==
  IF sock.up /\ Len(sock.q) < QLEN
  THEN [sock EXCEPT !.q = Append(@, [act |-> act, slot |-> s, kind |-> k])]
  ELSE [sock EXCEPT !.lost = sock.up, !.missed = @ \cup {s}]

plug(s, k) ==
  /\ dev[s] = "none" /\ sock.plugs < PLUGS
  /\ dev' = [dev EXCEPT ![s] = k] /\ udev_tried' = [udev_tried EXCEPT ![s] = "none"]
  /\ sock' = [Event("add", s, k) EXCEPT !.plugs = @ + 1]
  /\ UNCHANGED <<um, file>>

unplug(s) ==
  /\ dev[s] # "none"
  /\ dev' = [dev EXCEPT ![s] = "none"]
  /\ sock' = Event("remove", s, dev[s])
  /\ UNCHANGED <<um, file, udev_tried>>

(* Startup *)

\* open_udev, then open_modprobe
open_udev ==
  /\ um.phase = "start"
  /\ sock' = [sock EXCEPT !.up = TRUE]
  /\ um' = [phase |-> "sys", left |-> Slots, pipe |-> TRUE, got |-> NoRead]
  /\ UNCHANGED <<dev, file, udev_tried>>

\* modpipe ends early: what is written from here on is dropped
modpipe_dies ==
  /\ um.phase = "sys" /\ um.pipe
  /\ um' = [um EXCEPT !.pipe = FALSE]
  /\ UNCHANGED <<dev, sock, file, udev_tried>>

\* the first characters of the alias, as many as fit
pick_modalias(k) == IF k = "long" THEN "cut" ELSE k

\* scan_dir, pick_modalias and out_modprobe for one device
scan_dir(s) ==
  /\ um.phase = "sys" /\ s \in um.left
  /\ um' = [um EXCEPT !.left = @ \ {s}]
  /\ udev_tried' = IF dev[s] \in Aliased /\ um.pipe
                   THEN [udev_tried EXCEPT ![s] = pick_modalias(dev[s])] ELSE udev_tried
  /\ UNCHANGED <<dev, sock, file>>

stop_modprobe ==
  /\ um.phase = "sys" /\ um.left = {}
  /\ um' = [Phase("dev") EXCEPT !.left = Slots]
  /\ UNCHANGED <<dev, sock, file, udev_tried>>

\* probe: the bits of the device that has the name now; if it has gone, none
probe(s) == [slot |-> s, tags |-> Tags(dev[s])]

\* scan_devices of /dev/input: probe_device up to the writing
probe_device(s) ==
  /\ um.phase = "dev" /\ um.got = NoRead /\ s \in um.left
  /\ um' = [um EXCEPT !.left = @ \ {s}, !.got = probe(s)]
  /\ UNCHANGED <<dev, sock, file, udev_tried>>

init_inputs ==
  /\ um.phase = "dev" /\ um.got = NoRead /\ um.left = {}
  /\ um' = Phase("run")
  /\ UNCHANGED <<dev, sock, file, udev_tried>>

\* a file is written only if there are tags
write_udev_data ==
  /\ um.phase \in {"dev", "run"} /\ um.got # NoRead
  /\ file' = IF um.got.tags # "none" THEN [file EXCEPT ![um.got.slot] = um.got.tags] ELSE file
  /\ um' = [um EXCEPT !.got = NoRead]
  /\ UNCHANGED <<dev, sock, udev_tried>>

(* Events *)

\* mutant of dev_removed: as in dev_added, what is there now decides
dev_removed_now(s) == IF dev[s] = "none" THEN [file EXCEPT ![s] = "none"] ELSE file

dev_removed(s) == [file EXCEPT ![s] = "none"]

\* run_modprobe, with the alias of the event, waits for modprobe; probe_input is up to
\* the writing
dev_added(ev) ==
  /\ udev_tried' = IF ev.kind \in Aliased /\ dev[ev.slot] = ev.kind
                   THEN [udev_tried EXCEPT ![ev.slot] = ev.kind] ELSE udev_tried
  /\ um' = IF ev.kind \in Aliased THEN um ELSE [um EXCEPT !.got = probe(ev.slot)]
  /\ UNCHANGED file

recv_event ==
  /\ um.phase = "run" /\ um.got = NoRead /\ ~sock.lost /\ sock.q # <<>>
  /\ sock' = [sock EXCEPT !.q = Tail(@)]
  /\ \/ /\ Head(sock.q).act = "add" /\ dev_added(Head(sock.q))
     \/ /\ Head(sock.q).act = "remove"
        /\ file' = IF Head(sock.q).kind \in Aliased THEN file ELSE dev_removed(Head(sock.q).slot)
        /\ UNCHANGED <<um, udev_tried>>
  /\ UNCHANGED <<dev>>

\* recv returns ENOBUFS once: udevmod ends, its files stay
recv_fails ==
  /\ um.phase = "run" /\ um.got = NoRead /\ sock.lost
  /\ um' = Phase("start")
  /\ sock' = [sock EXCEPT !.up = FALSE, !.q = <<>>, !.lost = FALSE,
                          !.missed = @ \cup {sock.q[i].slot : i \in 1..Len(sock.q)}]
  /\ UNCHANGED <<dev, file, udev_tried>>

UdevInit ==
  /\ dev \in [Slots -> Kinds \cup {"none"}]
  /\ sock = [up |-> FALSE, q |-> <<>>, lost |-> FALSE, missed |-> {}, plugs |-> 0]
  /\ um = [phase |-> "start", left |-> {}, pipe |-> FALSE, got |-> NoRead]
  /\ file = [s \in Slots |-> "none"]
  /\ udev_tried = [s \in Slots |-> "none"]

UdevNext ==
  \/ \E s \in Slots : (\E k \in Kinds : plug(s, k)) \/ unplug(s)
  \/ open_udev \/ modpipe_dies \/ stop_modprobe \/ init_inputs \/ write_udev_data
  \/ \E s \in Slots : scan_dir(s) \/ probe_device(s)
  \/ recv_event \/ recv_fails

UdevSpec == UdevInit /\ [][UdevNext]_udev_vars

(* Properties *)

Idle == um.phase = "run" /\ um.got = NoRead /\ sock.q = <<>> /\ ~sock.lost

\* udevmod: once the events are dealt with, the tags on file are those of the device
\* that is there, however it came: before, during or after the scan, in place of
\* another one.  What was removed while there was no udevmod stays on file.
TagsSettled ==
  Idle => \A s \in Slots :
    \/ file[s] = Tags(dev[s])
    \/ s \in sock.missed /\ Tags(dev[s]) = "none"

\* udevmod: once the events are dealt with, the alias of every device has been tried,
\* unless modpipe died: whole, but for one too long that was there at the scan and whose
\* first characters were tried.
AliasesTried ==
  Idle /\ um.pipe => \A s \in Slots : dev[s] \in Aliased =>
    udev_tried[s] = dev[s] \/ udev_tried[s] = pick_modalias(dev[s])

UdevSafe == TagsSettled /\ AliasesTried
=============================================================================
