------------------------------- MODULE SysLog -------------------------------
(***************************************************************************)
(* sysklogd appends lines to /var/log/syslog and renames it to sysold when *)
(* it has grown past a threshold; logcat -f follows the file with inotify, *)
(* through a line buffer and an output buffer that may be circular, and    *)
(* logcat -b dumps both files.  A line is two bytes, the second being its  *)
(* newline, so that reads and buffers may end within one.                  *)
(***************************************************************************)
EXTENDS Integers, Sequences, FiniteSets, SequencesExt

CONSTANTS
  LINES,       \* bound on the lines logged
  THRESHOLD,   \* of log rotation, in bytes
  BUFLEN, OUTLEN,  \* of logcat's buffers
  STOPS        \* bound on the restarts of sysklogd

VARIABLES
  disk,        \* files: inode -> bytes; cur, old: the inodes named, 0 for none
  hub,         \* sysklogd: [pc, fd, size, next, stops]
  cat,         \* logcat: [mode, pc, fd, off, buf, ...]
  ino,         \* inotify: [file, dir, mod, new]
  shown,       \* what logcat has written
  hist         \* rotations since logcat opened the file, and what they hid

log_vars == <<disk, hub, cat, ino, shown, hist>>

Bytes(n) == <<[line |-> n, end |-> FALSE], [line |-> n, end |-> TRUE]>>
Least(a, b) == IF a < b THEN a ELSE b

--------------------------------------------------------------------------
(* sysklogd                                                               *)

\* an event for the file, if it is the one watched
Modified(i) == IF ino.file = i THEN [ino EXCEPT !.mod = TRUE] ELSE ino
Created == IF ino.dir THEN [ino EXCEPT !.new = TRUE] ELSE ino

\* open_logfile: O_CREAT, and the size it has
hub_open ==
  /\ hub.pc = "open"
  /\ LET i == IF disk.cur # 0 THEN disk.cur ELSE Len(disk.files) + 1
     IN /\ disk' = IF disk.cur # 0 THEN disk
                   ELSE [disk EXCEPT !.files = Append(@, <<>>), !.cur = i]
        /\ ino' = IF disk.cur # 0 THEN ino ELSE Created
        /\ hub' = [hub EXCEPT !.fd = i, !.size = Len(disk'.files[i]),
                     !.pc = IF Len(disk'.files[i]) >= THRESHOLD THEN "rename"
                            ELSE "poll"]
  /\ UNCHANGED <<cat, shown, hist>>

\* mutant of hub_size
hub_size_kept(n) == 0

\* ctx->size += len in store_line
hub_size(n) == n

\* recv_syslog, recv_klog, send_to_log, store_line
store_line ==
  /\ hub.pc = "poll" /\ hub.next <= LINES
  /\ disk' = [disk EXCEPT !.files[hub.fd] = @ \o Bytes(hub.next)]
  /\ ino' = Modified(hub.fd)
  /\ LET size == hub.size + hub_size(2)
     IN hub' = [hub EXCEPT !.next = @ + 1, !.size = size,
                   !.pc = IF size >= THRESHOLD THEN "rename" ELSE "poll"]
  /\ UNCHANGED <<cat, shown, hist>>

\* maybe_rotate: close and rename; open_logfile follows
maybe_rotate ==
  /\ hub.pc = "rename"
  /\ disk' = [disk EXCEPT !.old = disk.cur, !.cur = 0]
  /\ hub' = [hub EXCEPT !.pc = "open", !.fd = 0]
  /\ hist' = [hist EXCEPT !.rotated = @ + 1]
  /\ UNCHANGED <<cat, ino, shown>>

\* sighandler: at any point
sighandler ==
  /\ hub.pc # "down" /\ hub.stops < STOPS
  /\ hub' = [hub EXCEPT !.pc = "down", !.stops = @ + 1]
  /\ UNCHANGED <<disk, cat, ino, shown, hist>>

HubStart ==
  /\ hub.pc = "down"
  /\ hub' = [hub EXCEPT !.pc = "open"]
  /\ UNCHANGED <<disk, cat, ino, shown, hist>>

--------------------------------------------------------------------------
(* logcat's output: out is the part of the buffer up to ptr, rest what an   *)
(* earlier turn left beyond it                                             *)

\* output: bytes s go in; a full buffer is written with -a, or wraps
RECURSIVE output(_, _)
output(c, s) ==
  IF s = <<>> THEN c
  ELSE LET run == Least(Len(s), OUTLEN - Len(c.out))
           put == c.out \o SubSeq(s, 1, run)
           more == SubSeq(s, run + 1, Len(s))
           drop == SubSeq(c.rest, run + 1, Len(c.rest))
       IN IF Len(put) < OUTLEN THEN [c EXCEPT !.out = put, !.rest = drop]
          ELSE output(IF c.all
                      THEN [c EXCEPT !.out = <<>>, !.written = @ \o put]
                      ELSE [c EXCEPT !.out = <<>>, !.rest = put, !.over = TRUE],
                      more)

AfterNewline(s) ==
  LET is == {i \in DOMAIN s : s[i].end}
  IN SubSeq(s, 1 + CHOOSE i \in is : \A j \in is : i <= j, Len(s))
HasNewline(s) == \E i \in DOMAIN s : s[i].end

\* what flushout writes: the older part first, without its broken line
flushed(c) ==
  IF ~c.over THEN c.out
  ELSE IF HasNewline(c.rest) THEN AfterNewline(c.rest) \o c.out
  ELSE IF HasNewline(c.out) THEN AfterNewline(c.out)
  ELSE <<>>

flushout(c) ==
  [c EXCEPT !.written = @ \o flushed(c), !.out = <<>>, !.rest = <<>>,
            !.over = FALSE]

--------------------------------------------------------------------------
(* logcat's input                                                         *)

\* process_chunk, find_line_end, shift_chunk: the whole lines of the buffer
process_chunk(c) ==
  LET ends == {i \in DOMAIN c.buf : c.buf[i].end}
      last == IF ends = {} THEN 0 ELSE CHOOSE i \in ends : \A j \in ends : j <= i
  IN [output(c, SubSeq(c.buf, 1, last))
        EXCEPT !.buf = SubSeq(c.buf, last + 1, Len(c.buf))]

\* read_chunk
read_chunk(c) ==
  LET n == Least(BUFLEN - Len(c.buf), Len(disk.files[c.fd]) - c.off)
  IN [c EXCEPT !.buf = @ \o SubSeq(disk.files[c.fd], c.off + 1, c.off + n),
               !.off = @ + n]

\* seek_to_start_of_line: the last BUFLEN bytes, less the first line of them
seek_to_start(c) ==
  LET size == Len(disk.files[c.fd])
      r == read_chunk([c EXCEPT !.off = IF size < BUFLEN THEN 0 ELSE size - BUFLEN])
  IN IF size = 0 THEN c ELSE [r EXCEPT !.buf = AfterNewline(r.buf)]

At(pc) == cat.pc = pc
Cat(c, pc) ==
  /\ cat' = [c EXCEPT !.pc = pc, !.written = <<>>]
  /\ shown' = shown \o c.written

\* open_logfile
open_logfile ==
  /\ cat.pc \in {"open", "reopen"}
  /\ IF disk.cur = 0 THEN Cat(cat, "failed")
     ELSE Cat([cat EXCEPT !.fd = disk.cur, !.off = 0],
              IF At("open") THEN "watch" ELSE "rewatch")
  /\ hist' = [hist EXCEPT !.rotated = 0,
               !.skipped = @ \/ (At("reopen") /\ hist.rotated > 1)]
  /\ UNCHANGED <<disk, hub, ino>>

\* start_inotify: first the file that has the name now, then the directory
watch_file ==
  /\ cat.pc \in {"watch", "rewatch"}
  /\ IF disk.cur = 0 THEN Cat(cat, "failed") /\ UNCHANGED ino
     ELSE /\ ino' = [ino EXCEPT !.file = disk.cur]
          /\ Cat(cat, IF At("watch") THEN "watchdir" ELSE "slurp")
  /\ UNCHANGED <<disk, hub, hist>>

watch_dir ==
  /\ At("watchdir")
  /\ ino' = [ino EXCEPT !.dir = TRUE]
  /\ hist' = [hist EXCEPT !.late = hist.rotated > 0]
  /\ Cat(cat, IF cat.all THEN "slurp" ELSE "seek")
  /\ UNCHANGED <<disk, hub>>

\* follow_log: the tail there is at the start
Seek ==
  /\ At("seek")
  /\ Cat(flushout(process_chunk(seek_to_start(cat))), "wait")
  /\ UNCHANGED <<disk, hub, ino, hist>>

\* slurp_tail: read until there is nothing, processing each chunk; then
\* flushout, or the new file
slurp_tail ==
  /\ At("slurp")
  /\ LET r == read_chunk(cat)
     IN IF r.off # cat.off
        THEN /\ Cat(process_chunk(r), "slurp")
             /\ UNCHANGED <<ino, hist>>
        ELSE IF cat.nf
        THEN \* flushbuf, and the first half of reopen_logfile
             /\ Cat([cat EXCEPT !.buf = <<>>, !.nf = FALSE], "reopen")
             /\ ino' = [ino EXCEPT !.file = 0]
             /\ UNCHANGED hist
        ELSE \* OPT_a only holds for what was there at the start
             /\ Cat([flushout(cat) EXCEPT !.all = FALSE], "wait")
             /\ hist' = [hist EXCEPT !.burst = @ \/ cat.over]
             /\ UNCHANGED ino
  /\ UNCHANGED <<disk, hub>>

\* wait_inotify: all events there are
wait_inotify ==
  /\ At("wait") /\ (ino.mod \/ ino.new)
  /\ Cat([cat EXCEPT !.nf = ino.new], "slurp")
  /\ ino' = [ino EXCEPT !.mod = FALSE, !.new = FALSE]
  /\ UNCHANGED <<disk, hub, hist>>

\* dump_logs with -b: the old file and the current one, each mapped as it is
dump_old ==
  /\ At("dump")
  /\ Cat(IF disk.old = 0 THEN cat ELSE output(cat, disk.files[disk.old]),
         "dumpcur")
  /\ hist' = [hist EXCEPT !.rotated = 0]
  /\ UNCHANGED <<disk, hub, ino>>

\* mmap of an empty file fails
dump_logfile ==
  /\ At("dumpcur")
  /\ IF disk.cur = 0 \/ disk.files[disk.cur] = <<>> THEN Cat(cat, "failed")
     ELSE Cat(flushout(output(cat, disk.files[disk.cur])), "done")
  /\ UNCHANGED <<disk, hub, ino, hist>>

--------------------------------------------------------------------------
Init ==
  /\ disk = [files |-> <<>>, cur |-> 0, old |-> 0]
  /\ hub = [pc |-> "down", fd |-> 0, size |-> 0, next |-> 1, stops |-> 0]
  /\ \E mode \in {"follow", "all", "both"} :
       cat = [mode |-> mode, pc |-> IF mode = "both" THEN "dump" ELSE "open",
              all |-> mode # "follow", fd |-> 0, off |-> 0, buf |-> <<>>,
              out |-> <<>>, rest |-> <<>>, over |-> FALSE, written |-> <<>>,
              nf |-> FALSE]
  /\ ino = [file |-> 0, dir |-> FALSE, mod |-> FALSE, new |-> FALSE]
  /\ shown = <<>>
  /\ hist = [rotated |-> 0, late |-> FALSE, skipped |-> FALSE,
             burst |-> FALSE]

Next ==
  \/ hub_open \/ store_line \/ maybe_rotate \/ sighandler \/ HubStart
  \/ open_logfile \/ watch_file \/ watch_dir \/ Seek \/ slurp_tail
  \/ wait_inotify \/ dump_old \/ dump_logfile

Spec == Init /\ [][Next]_log_vars

--------------------------------------------------------------------------
Whole(s) == Len(s) % 2 = 0 /\ \A k \in 1..Len(s) \div 2 :
              s[2 * k - 1].line = s[2 * k].line
                /\ ~s[2 * k - 1].end /\ s[2 * k].end
Shown == {shown[i].line : i \in DOMAIN shown}
Idle == cat.pc = "wait" /\ ~ino.mod /\ ~ino.new

\* The lines in a file are at most what the threshold lets in.  logcat
\* writes whole lines, each once and in order.  When it sleeps with no event
\* pending, a line logged after the first one it showed is only missing if
\* the file was rotated before the directory was watched, if two rotations
\* passed before the file was opened again (then the second event may also
\* make it read the newest file twice), or if more than the output buffer
\* came at once.  A dump of both files has no gap unless a rotation fell
\* between them.
LogSound ==
  /\ \A i \in DOMAIN disk.files : Len(disk.files[i]) <= THRESHOLD + 1
  /\ cat.pc \in {"wait", "done"} => Whole(shown)
  /\ cat.pc \in {"wait", "done"} /\ ~hist.skipped =>
       /\ \A i \in 1..Len(shown)-1 : shown[i].line <= shown[i + 1].line
       /\ Len(shown) = 2 * Cardinality(Shown)
  /\ Idle /\ ~hist.late /\ ~hist.skipped /\ ~hist.burst /\ hub.pc = "poll" =>
       \/ Shown = {} /\ cat.mode = "follow"
       \/ \E first \in 1..LINES+1 : Shown = first..hub.next-1
  /\ cat.pc = "done" /\ hist.rotated = 0 =>
       \E first \in 1..LINES, last \in 1..LINES : Shown = first..last
====
