------------------------------- MODULE Disks -------------------------------
(* Disks and mounts: the readers of mountinfo, mount and umount, findblk. *)
EXTENDS Naturals, Sequences, SequencesExt, FiniteSets

(***************************************************************************)
(* The mounts, rfs and vfs commands of the rescue shell, and mntstat: both *)
(* read /proc/self/mountinfo in pieces, carry the start of an incomplete   *)
(* line over to the next piece and report the lines asked for.             *)
(***************************************************************************)
CONSTANTS
  MountLines,      \* lines of mountinfo: [dev, point, blocks, len], dev is <<major, minor>>
  MAXMOUNTS,   \* bound on the lines
  MINSIZE,     \* the read buffer
  Modes        \* <<tool, mode, device>>

VARIABLES
  file,    \* the lines of mountinfo
  pos,     \* bytes read
  buf,     \* ctx->minbuf
  ctx,     \* [tool, mode, dev, off, st]
  out,     \* lines reported
  rds      \* sizes of the reads so far

ml_vars == <<file, pos, buf, ctx, out, rds>>

\* byte k of a line tells which line it is; the last is the newline
Bytes(i, l) == [k \in 1..l.len |-> <<i, k, k = l.len>>]
RECURSIVE Stream(_, _)
Stream(f, i) == IF i > Len(f) THEN <<>> ELSE Bytes(i, f[i]) \o Stream(f, i + 1)
Total == Stream(file, 1)
Newline(b) == b[3]

\* external: the kernel gives whole lines up to the size asked for; when what it has
\* is longer than that, it cuts the last line
Filled(n) == {m \in 1..n : /\ pos + m <= Len(Total)
                           /\ m = n \/ pos + m = Len(Total) \/ Newline(Total[pos + m])}

findline(b, p, e) == LET nl == {q \in (p + 1)..e : Newline(b[q])}
                     IN  IF nl = {} THEN 0 ELSE CHOOSE q \in nl : \A r \in nl : q <= r

\* scan_mount_line, splitline: a line cut or joined out of pieces has other fields
LineOf(bytes) == IF \E i \in DOMAIN file : bytes = Bytes(i, file[i])
                 THEN CHOOSE i \in DOMAIN file : bytes = Bytes(i, file[i]) ELSE 0

virtual(l) == l.dev[1] = 0

\* mutant of scan_check_mount
scan_check_loose(c, l) == ~(c.mode = "real" /\ virtual(l))

scan_check_mount(c, l) ==
  /\ ~(c.mode = "real" /\ virtual(l))
  /\ ~(c.mode = "virt" /\ ~virtual(l))

skipdev(c, l) ==
  IF c.mode = "file" THEN l.dev # c.dev
  ELSE (virtual(l) /\ c.mode = "plain") \/ (~virtual(l) /\ c.mode = "m")

\* reportfs: empty filesystems are left out unless the file was named
reportfs(c, l) == l.blocks # 0 \/ c.mode = "file"

Reported(c, i) ==
  IF i = 0 THEN <<0>>
  ELSE IF c.tool = "shell" THEN (IF scan_check_mount(c, file[i]) THEN <<i>> ELSE <<>>)
  ELSE IF skipdev(c, file[i]) THEN <<>>
  ELSE IF reportfs(c, file[i]) THEN <<i>> ELSE <<>>

\* the lines of one piece: [p, out, done]
RECURSIVE Lines(_, _, _, _, _)
Lines(c, b, p, e, o) ==
  LET q == findline(b, p, e)
  IN  IF q = 0 THEN [p |-> p, out |-> o, done |-> FALSE]
      ELSE LET i == LineOf(SubSeq(b, p + 1, q))
               n == o \o Reported(c, i)
           IN  IF c.mode = "file" /\ i # 0 /\ ~skipdev(c, file[i])
               THEN [p |-> q, out |-> n, done |-> TRUE]
               ELSE Lines(c, b, q, e, n)

\* what is left of the piece goes to the start of the buffer
Carry(b, p, e) == SubSeq(b, p + 1, e) \o SubSeq(b, e - p + 1, Len(b))

\* statdev was not found: the file itself is reported
NotFound(c) == IF c.mode = "file" THEN <<0>> ELSE <<>>

\* one turn of the loop; the end of the piece is buf + rd
scan_mountinfo ==
  /\ ctx.st = "scan"
  /\ IF pos = Len(Total)
     THEN /\ ctx' = [ctx EXCEPT !.st = "end"] /\ out' = out \o NotFound(ctx)
          /\ UNCHANGED <<pos, buf, rds>>
     ELSE \E rd \in Filled(MINSIZE - ctx.off) :
       LET b == SubSeq(buf, 1, ctx.off) \o SubSeq(Total, pos + 1, pos + rd) \o SubSeq(buf, ctx.off + rd + 1, MINSIZE)
           r == Lines(ctx, b, 0, rd, out)
           off == IF r.p < rd THEN rd - r.p ELSE ctx.off
           last == r.done \/ rd < MINSIZE - off
       IN  /\ pos' = pos + rd /\ rds' = Append(rds, rd)
           /\ buf' = IF r.p < rd THEN Carry(b, r.p, rd) ELSE b
           /\ ctx' = [ctx EXCEPT !.off = off, !.st = IF last THEN "end" ELSE "scan"]
           /\ out' = r.out \o (IF last /\ ~r.done THEN NotFound(ctx) ELSE <<>>)
  /\ UNCHANGED file

\* list_mounts, scan
ListInit ==
  /\ file \in BoundedSeq(MountLines, MAXMOUNTS)
  /\ \A i, j \in DOMAIN file : file[i].point = file[j].point => i = j
  /\ ctx \in {[tool |-> m[1], mode |-> m[2], dev |-> m[3], off |-> 0, st |-> "scan"] : m \in Modes}
  /\ pos = 0 /\ out = <<>> /\ rds = <<>>
  /\ buf = [i \in 1..MINSIZE |-> <<0, 0, FALSE>>]

ListNext == scan_mountinfo

ListSpec == ListInit /\ [][ListNext]_ml_vars

(***************************************************************************)
(* Properties                                                              *)
(***************************************************************************)
AskedFor(l) ==
  CASE ctx.mode = "all" -> TRUE
    [] ctx.mode = "virt" -> l.dev[1] = 0
    [] ctx.mode = "real" -> l.dev[1] # 0
    [] ctx.mode = "plain" -> l.dev[1] # 0 /\ l.blocks # 0
    [] ctx.mode = "m" -> l.dev[1] = 0 /\ l.blocks # 0
    [] ctx.mode = "a" -> l.blocks # 0
    [] OTHER -> FALSE
Indexes(n) == SelectSeq([i \in 1..n |-> i], LAMBDA i : AskedFor(file[i]))
Whole(n) == Len(Stream(SubSeq(file, 1, n), 1)) <= rds[1]
FirstOf == {i \in DOMAIN file : file[i].dev = ctx.dev /\ \A j \in 1..(i - 1) : file[j].dev # ctx.dev}

\* The lines that arrive whole in the first read are all reported, once, in order, exactly
\* those the mode asks for; when that read has the whole of mountinfo, nothing else is
\* reported, and a file that was named is shown with the first mount of its device.
MountsShown ==
  (rds # <<>> /\ ctx.mode # "file") =>
    /\ \E n \in 0..Len(file) : Whole(n) /\ ~(n < Len(file) /\ Whole(n + 1)) /\ IsPrefix(Indexes(n), out)
    /\ (ctx.st = "end" /\ rds[1] = Len(Total)) => out = Indexes(Len(file))
FileShown ==
  (ctx.st = "end" /\ ctx.mode = "file" /\ (rds = <<>> \/ rds[1] = Len(Total))) =>
    out = IF FirstOf = {} THEN <<0>> ELSE <<CHOOSE i \in FirstOf : TRUE>>
MountsListed == MountsShown /\ FileShown

(***************************************************************************)
(* kmount, which mounts and unmounts, and reboot, which unmounts whatever  *)
(* is mounted, in two passes over the list of mounts, before the machine   *)
(* is stopped.  The list is in the order of mounting, except for what      *)
(* changing the root has moved.                                            *)
(***************************************************************************)
CONSTANTS
  Points,      \* mount points: sequences of names, <<>> is the root
  Virtual,     \* those in vfstab
  OPS          \* bound on commands

VARIABLES
  mnt,     \* (external) sequence of [mp, ro, use, odd]; odd: the name is escaped in the list
  dirs,    \* mount points that are directories
  cmd,     \* the command that runs
  ops

mount_vars == <<mnt, dirs, cmd, ops>>

Idle == [name |-> "none"]
Mounted == {mnt[i].mp : i \in DOMAIN mnt}
At(mp) == CHOOSE i \in DOMAIN mnt : mnt[i].mp = mp
Below(list, mp) == {i \in DOMAIN list : mp # list[i].mp /\ IsPrefix(mp, list[i].mp)}

\* umount(2): not while it is used or something is mounted in it
umount_ok(list, i) == list[i].use = "no" /\ Below(list, list[i].mp) = {}

(***************************************************************************)
(* kmount                                                                  *)
(***************************************************************************)
\* create_mountpoint, sys_mount
Mount(mp, create, ro) ==
  IF mp \in dirs \/ create
  THEN /\ mnt' = Append(mnt, [mp |-> mp, ro |-> ro, use |-> "no", odd |-> FALSE])
       /\ dirs' = dirs \union {mp}
  ELSE UNCHANGED <<mnt, dirs>>

\* mount: -m creates the mount point; the bound is one mount for a point
mount ==
  /\ cmd = Idle /\ ops < OPS /\ ops' = ops + 1
  /\ \E mp \in Points \ Mounted, m, r \in BOOLEAN : Below(mnt, mp) = {} /\ Mount(mp, m, r)
  /\ UNCHANGED cmd

\* mount -e: remount
remount ==
  /\ cmd = Idle /\ ops < OPS /\ ops' = ops + 1
  /\ \E i \in DOMAIN mnt, r \in BOOLEAN : /\ r => mnt[i].use # "write"
                                          /\ mnt' = [mnt EXCEPT ![i].ro = r]
  /\ UNCHANGED <<dirs, cmd>>

\* mntvfs, virtual: the first that fails ends it
mntvfs ==
  /\ cmd = Idle /\ ops < OPS /\ ops' = ops + 1
  /\ \E mp \in Virtual \ Mounted, c \in BOOLEAN : Mount(mp, c, FALSE)
  /\ UNCHANGED cmd

\* umount: every argument, whatever becomes of the others
umount ==
  /\ cmd = Idle /\ ops < OPS /\ ops' = ops + 1
  /\ \E args \in {<<p>> : p \in Points} \union {a \in Points \X Points : a[1] # a[2]}, c \in BOOLEAN :
       cmd' = [name |-> "umount", args |-> args, c |-> c]
  /\ UNCHANGED <<mnt, dirs>>
umount_arg ==
  /\ cmd.name = "umount"
  /\ LET mp == Head(cmd.args)
         good == mp \in Mounted /\ umount_ok(mnt, At(mp))
     IN  /\ mnt' = IF good THEN RemoveAt(mnt, At(mp)) ELSE mnt
         /\ dirs' = IF good /\ cmd.c THEN dirs \ {mp} ELSE dirs
         /\ cmd' = IF Len(cmd.args) = 1 THEN Idle ELSE [cmd EXCEPT !.args = Tail(@)]
  /\ UNCHANGED ops

(***************************************************************************)
(* reboot                                                                  *)
(***************************************************************************)
\* scan_mountpoints, index_scanned
umountall ==
  /\ cmd = Idle
  /\ cmd' = [name |-> "umount1", mps |-> [i \in DOMAIN mnt |-> mnt[i].mp],
             odd |-> {mnt[i].mp : i \in {j \in DOMAIN mnt : mnt[j].odd}},
             done |-> {}, i |-> Len(mnt)]
  /\ UNCHANGED <<mnt, dirs, ops>>

\* umount1: any error but EBUSY counts as done
umount1 ==
  /\ cmd.name = "umount1"
  /\ LET mp == cmd.mps[cmd.i]
         next == IF cmd.i > 1 THEN [cmd EXCEPT !.i = @ - 1]
                 ELSE [cmd EXCEPT !.name = "umount2", !.i = Len(cmd.mps)]
     IN  IF mp = <<>> THEN mnt' = mnt /\ cmd' = next
         ELSE IF mp \in cmd.odd THEN mnt' = mnt /\ cmd' = [next EXCEPT !.done = @ \union {mp}]
         ELSE IF umount_ok(mnt, At(mp))
         THEN mnt' = RemoveAt(mnt, At(mp)) /\ cmd' = [next EXCEPT !.done = @ \union {mp}]
         ELSE mnt' = mnt /\ cmd' = next
  /\ UNCHANGED <<dirs, ops>>

\* mutant of umount2
umount2_only ==
  /\ cmd.name = "umount2"
  /\ LET mp == cmd.mps[cmd.i]
         next == IF cmd.i > 1 THEN [cmd EXCEPT !.i = @ - 1] ELSE [cmd EXCEPT !.name = "reboot"]
     IN  /\ cmd' = next
         /\ mnt' = IF mp \in cmd.done THEN mnt
                   ELSE IF mnt[At(mp)].use # "write" THEN [mnt EXCEPT ![At(mp)].ro = TRUE] ELSE mnt
  /\ UNCHANGED <<dirs, ops>>

\* umount2: once more, or read only
umount2 ==
  /\ cmd.name = "umount2"
  /\ LET mp == cmd.mps[cmd.i]
         next == IF cmd.i > 1 THEN [cmd EXCEPT !.i = @ - 1] ELSE [cmd EXCEPT !.name = "reboot"]
     IN  /\ cmd' = next
         /\ mnt' = IF mp \in cmd.done THEN mnt
                   ELSE IF mp # <<>> /\ umount_ok(mnt, At(mp)) THEN RemoveAt(mnt, At(mp))
                   ELSE IF mnt[At(mp)].use # "write" THEN [mnt EXCEPT ![At(mp)].ro = TRUE] ELSE mnt
  /\ UNCHANGED <<dirs, ops>>

\* switchroot, or a move of mounts: the order is another
Moved ==
  /\ cmd = Idle /\ ops < OPS /\ ops' = ops + 1
  /\ \E i, j \in DOMAIN mnt : i < j /\ mnt' = [mnt EXCEPT ![i] = mnt[j], ![j] = mnt[i]]
  /\ UNCHANGED <<dirs, cmd>>

\* files that are left open, and names with spaces in them
Used ==
  /\ cmd = Idle /\ ops < OPS /\ ops' = ops + 1
  /\ \E i \in DOMAIN mnt :
       \/ \E u \in {"read", "write"} : /\ u = "write" => ~mnt[i].ro
                                       /\ mnt' = [mnt EXCEPT ![i].use = u]
       \/ mnt[i].mp # <<>> /\ Below(mnt, mnt[i].mp) = {} /\ mnt' = [mnt EXCEPT ![i].odd = TRUE]
  /\ UNCHANGED <<dirs, cmd>>

Fresh(mp) == [mp |-> mp, ro |-> FALSE, use |-> "no", odd |-> FALSE]
MountInit ==
  /\ \E S \in SUBSET Points :
       /\ mnt = [i \in 1..(Cardinality(S) + 1) |->
                  Fresh((<<<<>>>> \o SetToSortSeq(S, LAMBDA p, q : Len(p) < Len(q)))[i])]
       /\ dirs \in {S, Points}
  /\ cmd = Idle /\ ops = 0

MountNext == mount \/ remount \/ mntvfs \/ umount \/ umount_arg \/ umountall \/ umount1 \/ umount2 \/ Moved \/ Used

MountSpec == MountInit /\ [][MountNext]_mount_vars

--------------------------------------------------------------------------
Depth(mp, all) == IF \E q \in all : mp # q /\ IsPrefix(mp, q)
                  THEN IF \E q, r \in all : mp # q /\ q # r /\ IsPrefix(mp, q) /\ IsPrefix(q, r) THEN 2 ELSE 1
                  ELSE 0
\* reboot: when the machine is stopped, what is still mounted is read only,
\* unless files on it are open for writing or its name is not one that umount takes; and
\* it is there for a reason: it is used, something in it is, or there were mounts
\* in mounts in it, in the wrong order.
MountsSafe ==
  cmd.name = "reboot" =>
    \A i \in DOMAIN mnt :
      LET m == mnt[i] IN
        /\ m.ro \/ m.use = "write" \/ m.odd
        /\ \/ m.mp = <<>> \/ m.use # "no" \/ m.odd
           \/ Below(mnt, m.mp) # {}
           \/ Depth(m.mp, ToSet(cmd.mps)) = 2

(***************************************************************************)
(* findblk waits for a block device and its partitions to appear and links *)
(* them in /dev/mapper.  Devices show up in /sys and are announced by      *)
(* events some time later; findblk looks in /sys once, and then follows    *)
(* the events.                                                             *)
(***************************************************************************)
CONSTANTS
  Disks,       \* names of disks
  Parts,       \* partitions: pairs of disks and suffixes
  Wanted,      \* the disk that has the key
  Specs        \* arguments: set of sequences of [suff, label]; suff "" is the whole device

VARIABLES
  sys,     \* (external) [disk, part: what is in /sys]
  queue,   \* (external) events on the socket; "closed" before it is open
  spec,    \* parts
  blk_ctx,     \* struct top: [st, todo, device, missing, waited, i]
  links    \* /dev/mapper: label -> the partition

findblk_vars == <<sys, queue, spec, blk_ctx, links>>

SuffixesOf(d) == {p[2] : p \in {q \in Parts : q[1] = d}}
Ended == blk_ctx.st \in {"done", "failed", "timed out", "missing"}

(***************************************************************************)
(* The kernel: a disk is listed, can be read, and is announced; its        *)
(* partitions are announced after it                                       *)
(***************************************************************************)
Announce(ev) == queue' = IF queue.open THEN [queue EXCEPT !.q = Append(@, ev)] ELSE queue

Disk(d) ==
  \/ sys.disk[d] = "none" /\ sys' = [sys EXCEPT !.disk[d] = "listed"] /\ UNCHANGED queue
  \/ sys.disk[d] = "listed" /\ sys' = [sys EXCEPT !.disk[d] = "ready"] /\ UNCHANGED queue
  \/ /\ sys.disk[d] = "ready" /\ sys' = [sys EXCEPT !.disk[d] = "told"]
     /\ Announce([type |-> "disk", disk |-> d, suff |-> ""])
Partition(d, s) ==
  \/ /\ sys.disk[d] # "none" /\ sys.part[d, s] = "none"
     /\ sys' = [sys EXCEPT !.part[d, s] = "listed"] /\ UNCHANGED queue
  \/ /\ sys.disk[d] = "told" /\ sys.part[d, s] = "listed"
     /\ sys' = [sys EXCEPT !.part[d, s] = "told"]
     /\ Announce([type |-> "partition", disk |-> d, suff |-> s])
Kernel ==
  /\ ~Ended
  /\ \E d \in Disks : Disk(d) \/ \E s \in SuffixesOf(d) : Partition(d, s)
  /\ UNCHANGED <<spec, blk_ctx, links>>

(***************************************************************************)
(* findblk                                                                 *)
(***************************************************************************)
Go(st) == blk_ctx' = [blk_ctx EXCEPT !.st = st]

\* mutant of open_udev
open_udev_late ==
  /\ \/ blk_ctx.st = "open" /\ Go("list") /\ UNCHANGED queue
     \/ blk_ctx.st = "wait" /\ ~queue.open /\ queue' = [queue EXCEPT !.open = TRUE] /\ UNCHANGED blk_ctx
  /\ UNCHANGED <<sys, spec, links>>

open_udev ==
  /\ blk_ctx.st = "open"
  /\ queue' = [queue EXCEPT !.open = TRUE] /\ Go("list")
  /\ UNCHANGED <<sys, spec, links>>

\* check with a match function: match_name, match_mbr, match_gpt and the others
\* find what is there to be read
match(d) == d = Wanted /\ sys.disk[d] \in {"ready", "told"}

\* mark_partition: all the arguments with that suffix
mark_partition(c, suff) ==
  [c EXCEPT !.missing = {i \in @ : spec[i].suff # suff}]

\* setup_context: partbits
AllParts == {i \in DOMAIN spec : spec[i].suff # ""}
Found(d) == [blk_ctx EXCEPT !.device = d, !.st = IF blk_ctx.missing = {} THEN "link" ELSE "listparts"]

\* scan_devices of /sys/block: what is there, name by name
list_disks ==
  /\ blk_ctx.st = "list"
  /\ blk_ctx' = [blk_ctx EXCEPT !.st = "scan", !.todo = {d \in Disks : sys.disk[d] # "none"}]
  /\ UNCHANGED <<sys, queue, spec, links>>
scan_disk ==
  /\ blk_ctx.st = "scan" /\ blk_ctx.todo # {}
  /\ \E d \in blk_ctx.todo : blk_ctx' = IF match(d) THEN [Found(d) EXCEPT !.todo = {}]
                                ELSE [blk_ctx EXCEPT !.todo = @ \ {d}]
  /\ UNCHANGED <<sys, queue, spec, links>>
scanned ==
  /\ blk_ctx.st = "scan" /\ blk_ctx.todo = {}
  /\ Go("wait")
  /\ UNCHANGED <<sys, queue, spec, links>>

\* recv_udev_event, check
recv_udev_event ==
  /\ blk_ctx.st \in {"wait", "waitparts"} /\ queue.q # <<>>
  /\ queue' = [queue EXCEPT !.q = Tail(@)]
  /\ LET ev == Head(queue.q)
         marked == mark_partition(blk_ctx, ev.suff)
     IN  blk_ctx' = IF blk_ctx.st = "wait" /\ ev.type = "disk" /\ match(ev.disk) THEN Found(ev.disk)
                ELSE IF blk_ctx.st = "waitparts" /\ ev.type = "partition" /\ ev.disk = blk_ctx.device
                THEN [marked EXCEPT !.st = IF marked.missing = {} THEN "link" ELSE @]
                ELSE blk_ctx
  /\ UNCHANGED <<sys, spec, links>>

\* wait_devices: one second and then four for the device, one for partitions
timeout ==
  /\ blk_ctx.st \in {"wait", "waitparts"} /\ queue.q = <<>>
  /\ blk_ctx' = IF blk_ctx.st = "wait" /\ ~blk_ctx.waited THEN [blk_ctx EXCEPT !.waited = TRUE]
            ELSE [blk_ctx EXCEPT !.st = IF blk_ctx.st = "wait" THEN "timed out" ELSE "missing"]
  /\ UNCHANGED <<sys, queue, spec, links>>

\* locate_parts
list_parts ==
  /\ blk_ctx.st = "listparts"
  /\ blk_ctx' = [blk_ctx EXCEPT !.st = "scanparts", !.todo = {s \in SuffixesOf(blk_ctx.device) : sys.part[blk_ctx.device, s] # "none"}]
  /\ UNCHANGED <<sys, queue, spec, links>>

scan_part ==
  /\ blk_ctx.st = "scanparts" /\ blk_ctx.todo # {}
  /\ \E s \in blk_ctx.todo :
       LET c == mark_partition(blk_ctx, s)
       IN  blk_ctx' = [c EXCEPT !.todo = @ \ {s}, !.st = IF c.missing = {} THEN "link" ELSE @]
  /\ UNCHANGED <<sys, queue, spec, links>>
scanned_parts ==
  /\ blk_ctx.st = "scanparts" /\ blk_ctx.todo = {}
  /\ Go("waitparts")
  /\ UNCHANGED <<sys, queue, spec, links>>

\* link_parts, one at a time; a link that is there already is an error
link_part ==
  /\ blk_ctx.st = "link"
  /\ LET p == spec[blk_ctx.i]
     IN  IF blk_ctx.i > Len(spec) THEN Go("done") /\ UNCHANGED links
         ELSE IF links[p.label] # <<>> THEN Go("failed") /\ UNCHANGED links
         ELSE /\ links' = [links EXCEPT ![p.label] = <<blk_ctx.device, p.suff>>]
              /\ blk_ctx' = [blk_ctx EXCEPT !.i = @ + 1]
  /\ UNCHANGED <<sys, queue, spec>>

BlkInit ==
  /\ sys \in [disk : [Disks -> {"none", "ready"}], part : [Parts -> {"none", "listed"}]]
  /\ \A p \in Parts : sys.part[p] # "none" => sys.disk[p[1]] # "none"
  /\ queue = [open |-> FALSE, q |-> <<>>]
  /\ spec \in Specs
  /\ blk_ctx = [st |-> "open", todo |-> {}, device |-> "", missing |-> AllParts, waited |-> FALSE, i |-> 1]
  /\ links = [l \in {spec[i].label : i \in DOMAIN spec} |-> <<>>]

BlkNext ==
  \/ Kernel \/ open_udev \/ list_disks \/ scan_disk \/ scanned \/ recv_udev_event \/ timeout
  \/ list_parts \/ scan_part \/ scanned_parts \/ link_part

BlkSpec == BlkInit /\ [][BlkNext]_findblk_vars

--------------------------------------------------------------------------
\* findblk: however the listing, the events and the time that runs out fall
\* together, it gives up on the device or on a partition only if that has not
\* been announced, and what it links is the device with the key, or a partition of it
\* that is there, under its own label.
FindSafe ==
  /\ blk_ctx.st = "timed out" => sys.disk[Wanted] # "told" \/ queue.q # <<>>
  /\ blk_ctx.st = "missing" =>
       \E i \in blk_ctx.missing : \/ <<Wanted, spec[i].suff>> \notin Parts
                              \/ sys.part[Wanted, spec[i].suff] # "told"
                              \/ queue.q # <<>>
  /\ blk_ctx.st \in {"link", "done"} =>
       /\ blk_ctx.device = Wanted
       /\ \A i \in AllParts : sys.part[Wanted, spec[i].suff] # "none"
  /\ blk_ctx.st = "done" => \A i \in DOMAIN spec : links[spec[i].label] = <<Wanted, spec[i].suff>>
=============================================================================
