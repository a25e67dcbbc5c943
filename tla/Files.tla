------------------------------- MODULE Files -------------------------------
(* Files: bincopy and copy. *)
EXTENDS Integers, Sequences, FiniteSets

(***************************************************************************)
(* bincopy copies a range between a device and a file, or fills a range    *)
(* with zeros.  Its offsets and sizes are unsigned and wrap.               *)
(***************************************************************************)
CONSTANTS
  WRAP,        \* 2^64 in the code
  MAXRUN, PAGE,
  Sizes,       \* sizes given; 0 to WRAP - 1, or anything negative for none
  Offsets,
  Lengths,     \* lengths of the files
  Types        \* "reg", "blk", "chr"

VARIABLES
  cmd,     \* struct bcp: [mode, size, soff, doff, stype, dtype]
  st,      \* "open", "send", "map", "done", "failed"
  dst,     \* contents of the destination; the source's are <<"s", 1>>, <<"s", 2>>, ...
  slen,    \* length of the source
  pos,     \* [src, dst: file offsets, left]
  before   \* what the destination was

bcp_vars == <<cmd, st, dst, slen, pos, before>>

Zero == <<"0", 0>>
Add(a, b) == (a + b) % WRAP
Sub(a, b) == (a - b) % WRAP
Min2(a, b) == IF a < b THEN a ELSE b
sizable(type) == type \in {"reg", "blk"}
checksize(type, size, off, n) == ~sizable(type) \/ Add(off, n) <= size

Truncated(f, n) == [i \in 1..n |-> IF i <= Len(f) THEN f[i] ELSE Zero]
\* data written at an offset; a gap is zeros
Written(f, off, data) ==
  [i \in 1..(IF off + Len(data) > Len(f) THEN off + Len(data) ELSE Len(f)) |->
     IF i > off /\ i <= off + Len(data) THEN data[i - off] ELSE IF i <= Len(f) THEN f[i] ELSE Zero]
Source(off, n) == [i \in 1..n |-> <<"s", off + i>>]
Zeros(n) == [i \in 1..n |-> Zero]

Fail == st' = "failed" /\ UNCHANGED <<dst, pos>>
Transfer(size) == st' = "send" /\ pos' = [src |-> cmd.soff, dst |-> cmd.doff, left |-> size]

(***************************************************************************)
(* The modes                                                               *)
(***************************************************************************)
\* mutant of wmode
wmode_grow ==
  LET size == IF cmd.size >= 0 THEN cmd.size ELSE slen
  IN  IF cmd.size < 0 /\ ~sizable(cmd.stype) THEN Fail
      ELSE IF ~sizable(cmd.dtype) THEN Fail
      ELSE IF ~checksize(cmd.dtype, Len(dst), 0, size) THEN Fail
      ELSE IF ~checksize(cmd.stype, slen, cmd.soff, slen) THEN Fail
      ELSE Transfer(size) /\ UNCHANGED dst

\* of the source, what is checked is its own size
wmode ==
  LET size == IF cmd.size >= 0 THEN cmd.size ELSE slen
  IN  IF cmd.size < 0 /\ ~sizable(cmd.stype) THEN Fail
      ELSE IF ~sizable(cmd.dtype) THEN Fail
      ELSE IF ~checksize(cmd.dtype, Len(dst), cmd.doff, size) THEN Fail
      ELSE IF ~checksize(cmd.stype, slen, cmd.soff, slen) THEN Fail
      ELSE Transfer(size) /\ UNCHANGED dst

rmode ==
  LET size == IF cmd.size >= 0 THEN cmd.size ELSE Sub(slen, cmd.soff)
  IN  IF cmd.size < 0 /\ ~sizable(cmd.stype) THEN Fail
      ELSE IF ~checksize(cmd.stype, slen, cmd.soff, size) THEN Fail
      ELSE /\ dst' = IF cmd.dtype = "reg" /\ Add(size, cmd.doff) >= Len(dst)
                     THEN Truncated(dst, cmd.doff) ELSE dst
           /\ Transfer(size)

\* plain -z
zmode ==
  IF cmd.size < 0 THEN Fail
  ELSE dst' = Truncated(dst, cmd.size) /\ st' = "done" /\ UNCHANGED pos

Twice(off, size) == Truncated(Truncated(dst, off), Add(off, size))
\* where there are no holes zerommap gets no memory to write from
zwmode ==
  LET size == IF cmd.size >= 0 THEN cmd.size ELSE Sub(Len(dst), cmd.doff)
      end == Add(cmd.doff, size)
  IN  IF end > Len(dst) \/ cmd.dtype # "reg" THEN Fail
      ELSE \/ /\ end = Len(dst)
              /\ dst' = Twice(cmd.doff, size) /\ st' = "done" /\ UNCHANGED pos
           \/ /\ end # Len(dst)
              /\ \/ size > 0 /\ dst' = Written(dst, cmd.doff, Zeros(size)) /\ st' = "done" /\ UNCHANGED pos
                 \/ Fail

zrmode ==
  LET size == IF cmd.size >= 0 THEN cmd.size ELSE Sub(Len(dst), cmd.doff)
  IN  IF cmd.dtype # "reg" THEN Fail
      ELSE dst' = Twice(cmd.doff, size) /\ st' = "done" /\ UNCHANGED pos

Open ==
  /\ st = "open"
  /\ CASE cmd.mode = "r" -> rmode
       [] cmd.mode = "w" -> wmode
       [] cmd.mode = "z" -> zmode
       [] cmd.mode = "zw" -> zwmode
       [] cmd.mode = "zr" -> zrmode
  /\ UNCHANGED <<cmd, slen, before>>

(***************************************************************************)
(* transfer                                                                *)
(***************************************************************************)
BinCopied(n) ==
  /\ dst' = Written(dst, pos.dst, Source(pos.src, n))
  /\ pos' = [src |-> pos.src + n, dst |-> pos.dst + n, left |-> pos.left - n]
Available == IF pos.src >= slen THEN 0 ELSE slen - pos.src
Room == IF cmd.dtype = "blk" THEN (IF pos.dst >= Len(dst) THEN 0 ELSE Len(dst) - pos.dst) ELSE WRAP

\* at the end of the source nothing is sent, and it is tried again
sendfile ==
  /\ st = "send"
  /\ \/ ~sizable(cmd.stype) /\ Fail                      \* readwrite gets no buffer
     \/ /\ sizable(cmd.stype) /\ pos.left > 0
        /\ \/ \E n \in 0..Min2(Min2(pos.left, MAXRUN), Min2(Available, Room)) :
                n > 0 /\ BinCopied(n) /\ UNCHANGED st
           \/ Fail
           \/ pos.src = cmd.soff /\ st' = "map" /\ UNCHANGED <<dst, pos>>    \* EINVAL
     \/ sizable(cmd.stype) /\ pos.left = 0 /\ st' = "done" /\ UNCHANGED <<dst, pos>>
  /\ UNCHANGED <<cmd, slen, before>>

\* an offset that is not a page's cannot be mapped, what is past the end not written
copymmap ==
  /\ st = "map"
  /\ LET n == Min2(pos.left, MAXRUN)
     IN  IF pos.left = 0 THEN st' = "done" /\ UNCHANGED <<dst, pos>>
         ELSE IF pos.src % PAGE # 0 \/ n > Available \/ n > Room THEN Fail
         ELSE (BinCopied(n) /\ UNCHANGED st) \/ Fail
  /\ UNCHANGED <<cmd, slen, before>>

BinInit ==
  /\ \E m \in {"r", "w", "z", "zr", "zw"}, s \in Sizes, o, p \in Offsets, t, u \in Types :
       /\ m \in {"z", "zr", "zw"} => o = 0 /\ t = "reg"
       /\ m = "z" => p = 0 /\ u = "reg"
       /\ m = "r" => u # "chr"                   \* a pipe keeps nothing
       /\ cmd = [mode |-> m, size |-> s, soff |-> o, doff |-> p, stype |-> t, dtype |-> u]
  /\ st = "open"
  /\ \E n \in Lengths : dst = [i \in 1..n |-> <<"d", i>>]
  /\ slen \in Lengths
  /\ pos = [src |-> 0, dst |-> 0, left |-> 0]
  /\ before = dst

BinNext == Open \/ sendfile \/ copymmap

BinSpec == BinInit /\ [][BinNext]_bcp_vars

(***************************************************************************)
(* Properties                                                              *)
(***************************************************************************)
Wanted ==
  IF cmd.size >= 0 THEN cmd.size
  ELSE CASE cmd.mode = "r" -> slen - cmd.soff
         [] cmd.mode = "w" -> slen
         [] OTHER -> Len(before) - cmd.doff
ByteAt(f, i) == IF i \in 1..Len(f) THEN f[i] ELSE Zero
Inside(i) == i > cmd.doff /\ i <= cmd.doff + Wanted

\* A device keeps its size and all but the range written, even when the copying is
\* cut short, and a file all that is before the range; what is reported as done is
\* the range of the source, or zeros, and nothing past the end of the source is ever
\* copied, offsets past the ends of the files included.
RangeKept ==
  /\ cmd.mode \in {"w", "zw"} =>
       /\ Len(dst) = Len(before)
       /\ \A i \in 1..Len(dst) : ~Inside(i) => dst[i] = before[i]
  /\ cmd.mode \in {"r", "zr"} =>
       \A i \in 1..Min2(Len(dst), cmd.doff) : dst[i] = ByteAt(before, i)
  /\ \A i \in 1..Len(dst) : dst[i] \in {Zero, ByteAt(before, i), <<"s", i - cmd.doff + cmd.soff>>}
  /\ \A i \in 1..Len(dst) : dst[i][1] = "s" => dst[i][2] <= slen
  /\ st = "done" =>
       /\ cmd.mode \in {"r", "w"} =>
            \A i \in 1..Len(dst) : Inside(i) => dst[i] = <<"s", i - cmd.doff + cmd.soff>>
       /\ (cmd.mode = "r" /\ Wanted > 0) => Len(dst) >= cmd.doff + Wanted
       /\ cmd.mode \in {"zr", "zw"} => \A i \in 1..Len(dst) : Inside(i) => dst[i] = Zero
       /\ cmd.mode = "z" => Len(dst) = Wanted

(***************************************************************************)
(* copy: files of one directory are copied or moved to another, as a tree  *)
(* (the directory itself) or by name.  A dry run looks for errors first,   *)
(* unless told not to.  The real run ends with the first error, and may be *)
(* interrupted between any two system calls.  A file is the number of what *)
(* is in it; files with the same number are links to each other.           *)
(***************************************************************************)
CONSTANTS
  Names,
  Empty       \* the number of a file that is empty

VARIABLES
  cfg,        \* how it was called, and what the file systems let it do
  fs,         \* directory -> name -> entry; whether the directories are there
  cp          \* where it is

copy_vars == <<cfg, fs, cp>>

None == [t |-> "none"]
Old == [t |-> "reg", of |-> 99, whole |-> TRUE, ino |-> 0]
Dir == [t |-> "dir"]
Reg(n) == [t |-> "reg", of |-> n, whole |-> TRUE, ino |-> n]

S == "src"
\* the directory that things go to: when called for a file that is here, the same
Dst == cfg.dst
src == fs.ent[S]
copy_dst == fs.ent[Dst]

At(pc) == cp.pc = pc
Go(pc) == [cp EXCEPT !.pc = pc]
nlink(n) == Cardinality({x \in Names : src[x].t = "reg" /\ src[x].ino = src[n].ino})

(* tryrun: the dry run changes nothing *)

Unreadable == {x \in Names : src[x].t = "reg" /\ x \notin cfg.readable}

\* mutant of dry_errors: only what it is going to write to is looked at
dry_errors_dst == cfg.tree /\ fs.made /\ (cfg.new \/ ~cfg.writable)

\* check_src_dst, check_dst_dir, open_dst_dir: a directory that is to be made is not
\* looked into.  run, for a name: where check_top_dst fails nothing is looked at, and
\* no error is counted.
dry_errors ==
  IF cfg.tree
  THEN fs.made /\ \/ cfg.new
                  \/ Unreadable # {}
                  \/ ~cfg.writable /\ \E x \in Names : src[x].t \in {"reg", "lnk"}
  ELSE cfg.writable /\ Unreadable # {}

tryrun ==
  /\ At("dry")
  /\ cp' = IF ~cfg.yolo /\ dry_errors THEN Go("fail") ELSE Go(IF cfg.tree THEN "dir" ELSE "next")
  /\ UNCHANGED <<cfg, fs>>

(* A directory *)

\* maybe_rename; a directory in the way must be empty
directory ==
  /\ At("dir")
  /\ IF cfg.move /\ cfg.samefs
     THEN IF (\E x \in Names : copy_dst[x] # None) \/ (~fs.made /\ ~cfg.writable) THEN cp' = Go("fail") /\ UNCHANGED fs
          ELSE /\ fs' = [ent |-> [fs.ent EXCEPT ![Dst] = src, ![S] = [x \in Names |-> None]],
                         made |-> TRUE, there |-> FALSE]
               /\ cp' = Go("done")
     ELSE IF (fs.made /\ cfg.new) \/ (~fs.made /\ ~cfg.writable) THEN cp' = Go("fail") /\ UNCHANGED fs
     ELSE fs' = [fs EXCEPT !.made = TRUE] /\ cp' = Go("next")
  /\ UNCHANGED cfg

\* scan_directory or copy_many: the next one, in any order, and what runrec makes of it
runrec(x) ==
  /\ At("next") /\ x \in cp.left
  /\ cp' = [cp EXCEPT !.left = @ \ {x}, !.cur = x,
       !.pc = CASE src[x].t = "reg" -> IF cfg.move /\ cfg.samefs THEN "rename" ELSE "unlink"
                [] src[x].t = "lnk" -> "symlink"
                [] OTHER -> "next"]
  /\ UNCHANGED <<cfg, fs>>

\* maybe_rmdir_src: what was ignored is in the way
maybe_rmdir_src ==
  /\ At("next") /\ cp.left = {}
  /\ IF cfg.move /\ cfg.tree
     THEN IF \A x \in Names : src[x] = None
          THEN fs' = [fs EXCEPT !.there = FALSE] /\ cp' = Go("done")
          ELSE cp' = Go("fail") /\ UNCHANGED fs
     ELSE cp' = Go("done") /\ UNCHANGED fs
  /\ UNCHANGED cfg

(* A file *)

Put(d, x, e) == [fs EXCEPT !.ent[d][x] = e]

maybe_rename ==
  /\ At("rename")
  /\ \E x \in {cp.cur} :
       IF copy_dst[x] = Dir \/ ~cfg.writable THEN cp' = Go("fail") /\ UNCHANGED fs
       ELSE /\ fs' = IF S = Dst THEN fs
                     ELSE [fs EXCEPT !.ent[Dst][x] = src[x], !.ent[S][x] = None]
            /\ cp' = Go("next")
  /\ UNCHANGED cfg

\* unlink_dst, whatever is there and with -n too; the name may be the source's own
unlink_dst ==
  /\ At("unlink") \/ At("symlink")
  /\ \/ /\ copy_dst[cp.cur] = Dir \/ ~cfg.writable
        /\ cp' = Go("fail") /\ UNCHANGED fs
     \/ /\ copy_dst[cp.cur] # Dir /\ cfg.writable
        /\ fs' = Put(Dst, cp.cur, None)
        /\ cp' = Go(IF At("unlink") THEN "open" ELSE "make")
  /\ UNCHANGED cfg

\* the name that this file has been copied to
find_link(x) == {y \in cp.links : cp.inos[y] = src[x].ino}

\* open_src, and link_dst if there are other names for the file
copyfile ==
  /\ At("open")
  /\ \E x \in {cp.cur} :
       IF src[x] = None \/ x \notin cfg.readable THEN cp' = Go("fail") /\ UNCHANGED fs
       ELSE IF nlink(x) > 1 /\ find_link(x) # {}
       THEN /\ \E y \in find_link(x) : fs' = Put(Dst, x, copy_dst[y])
            /\ cp' = Go("rmsrc")
       ELSE cp' = Go("create") /\ UNCHANGED fs
  /\ UNCHANGED cfg

\* a new file, whose number no other has
open_dst ==
  /\ At("create")
  /\ \E x \in {cp.cur} :
       /\ fs' = Put(Dst, x, [t |-> "reg", of |-> src[x].of, whole |-> src[x].of = Empty,
                             ino |-> 10 + Cardinality(cp.left)])
       /\ cp' = Go(IF src[x].of = Empty THEN "rmsrc" ELSE "fill")
  /\ UNCHANGED cfg

\* the file's other names will be links to this one
note_ino(c) ==
  [c EXCEPT !.links = IF nlink(c.cur) > 1 THEN @ \cup {c.cur} ELSE @,
            !.inos[c.cur] = src[c.cur].ino]

\* all of it, or no space
transfer ==
  /\ At("fill")
  /\ \/ cfg.full /\ cp' = Go("fail") /\ UNCHANGED fs
     \/ /\ fs' = [fs EXCEPT !.ent[Dst][cp.cur].whole = TRUE]
        /\ cp' = note_ino(Go("rmsrc"))
  /\ UNCHANGED cfg

\* symlinkat
symlink ==
  /\ At("make")
  /\ fs' = Put(Dst, cp.cur, [t |-> "lnk"]) /\ cp' = Go("rmsrc")
  /\ UNCHANGED cfg

maybe_unlink_src ==
  /\ At("rmsrc")
  /\ fs' = IF cfg.move THEN Put(S, cp.cur, None) ELSE fs
  /\ cp' = Go("next")
  /\ UNCHANGED cfg

First == CHOOSE x \in Names : TRUE

Flags == [tree : BOOLEAN, move : BOOLEAN, samefs : BOOLEAN, yolo : BOOLEAN, new : BOOLEAN,
          full : BOOLEAN, writable : BOOLEAN, readable : {Names, Names \ {First}},
          dst : {S, "dst"}, orig : {<<>>}, before : {<<>>}]

Entries == {Reg(1), Reg(2), Reg(Empty), [t |-> "lnk"], [t |-> "spec"]}

CopyInit ==
  /\ \E f \in Flags, s \in [Names -> Entries], d \in [Names -> {None, Old, Dir}] :
       /\ f.tree => f.dst # S
       /\ f.dst = S => f.samefs
       /\ f.new /\ ~f.tree => f.dst # S /\ f.readable = Names /\ f.writable
       /\ \A x \in Names : x # First => d[x] # Dir /\ s[x].t # "spec"
       /\ ~f.writable \/ f.readable # Names \/ f.new => ~f.full
       /\ cfg = [f EXCEPT !.orig = s, !.before = d]
       /\ fs = [ent |-> [x \in {S, "dst"} |-> IF x = S THEN s ELSE d],
                made |-> ~f.tree \/ \E x \in Names : d[x] # None, there |-> TRUE]
  /\ cp = [pc |-> "dry", left |-> Names, cur |-> First, links |-> {},
           inos |-> [x \in Names |-> 0]]

CopyNext ==
  \/ tryrun \/ directory \/ maybe_rmdir_src \/ (\E x \in Names : runrec(x))
  \/ maybe_rename \/ unlink_dst \/ copyfile \/ open_dst \/ transfer \/ symlink \/ maybe_unlink_src

CopySpec == CopyInit /\ [][CopyNext]_copy_vars

(* Properties *)

\* copy: whatever happens, and wherever it stops, what was in a file is whole under its
\* old name or the new one, moved or not.  Left out is copy -h without -m of a file that
\* is in the current directory already: unlink_dst takes it away before open_src.
Kept ==
  \A x \in Names : cfg.orig[x].t = "reg" =>
    \/ Dst = S /\ ~cfg.move
    \/ src[x] = cfg.orig[x]
    \/ copy_dst[x].t = "reg" /\ copy_dst[x].of = cfg.orig[x].of /\ copy_dst[x].whole

\* copy: when it ends without an error all files are there, whole; links of one file are
\* links of one file again (unless it is empty, or moved); special files were left alone.
\* What is in the current directory already stays as it is, except for a symlink moved to
\* its own place, which is removed as the source.
Copied ==
  At("done") =>
    /\ Dst = S => \A x \in Names : src[x] = cfg.orig[x] \/ (cfg.move /\ cfg.orig[x].t = "lnk")
    /\ Dst # S => \A x \in Names :
         \/ /\ cfg.orig[x].t = "spec" /\ ~(cfg.tree /\ cfg.move)
            /\ copy_dst[x] = cfg.before[x] /\ src[x] = cfg.orig[x]
         \/ /\ copy_dst[x].t = cfg.orig[x].t
            /\ copy_dst[x].t = "reg" => copy_dst[x].of = cfg.orig[x].of /\ copy_dst[x].whole
            /\ src[x] = IF cfg.move THEN None ELSE cfg.orig[x]
    /\ Dst # S /\ ~cfg.move => \A x, y \in Names :
         cfg.orig[x].t = "reg" /\ cfg.orig[y].t = "reg" /\ cfg.orig[x].of # Empty /\ x # y =>
           (copy_dst[x].ino = copy_dst[y].ino <=> cfg.orig[x].ino = cfg.orig[y].ino)

\* copy: if the destination cannot be written, or a file cannot be read and the dry run
\* gets to it, nothing has been touched.  It gets to the files of a tree only where the
\* directory they go to is there; and a directory that is there is left alone by -n,
\* which means nothing for a file.
DryRunHelps ==
  /\ ~cfg.yolo
  /\ \/ \E x \in Names : /\ cfg.orig[x].t = "reg"
                         /\ \/ ~cfg.writable
                            \/ x \notin cfg.readable /\ (cfg.tree => \E y \in Names : cfg.before[y] # None)
     \/ cfg.tree /\ cfg.new /\ \E y \in Names : cfg.before[y] # None
  => fs.ent[S] = cfg.orig /\ fs.ent["dst"] = cfg.before

CopySafe == Kept /\ Copied /\ DryRunHelps
=============================================================================
