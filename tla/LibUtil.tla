------------------------------ MODULE LibUtil ------------------------------
(* Memory, output and sorting: lib/util. *)
EXTENDS Integers, Sequences, SequencesExt, FiniteSets

(***************************************************************************)
(* The heaps.  Nearly every program grows its data segment with brk() and  *)
(* hands out memory from it in order; each has its own version of the same *)
(* few lines, with its own way to round sizes, to notice that brk() failed *)
(* and to give memory back.  This module has all the versions.             *)
(***************************************************************************)
CONSTANTS
  PAGE,        \* the page size
  Starts,      \* where the data segment may end at the start: not always at a page
  LIMIT,       \* where brk() starts to fail
  Sizes,       \* sizes asked for
  SIZE,        \* size of struct proc in apphub, ptyhub
  BLOCKS       \* bound on the blocks in use

VARIABLES
  kind,    \* the program
  h,       \* [brk, ptr, end] of the program and kbrk, where the data segment ends
  blocks,  \* blocks in use, in order: <<start, size>>
  st       \* "run", "failed": the program has ended with an error

heap_vars == <<kind, h, blocks, st>>

\* external: brk() returns where the data segment ends now, changed or not
sys_brk(s, to) == IF to > LIMIT THEN s.kbrk ELSE to
pagealign(n) == n + ((PAGE - (n % PAGE)) % PAGE)
align4(n) == n + ((2 - (n % 2)) % 2)   \* alignment, to half a word here
brk_error(old, new) == new <= old

\* a call: the heap after it, where the block is, and whether the program went on
Got(s, at) == [h |-> s, at |-> at, ok |-> TRUE]
Failed(s) == [h |-> s, at |-> -1, ok |-> FALSE]
Refused(s) == [h |-> s, at |-> -1, ok |-> TRUE]
Set(s, ptr, end, k) == [s EXCEPT !.ptr = ptr, !.end = end, !.kbrk = k]

(***************************************************************************)
(* lib/heap.c: ip4info, reboot and others                                  *)
(***************************************************************************)
hinit(s) == LET k == sys_brk(s, s.kbrk + pagealign(1))
            IN  IF k <= s.kbrk THEN Failed(s)
                ELSE Got([brk |-> s.kbrk, ptr |-> s.kbrk, end |-> k, kbrk |-> k], -1)

\* mutant of hextend
hextend_page(s, size) ==
  IF s.ptr + size <= s.end THEN Got(s, -1)
  ELSE LET k == sys_brk(s, s.end + PAGE)
       IN  IF k = s.kbrk THEN Failed(s) ELSE Got(Set(s, s.ptr, k, k), -1)

hextend(s, size) ==
  IF s.ptr + size <= s.end THEN Got(s, -1)
  ELSE LET k == sys_brk(s, s.end + pagealign(s.ptr + size - s.end))
       IN  IF s.ptr + size > k THEN Failed([s EXCEPT !.end = k, !.kbrk = k]) ELSE Got(Set(s, s.ptr, k, k), -1)

halloc(s, size) == LET r == hextend(s, size)
                   IN  IF r.ok THEN Got([r.h EXCEPT !.ptr = s.ptr + size], s.ptr) ELSE r

(***************************************************************************)
(* Grown by what is missing, from the old end: msh, depmod, pstree, ctool, *)
(* svcctl, wifi; the last two test the new end against what is needed      *)
(***************************************************************************)
Missing(s, size) ==
  IF s.ptr + size <= s.end THEN Got([s EXCEPT !.ptr = @ + size], s.ptr)
  ELSE LET k == sys_brk(s, s.end + pagealign(s.ptr + size - s.end))
       IN  IF brk_error(s.end, k) THEN Failed(s) ELSE Got(Set(s, s.ptr + size, k, k), s.ptr)

msh_alloc(s, size) == Missing(s, size)
depmod_halloc(s, size) == Missing(s, size)
pstree_alloc(s, size) == Missing(s, size)
ctool_alloc(s, size) == Missing(s, align4(size))

svcctl_alloc(s, size) ==
  IF s.ptr + size <= s.end THEN Got([s EXCEPT !.ptr = @ + size], s.ptr)
  ELSE LET k == sys_brk(s, s.end + pagealign(s.ptr + size - s.end))
       IN  IF s.ptr + size > k THEN Failed(s) ELSE Got(Set(s, s.ptr + size, k, k), s.ptr)
wifi_alloc(s, size) == svcctl_alloc(s, size)

(***************************************************************************)
(* Grown from ptr: mpac, cpio, mpkg                                        *)
(***************************************************************************)
FromPtr(s, size) ==
  IF s.ptr + size <= s.end THEN Got([s EXCEPT !.ptr = @ + size], s.ptr)
  ELSE LET k == sys_brk(s, s.ptr + pagealign(size))
       IN  IF brk_error(s.end, k) THEN Failed(s) ELSE Got(Set(s, s.ptr + size, k, k), s.ptr)

mpac_alloc(s, size) == FromPtr(s, size)
cpio_alloc(s, size) == FromPtr(s, size)
mpkg_alloc(s, size) == FromPtr(s, align4(size))

(***************************************************************************)
(* Others: the shell rounds from the start of the heap, list and find add  *)
(* the whole size, copy one page (its blocks are small), hwids tools do    *)
(* not notice that brk() failed                                            *)
(***************************************************************************)
shell_alloc(s, size) ==
  IF s.ptr + size <= s.end THEN Got([s EXCEPT !.ptr = @ + size], s.ptr)
  ELSE LET k == sys_brk(s, s.brk + pagealign(s.ptr + size - s.brk))
       IN  IF s.ptr + size > k THEN Failed(s) ELSE Got(Set(s, s.ptr + size, k, k), s.ptr)

list_alloc(s, size) ==
  IF s.ptr + size < s.end THEN Got([s EXCEPT !.ptr = @ + size], s.ptr)
  ELSE LET k == sys_brk(s, s.end + size + PAGE - (size % PAGE))
       IN  IF brk_error(s.end, k) THEN Failed(s) ELSE Got(Set(s, s.ptr + size, k, k), s.ptr)

find_extend(s, size) ==
  IF s.end - s.ptr >= size THEN Got([s EXCEPT !.ptr = @ + size], s.ptr)
  ELSE LET k == sys_brk(s, s.end + size + (PAGE - (size % PAGE)))
       IN  IF brk_error(s.end, k) THEN Failed(s) ELSE Got(Set(s, s.ptr + size, k, k), s.ptr)

copy_alloc_link(s, size) ==
  IF s.ptr + size <= s.end THEN Got([s EXCEPT !.ptr = @ + size], s.ptr)
  ELSE LET k == sys_brk(s, s.end + PAGE)
       IN  IF brk_error(s.end, k) THEN Refused(s) ELSE Got(Set(s, s.ptr + size, k, k), s.ptr)

hwids_alloc(s, size) ==
  IF s.end - s.ptr >= size THEN Got([s EXCEPT !.ptr = @ + size], s.ptr)
  ELSE LET k == sys_brk(s, s.end + pagealign(size - (s.end - s.ptr)))
       IN  Got(Set(s, s.ptr + size, k, k), s.ptr)
lsusb_alloc(s, size) == hwids_alloc(s, size)

(***************************************************************************)
(* wsupp: IEs of the scan results, all dropped at the next scan            *)
(***************************************************************************)
extend_heap(s, size) ==
  IF size <= s.end - s.ptr THEN Got(s, -1)
  ELSE LET k == sys_brk(s, s.end + pagealign(size - (s.end - s.ptr)))
       IN  IF brk_error(s.end, k) THEN Refused(s) ELSE Got(Set(s, s.ptr, k, k), -1)
wsupp_store(s, size) == LET r == extend_heap(s, size)
                        IN  IF r.h.end - r.h.ptr < size THEN Refused(s)
                            ELSE Got([r.h EXCEPT !.ptr = @ + size], s.ptr)

maybe_trim_heap(s) ==
  LET to == s.brk + pagealign(s.ptr - s.brk)
  IN  IF to >= s.end THEN s ELSE [s EXCEPT !.end = to, !.kbrk = sys_brk(s, to)]

(***************************************************************************)
(* apphub, ptyhub: the heap is the table of processes                      *)
(***************************************************************************)
hub_extend(s, to) ==
  IF to <= s.end THEN Got(s, -1)
  ELSE LET k == sys_brk(s, s.end + pagealign(to - s.end))
       IN  IF to > k THEN Refused(s) ELSE Got([s EXCEPT !.end = k, !.kbrk = k], -1)
ptyhub_extend(s, to) == hub_extend(s, to)

\* grab_proc
Slot(s, r) == IF r.h.end < s.ptr + SIZE THEN Refused(s) ELSE Got([r.h EXCEPT !.ptr = @ + SIZE], s.ptr)

(***************************************************************************)
(* appctl, ptyctl: one buffer of a known size                              *)
(***************************************************************************)
alloc_heap(s, size) == LET k == sys_brk(s, s.kbrk + pagealign(size))
                       IN  IF k - s.kbrk # pagealign(size) THEN Failed(s)
                           ELSE Got(Set(s, s.kbrk + size, k, k), s.kbrk)
ptyctl_heap(s, size) == alloc_heap(s, size)

(***************************************************************************)
(* One call                                                                *)
(***************************************************************************)
Call(k, s, size) ==
  CASE k = "lib" -> halloc(s, size)
    [] k = "msh" -> msh_alloc(s, size)
    [] k = "depmod" -> depmod_halloc(s, size)
    [] k = "pstree" -> pstree_alloc(s, size)
    [] k = "ctool" -> ctool_alloc(s, size)
    [] k = "svcctl" -> svcctl_alloc(s, size)
    [] k = "wifi" -> wifi_alloc(s, size)
    [] k = "mpac" -> mpac_alloc(s, size)
    [] k = "cpio" -> cpio_alloc(s, size)
    [] k = "mpkg" -> mpkg_alloc(s, size)
    [] k = "shell" -> shell_alloc(s, size)
    [] k = "list" -> list_alloc(s, size)
    [] k = "find" -> find_extend(s, size)
    [] k = "copy" -> copy_alloc_link(s, IF size > PAGE THEN PAGE ELSE size)
    [] k = "lspci" -> hwids_alloc(s, size)
    [] k = "lsusb" -> lsusb_alloc(s, size)
    [] k = "wsupp" -> wsupp_store(s, size)
    [] k = "apphub" -> Slot(s, hub_extend(s, s.ptr + SIZE))
    [] k = "ptyhub" -> Slot(s, ptyhub_extend(s, s.ptr + SIZE))
    [] k = "appctl" -> alloc_heap(s, size)
    [] k = "ptyctl" -> ptyctl_heap(s, size)

Kinds == {"lib", "msh", "depmod", "pstree", "ctool", "svcctl", "wifi", "mpac", "cpio", "mpkg", "shell", "list",
          "find", "copy", "lspci", "lsusb", "wsupp", "apphub", "ptyhub", "appctl", "ptyctl"}

Alloc(size) ==
  /\ st = "run" /\ Len(blocks) < BLOCKS
  /\ LET r == Call(kind, h, size)
         n == CASE kind \in {"apphub", "ptyhub"} -> SIZE
                [] kind = "copy" /\ size > PAGE -> PAGE
                [] OTHER -> size
     IN  /\ h' = r.h
         /\ st' = IF r.ok THEN st ELSE "failed"
         /\ blocks' = IF r.at >= 0 THEN Append(blocks, <<r.at, n>>) ELSE blocks
  /\ UNCHANGED kind

(***************************************************************************)
(* Memory given back: to a block that is in use, or all of it              *)
(***************************************************************************)
\* heap_reset of the shell, mpac, cpio and ctool, the undone entries of list,
\* note_ino's drop and heap_trim: everything from this block on is free
heap_reset(i) ==
  /\ st = "run" /\ kind \in {"shell", "mpac", "cpio", "ctool", "list", "copy", "svcctl", "wifi"}
  /\ h' = [h EXCEPT !.ptr = blocks[i][1]]
  /\ blocks' = SubSeq(blocks, 1, i - 1)
  /\ UNCHANGED <<kind, st>>

\* the shell after a command
reset_heap ==
  /\ st = "run" /\ kind = "shell" /\ h.end # h.brk
  /\ LET k == sys_brk(h, h.brk) IN h' = [brk |-> k, ptr |-> k, end |-> k, kbrk |-> k]
  /\ blocks' = <<>>
  /\ UNCHANGED <<kind, st>>

\* clear_scan_table of wsupp, and reset_heap alone before the next scan dump
clear_scan_table(trim) ==
  /\ st = "run" /\ kind = "wsupp" /\ blocks # <<>>
  /\ LET s == [h EXCEPT !.ptr = h.brk] IN h' = IF trim THEN maybe_trim_heap(s) ELSE s
  /\ blocks' = <<>>
  /\ UNCHANGED <<kind, st>>

\* update_proc_counts, maybe_trim_heap: the last processes of the table are gone
update_proc_counts ==
  /\ st = "run" /\ kind \in {"apphub", "ptyhub"}
  /\ \E n \in 0..(Len(blocks) - 1) :
       /\ blocks' = SubSeq(blocks, 1, n)
       /\ h' = maybe_trim_heap([h EXCEPT !.ptr = h.brk + n * SIZE])
  /\ UNCHANGED <<kind, st>>

\* programs that take a first page at once, and those that wait
Eager == {"msh", "mpac", "cpio", "list", "find", "copy", "lspci", "lsusb"}
HeapInit ==
  /\ kind \in Kinds /\ blocks = <<>> /\ st = "run"
  /\ \E b \in Starts :
       LET s == [brk |-> b, ptr |-> b, end |-> b, kbrk |-> b]
       IN  h = IF kind = "lib" THEN hinit(s).h
               ELSE IF kind \in Eager THEN Set(s, b, b + PAGE, b + PAGE) ELSE s

HeapNext ==
  \/ \E n \in Sizes : Alloc(n)
  \/ \E i \in DOMAIN blocks : heap_reset(i)
  \/ reset_heap
  \/ \E t \in BOOLEAN : clear_scan_table(t)
  \/ update_proc_counts

HeapSpec == HeapInit /\ [][HeapNext]_heap_vars

(***************************************************************************)
(* Properties                                                              *)
(***************************************************************************)
\* Whatever is allocated, given back and allocated again, and wherever brk() starts to
\* fail, a block in use lies in the data segment, no two overlap, and the program never
\* believes that the segment goes further than it does.  (lspci and lsusb do not look at
\* what brk() returned: for them this holds as long as it does not fail.)
Blind == kind \in {"lspci", "lsusb"} /\ h.ptr + PAGE > LIMIT
BlocksFit == (st = "run" /\ ~Blind) =>
  /\ h.end <= h.kbrk
  /\ \A i \in DOMAIN blocks :
       /\ h.brk <= blocks[i][1]
       /\ blocks[i][1] + blocks[i][2] <= h.kbrk
       /\ blocks[i][1] + blocks[i][2] <= h.ptr
       /\ i > 1 => blocks[i - 1][1] + blocks[i - 1][2] <= blocks[i][1]

(***************************************************************************)
(* Buffered output of the library, bufout over writeall over write, which  *)
(* may take a part of what it is given or fail.                            *)
(***************************************************************************)
CONSTANTS
  BUFLEN,     \* bo->len
  Lengths,    \* lengths of the data given to bufout
  TOTAL,      \* bytes given in all
  FAULTS      \* failed writes

VARIABLES
  bo,         \* struct bufout: what is in its buffer
  given,      \* bytes given so far; the k-th one is k
  file,       \* bytes written
  todo,       \* the rest of the running call: sequence of [op, data]
  faults      \* failed writes

buf_vars == <<bo, given, file, todo, faults>>

Upto(s, n) == SubSeq(s, 1, n)
From(s, n) == SubSeq(s, n + 1, Len(s))
Write(s) == [op |-> "write", data |-> s]
Keep(s) == [op |-> "keep", data |-> s]

\* mutant of Steps
Steps_tail(ptr, data) ==
  LET rem == BUFLEN - Len(ptr)
      rest == IF ptr # <<>> THEN From(data, rem) ELSE data
  IN  IF Len(data) <= rem
        THEN IF Len(data) < rem THEN <<Keep(ptr \o data)>> ELSE <<Write(ptr \o data), Keep(<<>>)>>
      ELSE (IF ptr # <<>> THEN <<Write(ptr \o Upto(data, rem)), Keep(<<>>)>> ELSE <<>>)
             \o (IF Len(rest) > BUFLEN THEN <<Write(Upto(rest, Len(rest) - (Len(rest) % BUFLEN)))>> ELSE <<>>)
             \o (IF Len(rest) % BUFLEN > 0 THEN <<Keep(From(rest, Len(rest) - (Len(rest) % BUFLEN)))>> ELSE <<>>)

\* bufout, as what it writes and what it leaves in the buffer
Steps(ptr, data) ==
  LET rem == BUFLEN - Len(ptr)
      rest == IF ptr # <<>> THEN From(data, rem) ELSE data
      tail == Len(rest) % BUFLEN
  IN  IF Len(data) <= rem
        THEN IF Len(data) < rem THEN <<Keep(ptr \o data)>> ELSE <<Write(ptr \o data), Keep(<<>>)>>
      ELSE (IF ptr # <<>> THEN <<Write(ptr \o Upto(data, rem)), Keep(<<>>)>> ELSE <<>>)
             \o (IF Len(rest) >= BUFLEN THEN <<Write(Upto(rest, Len(rest) - tail))>> ELSE <<>>)
             \o (IF Len(rest) >= BUFLEN /\ tail = 0 THEN <<>> ELSE <<Keep(From(rest, Len(rest) - tail))>>)

bufout ==
  /\ todo = <<>>
  /\ \E n \in Lengths :
       /\ given + n <= TOTAL
       /\ todo' = Steps(bo, [i \in 1..n |-> given + i])
       /\ given' = given + n
  /\ UNCHANGED <<bo, file, faults>>

bufoutflush ==
  /\ todo = <<>> /\ bo # <<>>
  /\ todo' = <<Write(bo), Keep(<<>>)>>
  /\ UNCHANGED <<bo, given, file, faults>>

\* memcpy to the buffer, or the change of bo->ptr
Copy ==
  /\ todo # <<>> /\ Head(todo).op = "keep"
  /\ bo' = Head(todo).data
  /\ todo' = Tail(todo)
  /\ UNCHANGED <<given, file, faults>>

\* one write of writeall: a part, or an error that ends it
writeall ==
  /\ todo # <<>> /\ Head(todo).op = "write"
  /\ LET d == Head(todo).data
     IN  \/ \E wr \in 1..Len(d) :
              /\ file' = file \o Upto(d, wr)
              /\ todo' = IF wr = Len(d) THEN Tail(todo) ELSE <<Write(From(d, wr))>> \o Tail(todo)
              /\ UNCHANGED faults
         \/ faults < FAULTS /\ faults' = faults + 1 /\ todo' = Tail(todo) /\ UNCHANGED file
  /\ UNCHANGED <<bo, given>>

\* bufoutset
OutInit == bo = <<>> /\ given = 0 /\ file = <<>> /\ todo = <<>> /\ faults = 0

OutNext == bufout \/ bufoutflush \/ Copy \/ writeall

OutSpec == OutInit /\ [][OutNext]_buf_vars

\* Between calls, what has been written and what is in the buffer are the bytes that were
\* given, in order and each once; the buffer is never full.  A failed write loses bytes,
\* but none is ever written twice or out of order.
OutputKept ==
  LET all == file \o bo
  IN  todo = <<>> =>
        /\ Len(bo) < BUFLEN
        /\ \A i \in 1..(Len(all) - 1) : all[i] < all[i + 1]
        /\ faults = 0 => Len(all) = given

(***************************************************************************)
(* qsortp and qsortx of the library: pointers, ordered by an expensive     *)
(* comparison under which many are equal, by three-way partitioning.       *)
(***************************************************************************)
CONSTANTS
  Keys,      \* what the elements compare by
  MAXLEN     \* longest array

VARIABLES
  arr,       \* the array: 0-based, elements are <<key, which one it was>>
  calls,     \* srec calls to be made: <<S, E>>, the first one on top
  orig       \* the array before sorting

qsort_vars == <<arr, calls, orig>>

cmp(x, y) == x[1] - y[1]
exch(a, i, j) == [a EXCEPT ![i] = a[j], ![j] = a[i]]
pick_pivot(S, E) == S + ((E - S) \div 2)

\* the loop of sort: s has the array and the four pointers, pv is where the pivot is
RECURSIVE FromLeft(_, _)
FromLeft(s, pv) ==
  LET c == cmp(s.a[s.lp], s.a[pv])
  IN  IF s.lp < s.rp /\ c <= 0
        THEN FromLeft(IF c = 0 THEN [s EXCEPT !.a = exch(@, s.le, s.lp), !.le = @ + 1, !.lp = @ + 1]
                      ELSE [s EXCEPT !.lp = @ + 1], pv)
      ELSE s
RECURSIVE FromRight(_, _)
FromRight(s, pv) ==
  LET c == cmp(s.a[s.rp], s.a[pv])
  IN  IF s.rp > s.lp /\ c >= 0
        THEN FromRight(IF c = 0 THEN [s EXCEPT !.a = exch(@, s.re, s.rp), !.re = @ - 1, !.rp = @ - 1]
                       ELSE [s EXCEPT !.rp = @ - 1], pv)
      ELSE s
RECURSIVE Partition(_, _)
Partition(s, pv) ==
  LET t == FromRight(FromLeft(s, pv), pv)
      lp == t.lp + 1
  IN  IF t.lp = t.rp THEN t
      ELSE Partition([t EXCEPT !.a = exch(@, t.lp, t.rp), !.lp = lp, !.rp = IF @ > lp THEN @ - 1 ELSE @], pv)

\* mutant of Settled
Settled_once(s, pv) ==
  LET lp == IF cmp(s.a[s.lp], s.a[pv]) > 0 THEN s.lp - 1 ELSE s.lp
  IN  [s EXCEPT !.lp = lp]

\* where the pointers met, on which side of the pivot is that element
Settled(s, pv) ==
  LET lp == IF cmp(s.a[s.lp], s.a[pv]) > 0 THEN s.lp - 1 ELSE s.lp
      rp == IF cmp(s.a[s.rp], s.a[pv]) < 0 THEN s.rp + 1 ELSE s.rp
  IN  [s EXCEPT !.lp = lp, !.rp = rp]

\* the equal ones, from both ends, to the middle
RECURSIVE ToMiddleL(_, _)
ToMiddleL(s, p) ==
  IF p < s.le THEN ToMiddleL([s EXCEPT !.a = exch(@, p, s.lp), !.lp = @ - 1], p + 1) ELSE s
RECURSIVE ToMiddleR(_, _)
ToMiddleR(s, p) ==
  IF p > s.re THEN ToMiddleR([s EXCEPT !.a = exch(@, p, s.rp), !.rp = @ + 1], p - 1) ELSE s

Rest(s, ll, rr) == (IF s.lp > ll THEN <<<<ll, s.lp + 1>>>> ELSE <<>>) \o (IF s.rp < rr THEN <<<<s.rp, rr + 1>>>> ELSE <<>>)

sort(a, S, E) ==
  LET rr == E - 1
      s0 == [a |-> exch(a, rr, pick_pivot(S, E)), le |-> S, re |-> rr - 1, lp |-> S, rp |-> rr - 1]
      s1 == Settled(Partition(s0, rr), rr)
      s2 == ToMiddleR(ToMiddleL(s1, S), rr)
  IN  [a |-> s2.a, calls |-> Rest(s2, S, rr)]

Ordered(a, i, j) == IF cmp(a[i], a[j]) > 0 THEN exch(a, i, j) ELSE a
sort2(a, S) == Ordered(a, S, S + 1)

sort3(a, S) == Ordered(Ordered(Ordered(a, S, S + 1), S + 1, S + 2), S, S + 1)

srec ==
  /\ calls # <<>>
  /\ LET S == Head(calls)[1]  E == Head(calls)[2]  len == E - S
         r == IF len <= 1 THEN [a |-> arr, calls |-> <<>>]
              ELSE IF len = 2 THEN [a |-> sort2(arr, S), calls |-> <<>>]
              ELSE IF len = 3 THEN [a |-> sort3(arr, S), calls |-> <<>>]
              ELSE sort(arr, S, E)
     IN  arr' = r.a /\ calls' = r.calls \o Tail(calls)
  /\ UNCHANGED orig

\* qsortp, qsortx
SortInit ==
  /\ \E n \in 1..MAXLEN : \E k \in [0..(n - 1) -> Keys] :
       arr = [i \in 0..(n - 1) |-> <<k[i], i>>] /\ calls = <<<<0, n>>>>
  /\ orig = arr

SortNext == srec

SortSpec == SortInit /\ [][SortNext]_qsort_vars

\* The array always has the elements it had, each once.  A part that is still to be sorted
\* is in its place: what is left of it is not greater, what is right of it not smaller than
\* anything in it; and elements no pending call covers are in order, so that in the end the
\* whole array is.
SortRight ==
  /\ {arr[i] : i \in DOMAIN arr} = {orig[i] : i \in DOMAIN orig}
  /\ \A i, j \in DOMAIN arr :
       i < j /\ ~(\E c \in Range(calls) : c[1] <= i /\ j < c[2]) => arr[i][1] <= arr[j][1]
  /\ \A c \in Range(calls) : 0 <= c[1] /\ c[1] < c[2] /\ c[2] <= Cardinality(DOMAIN arr)
=============================================================================
