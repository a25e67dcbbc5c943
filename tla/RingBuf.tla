------------------------------- MODULE RingBuf -------------------------------
(***************************************************************************)
(* The output ring of one svchub service, and how a client reads it back.  *)
(* apphub and ptyhub keep their children's stderr in rings handled by the  *)
(* same arithmetic.                                                        *)
(*                                                                         *)
(* A byte is its position in everything the service ever wrote, so a ring  *)
(* that mixes up, repeats or loses bytes shows it.  pc->ptr counts up to   *)
(* RINGSIZE while the ring fills, then goes round in RINGSIZE..2*RINGSIZE-1 *)
(***************************************************************************)
EXTENDS Integers, Sequences

CONSTANTS
  RINGSIZE,   \* bytes in the ring, 4096 in the code
  MaxSent     \* bound: bytes the service writes in a behaviour

ASSUME RingAssumption == RINGSIZE \in Nat \ {0} /\ MaxSent \in Nat

VARIABLES
  fd,     \* the read end is open
  sent,   \* bytes written to the pipe
  got,    \* bytes read from it
  buf,    \* the mapped ring, indexed from 0; <<>> for NULL
  ptr,
  base    \* history: got when the ring was last emptied

vars == <<fd, sent, got, buf, ptr, base>>

Ring == 0..RINGSIZE - 1
NULL == <<>>
Min2(x, y) == IF x <= y THEN x ELSE y

\* the contents of fresh pages: no byte of the stream
Zeroed == [i \in Ring |-> -1]

\* a ring r after readv(2) put n bytes of the stream into it at off and, past
\* the end, at the start
readv(r, off, n) ==
  [i \in Ring |->
     LET k == IF i >= off THEN i - off ELSE RINGSIZE - off + i
     IN  IF k < n THEN got + k ELSE r[i]]

\* mutant of advance: going round forgets that the ring is full
advance_mod(p, n) == IF p + n > RINGSIZE THEN (p + n) % RINGSIZE ELSE p + n

\* mutant of advance: ptr is not brought back below 2 * RINGSIZE
advance_nowrap(p, n) == p + n

\* ptr after n more bytes
advance(p, n) == IF p + n > RINGSIZE THEN RINGSIZE + ((p + n) % RINGSIZE) ELSE p + n

Write ==
  /\ fd /\ sent < MaxSent
  /\ \E n \in 1..MaxSent - sent : sent' = sent + n
  /\ UNCHANGED <<fd, got, buf, ptr, base>>

\* check_proc: map the ring on the first output, read what fits
check_proc ==
  LET mapped == IF buf = NULL THEN Zeroed ELSE buf
      start == IF buf = NULL THEN 0 ELSE ptr
  IN  /\ fd /\ got < sent
      /\ \E n \in 1..Min2(sent - got, RINGSIZE) :
         /\ buf' = readv(mapped, start % RINGSIZE, n)
         /\ ptr' = advance(start, n)
         /\ got' = got + n
      /\ UNCHANGED <<fd, sent, base>>

\* close_proc: a failed mmap or readv, a hangup, or the death of the service;
\* bytes still in the pipe are gone
close_proc ==
  /\ fd
  /\ fd' = FALSE
  /\ UNCHANGED <<sent, got, buf, ptr, base>>

\* spawn_path for the next process of the service: a new pipe, the same ring
respawn ==
  /\ ~fd
  /\ fd' = TRUE
  /\ sent' = got
  /\ UNCHANGED <<got, buf, ptr, base>>

\* mutant of flush_ring_buf: the position is reset only when munmap fails
flush_keeps_ptr ==
  /\ buf # NULL
  /\ \/ buf' = NULL /\ ptr' = ptr
     \/ buf' = buf /\ ptr' = 0
  /\ base' = got
  /\ UNCHANGED <<fd, sent, got>>

\* flush_ring_buf; a failed munmap keeps the ring but starts it over
flush_ring_buf ==
  /\ buf # NULL
  /\ buf' \in {NULL, buf}
  /\ ptr' = 0
  /\ base' = got
  /\ UNCHANGED <<fd, sent, got>>

Init ==
  /\ fd = TRUE /\ sent = 0 /\ got = 0
  /\ buf = NULL /\ ptr = 0 /\ base = 0

Next == Write \/ check_proc \/ close_proc \/ respawn \/ flush_ring_buf

Spec == Init /\ [][Next]_vars

-----------------------------------------------------------------------------
(* What cmd_getbuf sends *)

\* an iovec of len bytes at off
iov(off, len) == [k \in 1..len |-> buf[off + k - 1]]

cmd_getbuf ==
  IF buf = NULL THEN <<>>
  ELSE IF ptr <= RINGSIZE THEN iov(0, ptr)
  ELSE LET off == ptr % RINGSIZE
       IN  iov(off, RINGSIZE - off) \o iov(0, off)

-----------------------------------------------------------------------------
(* Properties *)

\* ptr stays below two rings, so the unsigned short that holds it never wraps.
TypeOK ==
  /\ fd \in BOOLEAN /\ sent \in Nat /\ got \in Nat /\ base \in Nat
  /\ base <= got /\ got <= sent
  /\ ptr \in 0..2 * RINGSIZE - 1
  /\ buf = NULL \/ buf \in [Ring -> Int]

\* check_proc and cmd_getbuf agree: a client gets exactly the last RINGSIZE
\* bytes read since the ring was last flushed (all of them if there are fewer),
\* oldest first.
RingIsTail ==
  LET n == Min2(got - base, RINGSIZE)
  IN  cmd_getbuf = [k \in 1..n |-> got - n + k - 1]

\* ptr is 0 exactly when no output is kept: cmd_list and cmd_status report
\* ATTR_RING on the strength of ptr alone.
PtrTellsOutput == ptr = 0 <=> got = base

=============================================================================
