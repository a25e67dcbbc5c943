-------------------------- MODULE RingListen_proofs --------------------------
(***************************************************************************)
(* The two small parts every service has: the ring buffer for the output   *)
(* of its processes, RingIsTail and PtrTellsOutput for every RINGSIZE, by  *)
(* an invariant that says which byte each cell holds; and the socket at    *)
(* its path, LockHolds and Reachable for any set of instances.             *)
(***************************************************************************)
EXTENDS RingBuf, UcListen, TLAPS

\* the cell the next byte goes to
Off == IF ptr < RINGSIZE THEN ptr ELSE ptr - RINGSIZE

\* Cells below Off hold the newest bytes in order; once the ring has been
\* filled, the cells from Off up hold the ones before them.
Cells ==
  \A i \in Ring :
     /\ i < Off => buf[i] = got - Off + i
     /\ i >= Off /\ ptr >= RINGSIZE => buf[i] = got - Off - RINGSIZE + i

IInv ==
  /\ TypeOK
  /\ buf = NULL => ptr = 0
  /\ ptr < RINGSIZE => got - base = ptr
  /\ ptr >= RINGSIZE => got - base >= RINGSIZE
  /\ buf # NULL => Cells

\* The remainder of a number below three rings, by the ring it falls in.
LEMMA ModCases ==
  \A x \in Nat :
    /\ x % RINGSIZE \in Ring
    /\ x < RINGSIZE => x % RINGSIZE = x
    /\ RINGSIZE <= x /\ x < 2 * RINGSIZE => x % RINGSIZE = x - RINGSIZE
    /\ 2 * RINGSIZE <= x /\ x < 3 * RINGSIZE => x % RINGSIZE = x - 2 * RINGSIZE
<1>. SUFFICES ASSUME NEW x \in Nat
              PROVE  /\ x % RINGSIZE \in Ring
                     /\ x < RINGSIZE => x % RINGSIZE = x
                     /\ RINGSIZE <= x /\ x < 2 * RINGSIZE => x % RINGSIZE = x - RINGSIZE
                     /\ 2 * RINGSIZE <= x /\ x < 3 * RINGSIZE => x % RINGSIZE = x - 2 * RINGSIZE
  OBVIOUS
<1>0. RINGSIZE \in Int /\ RINGSIZE > 0 /\ x \in Int /\ x >= 0
  BY RingAssumption
<1>1. x % RINGSIZE \in Ring
  BY <1>0 DEF Ring
<1>2. x < RINGSIZE => x % RINGSIZE = x
  BY <1>0
<1>3. RINGSIZE <= x /\ x < 2 * RINGSIZE => x % RINGSIZE = x - RINGSIZE
  BY <1>0
<1>4. 2 * RINGSIZE <= x /\ x < 3 * RINGSIZE => x % RINGSIZE = x - 2 * RINGSIZE
  BY <1>0
<1>. QED
  BY <1>1, <1>2, <1>3, <1>4

\* advance, by the ring the sum falls in.
LEMMA AdvanceCases ==
  ASSUME NEW p \in 0..2 * RINGSIZE - 1, NEW n \in 1..RINGSIZE
  PROVE  /\ advance(p, n) \in 0..2 * RINGSIZE - 1
         /\ p + n <= RINGSIZE => advance(p, n) = p + n
         /\ RINGSIZE < p + n /\ p + n < 2 * RINGSIZE => advance(p, n) = p + n
         /\ 2 * RINGSIZE <= p + n => advance(p, n) = p + n - RINGSIZE
<1>. RINGSIZE \in Nat \ {0} /\ p + n \in Nat /\ p + n < 3 * RINGSIZE
  BY RingAssumption
<1>1. /\ (p + n) % RINGSIZE \in Ring
      /\ p + n < RINGSIZE => (p + n) % RINGSIZE = p + n
      /\ RINGSIZE <= p + n /\ p + n < 2 * RINGSIZE => (p + n) % RINGSIZE = p + n - RINGSIZE
      /\ 2 * RINGSIZE <= p + n => (p + n) % RINGSIZE = p + n - 2 * RINGSIZE
  BY ModCases
<1>. QED
  BY <1>1 DEF advance, Ring

\* A mapped ring is not NULL.
LEMMA MappedIsNotNull ==
  ASSUME NEW r \in [Ring -> Int]
  PROVE  r # NULL
<1>1. 0 \in DOMAIN r
  BY RingAssumption DEF Ring
<1>2. DOMAIN NULL = {}
  BY DEF NULL
<1>. QED
  BY <1>1, <1>2

\* The state without a buffer satisfies the inductive invariant.
LEMMA InitIInv == Init => IInv
BY RingAssumption DEF Init, IInv, TypeOK, NULL

\* The heart of it: a read of n bytes leaves every cell right.
LEMMA ReadIInv ==
  ASSUME IInv, check_proc
  PROVE  IInv'
<1>. DEFINE mapped == IF buf = NULL THEN Zeroed ELSE buf
            start == IF buf = NULL THEN 0 ELSE ptr
<1>0. RINGSIZE \in Nat \ {0}
  BY RingAssumption
<1>1. PICK n \in 1..Min2(sent - got, RINGSIZE) :
        /\ buf' = readv(mapped, start % RINGSIZE, n)
        /\ ptr' = advance(start, n)
        /\ got' = got + n
  BY DEF check_proc
<1>2. n \in 1..RINGSIZE /\ got + n <= sent /\ UNCHANGED <<fd, sent, base>>
  BY <1>0, <1>1 DEF IInv, TypeOK, Min2, check_proc
<1>3. start = ptr /\ ptr \in 0..2 * RINGSIZE - 1
  BY <1>0 DEF IInv, TypeOK
<1>4. mapped \in [Ring -> Int]
  BY DEF IInv, TypeOK, Zeroed
<1>5. start % RINGSIZE = Off /\ Off \in Ring
  <2>1. /\ ptr < RINGSIZE => ptr % RINGSIZE = ptr
        /\ RINGSIZE <= ptr => ptr % RINGSIZE = ptr - RINGSIZE
    <3>1. ptr \in Nat /\ ptr < 2 * RINGSIZE
      BY <1>0, <1>3
    <3>. QED
      BY <3>1, ModCases
  <2>. QED
    BY <1>0, <1>3, <2>1 DEF Off, Ring
<1>6. /\ ptr' \in 0..2 * RINGSIZE - 1
      /\ ptr + n < 2 * RINGSIZE => ptr' = ptr + n
      /\ 2 * RINGSIZE <= ptr + n => ptr' = ptr + n - RINGSIZE
  <2>1. /\ advance(ptr, n) \in 0..2 * RINGSIZE - 1
        /\ ptr + n <= RINGSIZE => advance(ptr, n) = ptr + n
        /\ RINGSIZE < ptr + n /\ ptr + n < 2 * RINGSIZE => advance(ptr, n) = ptr + n
        /\ 2 * RINGSIZE <= ptr + n => advance(ptr, n) = ptr + n - RINGSIZE
    BY <1>2, <1>3, AdvanceCases
  <2>. QED
    BY <1>0, <1>1, <1>2, <1>3, <2>1
<1>7. buf' \in [Ring -> Int] /\ buf' # NULL
  <2>1. buf' = readv(mapped, Off, n)
    BY <1>1, <1>5
  <2>2. got \in Int /\ RINGSIZE \in Int
    BY <1>0 DEF IInv, TypeOK
  <2>3. buf' \in [Ring -> Int]
    BY <1>2, <1>4, <1>5, <2>1, <2>2 DEF readv, Ring
  <2>. QED
    BY <2>3, MappedIsNotNull
<1>8. TypeOK'
  BY <1>0, <1>1, <1>2, <1>6, <1>7 DEF IInv, TypeOK, Ring
<1>9. /\ ptr' < RINGSIZE => got' - base' = ptr'
      /\ ptr' >= RINGSIZE => got' - base' >= RINGSIZE
  BY <1>0, <1>1, <1>2, <1>3, <1>6 DEF IInv, TypeOK
<1>10. Cells'
  <2>1. \A i \in Ring : buf'[i] =
           LET k == IF i >= Off THEN i - Off ELSE RINGSIZE - Off + i
           IN  IF k < n THEN got + k ELSE mapped[i]
    BY <1>1, <1>5 DEF readv
  <2>2. ptr >= RINGSIZE \/ Off > 0 => mapped = buf /\ Cells
    BY <1>0, <1>3 DEF IInv, Off
  <2>. SUFFICES ASSUME NEW i \in Ring
                PROVE  /\ i < Off' => buf'[i] = got' - Off' + i
                       /\ i >= Off' /\ ptr' >= RINGSIZE => buf'[i] = got' - Off' - RINGSIZE + i
    BY DEF Cells, Ring
  <2>3. i \in Int /\ 0 <= i /\ i < RINGSIZE /\ got \in Int /\ base \in Int
    BY <1>0 DEF IInv, TypeOK, Ring
  <2>4. Off \in Int /\ 0 <= Off /\ Off < RINGSIZE
    BY <1>0, <1>5 DEF Ring
  <2>5. CASE i >= Off /\ i - Off < n
    <3>1. buf'[i] = got + (i - Off)
      BY <2>1, <2>5
    <3>. QED
      BY <1>0, <1>1, <1>2, <1>3, <1>6, <2>3, <2>4, <2>5, <3>1 DEF Off
  <2>6. CASE i >= Off /\ ~(i - Off < n)
    <3>1. buf'[i] = mapped[i]
      BY <2>1, <2>6
    <3>2. ptr >= RINGSIZE => buf'[i] = got - Off - RINGSIZE + i
      BY <2>2, <2>6, <3>1 DEF Cells
    <3>. QED
      BY <1>0, <1>1, <1>2, <1>3, <1>6, <2>3, <2>4, <2>6, <3>2 DEF Off
  <2>7. CASE ~(i >= Off) /\ RINGSIZE - Off + i < n
    <3>1. buf'[i] = got + (RINGSIZE - Off + i)
      BY <2>1, <2>7
    <3>. QED
      BY <1>0, <1>1, <1>2, <1>3, <1>6, <2>3, <2>4, <2>7, <3>1 DEF Off
  <2>8. CASE ~(i >= Off) /\ ~(RINGSIZE - Off + i < n)
    <3>1. buf'[i] = mapped[i]
      BY <2>1, <2>8
    <3>2. buf'[i] = got - Off + i
      BY <2>2, <2>3, <2>4, <2>8, <3>1 DEF Cells
    <3>. QED
      BY <1>0, <1>1, <1>2, <1>3, <1>6, <2>3, <2>4, <2>8, <3>2 DEF Off
  <2>. QED
    BY <2>5, <2>6, <2>7, <2>8
<1>. QED
  BY <1>7, <1>8, <1>9, <1>10 DEF IInv

\* Every step preserves the inductive invariant.
LEMMA StepIInv ==
  ASSUME IInv, [Next]_vars
  PROVE  IInv'
<1>0. RINGSIZE \in Nat \ {0}
  BY RingAssumption
<1>1. CASE Write
  <2>1. PICK n \in 1..MaxSent - sent : sent' = sent + n
    BY <1>1 DEF Write
  <2>2. sent \in Nat /\ n \in Nat
    BY <2>1, RingAssumption DEF IInv, TypeOK
  <2>3. sent' \in Nat /\ got <= sent' /\ UNCHANGED <<fd, got, buf, ptr, base>>
    BY <1>1, <2>1, <2>2 DEF Write, IInv, TypeOK
  <2>. QED
    BY <2>3 DEF IInv, TypeOK, Cells, Off
<1>2. CASE check_proc
  BY <1>2, ReadIInv
<1>3. CASE close_proc
  BY <1>3 DEF close_proc, IInv, TypeOK, Cells, Off
<1>4. CASE respawn
  BY <1>4 DEF respawn, IInv, TypeOK, Cells, Off
<1>5. CASE flush_ring_buf
  <2>1. ptr' = 0 /\ base' = got /\ UNCHANGED <<fd, sent, got>> /\ (buf' = NULL \/ buf' = buf)
    BY <1>5 DEF flush_ring_buf
  <2>2. TypeOK'
    BY <1>0, <2>1 DEF IInv, TypeOK
  <2>3. Cells'
    BY <1>0, <2>1 DEF Cells, Off, Ring
  <2>4. ptr' < RINGSIZE /\ got' - base' = 0
    BY <1>0, <2>1 DEF IInv, TypeOK
  <2>. QED
    BY <1>0, <2>1, <2>2, <2>3, <2>4 DEF IInv
<1>6. CASE UNCHANGED vars
  BY <1>6 DEF vars, IInv, TypeOK, Cells, Off
<1>. QED
  BY <1>1, <1>2, <1>3, <1>4, <1>5, <1>6 DEF Next

\* The type invariant: in particular pc->ptr, an unsigned short, stays below
\* twice the ring size whatever is read and flushed (check_proc, flush_ring_buf).
THEOREM TypeCorrect == Spec => []TypeOK
<1>1. IInv => TypeOK
  BY DEF IInv
<1>. QED
  BY <1>1, InitIInv, StepIInv, PTL DEF Spec

\* What cmd_getbuf assembles from a ring with the right cells is the tail of
\* the stream.
LEMMA CellsGiveTail == IInv => RingIsTail
<1>. SUFFICES ASSUME IInv PROVE RingIsTail
  OBVIOUS
<1>. DEFINE n == Min2(got - base, RINGSIZE)
            tail == [k \in 1..n |-> got - n + k - 1]
<1>0. RINGSIZE \in Nat \ {0} /\ got \in Nat /\ base \in Nat /\ got >= base /\ ptr \in 0..2 * RINGSIZE - 1
  BY RingAssumption DEF IInv, TypeOK
<1>1. CASE buf = NULL
  <2>1. n = 0
    BY <1>0, <1>1 DEF IInv, Min2
  <2>2. tail = <<>>
    BY <2>1
  <2>. QED
    BY <1>1, <2>2 DEF RingIsTail, cmd_getbuf
<1>2. CASE buf # NULL /\ ptr <= RINGSIZE
  <2>1. n = ptr
    BY <1>0, <1>2 DEF IInv, Min2
  <2>2. \A k \in 1..ptr : buf[k - 1] = got - ptr + k - 1
    BY <1>0, <1>2 DEF IInv, Cells, Off, Ring
  <2>3. iov(0, ptr) = tail
    BY <1>0, <2>1, <2>2 DEF iov
  <2>. QED
    BY <1>2, <2>3 DEF RingIsTail, cmd_getbuf
<1>3. CASE buf # NULL /\ ~(ptr <= RINGSIZE)
  <2>. DEFINE off == ptr % RINGSIZE
              new == iov(0, off)
              old == iov(off, RINGSIZE - off)
  <2>1. off = Off /\ Off = ptr - RINGSIZE /\ Off \in 1..RINGSIZE - 1
    <3>1. ptr \in Nat /\ ptr < 2 * RINGSIZE /\ RINGSIZE <= ptr
      BY <1>0, <1>3
    <3>2. off = ptr - RINGSIZE
      BY <3>1, ModCases
    <3>. QED
      BY <1>0, <1>3, <3>1, <3>2 DEF Off
  <2>2. n = RINGSIZE
    BY <1>0, <1>3 DEF IInv, Min2
  <2>3. \A k \in 1..RINGSIZE - Off : buf[Off + k - 1] = got - RINGSIZE + k - 1
    BY <1>0, <1>3, <2>1 DEF IInv, Cells, Ring
  <2>4. \A k \in 1..Off : buf[k - 1] = got - Off + k - 1
    BY <1>0, <1>3, <2>1 DEF IInv, Cells, Ring
  <2>5. old = [k \in 1..RINGSIZE - Off |-> got - RINGSIZE + k - 1]
    BY <1>0, <2>1, <2>3 DEF iov
  <2>6. new = [k \in 1..Off |-> got - Off + k - 1]
    BY <1>0, <2>1, <2>4 DEF iov
  <2>7. old \o new = tail
    <3>. DEFINE f == [k \in 1..RINGSIZE - Off |-> got - RINGSIZE + k - 1]
                g == [k \in 1..Off |-> got - Off + k - 1]
    <3>1. f \in Seq(Int) /\ Len(f) = RINGSIZE - Off
      BY <1>0, <2>1
    <3>2. g \in Seq(Int) /\ Len(g) = Off
      BY <1>0, <2>1
    <3>3. f \o g \in Seq(Int) /\ Len(f \o g) = RINGSIZE
      BY <1>0, <2>1, <3>1, <3>2
    <3>4. \A k \in 1..RINGSIZE : (f \o g)[k] = got - RINGSIZE + k - 1
      <4>. SUFFICES ASSUME NEW k \in 1..RINGSIZE PROVE (f \o g)[k] = got - RINGSIZE + k - 1
        OBVIOUS
      <4>1. CASE k <= RINGSIZE - Off
        BY <1>0, <2>1, <3>1, <3>2, <4>1
      <4>2. CASE ~(k <= RINGSIZE - Off)
        <5>1. (f \o g)[k] = g[k - (RINGSIZE - Off)]
          BY <1>0, <2>1, <3>1, <3>2, <4>2
        <5>2. k - (RINGSIZE - Off) \in 1..Off
          BY <1>0, <2>1, <4>2
        <5>. QED
          BY <1>0, <2>1, <5>1, <5>2
      <4>. QED
        BY <4>1, <4>2
    <3>5. f \o g = tail
      <4>. DEFINE h == f \o g
      <4>1. h \in Seq(Int) /\ Len(h) = RINGSIZE /\ \A k \in 1..RINGSIZE : h[k] = got - RINGSIZE + k - 1
        BY <3>3, <3>4
      <4>. HIDE DEF h
      <4>2. h = [k \in 1..RINGSIZE |-> got - RINGSIZE + k - 1]
        BY <1>0, <4>1
      <4>3. h = tail
        BY <2>2, <4>2
      <4>. QED
        BY <4>3 DEF h
    <3>. QED
      BY <2>5, <2>6, <3>5
  <2>. QED
    BY <1>3, <2>7 DEF RingIsTail, cmd_getbuf
<1>. QED
  BY <1>1, <1>2, <1>3

\* For every ring size and any amount of output, a client that asks for the
\* output gets the last RINGSIZE bytes read since the last flush, in order.
THEOREM RingCorrect == Spec => []RingIsTail
BY InitIInv, StepIInv, CellsGiveTail, PTL DEF Spec

\* ATTR_RING, which cmd_list and cmd_status derive from ptr, is sent exactly
\* when there is output to fetch.
THEOREM RingReported == Spec => []PtrTellsOutput
<1>1. IInv => PtrTellsOutput
  BY RingAssumption DEF IInv, TypeOK, PtrTellsOutput
<1>. QED
  BY <1>1, InitIInv, StepIInv, PTL DEF Spec

-----------------------------------------------------------------------------
(* uc_listen.  When starts do not overlap the dirent is a lock, for any set of*)
(* instances: the invariant ties it to the instance that runs, and nobody is  *)
(* past a refused connect while one does.  When they do, the service is not   *)
(* lost: whoever removed the dirent of another is still there to bind its own.*)

LockInv ==
  /\ ListenTypeOK
  /\ ~overlap =>
     /\ \A i, j \in Starting : i = j
     /\ \A i \in Inst : pc[i] \in {"listen", "up"} => dirent = i
     /\ \A i \in Inst : pc[i] \in {"unlink", "rebind"} => Up = {}

\* The first state satisfies the inductive invariant.
LEMMA InitLockInv == ListenInit => LockInv
BY DEF ListenInit, LockInv, ListenTypeOK, Starting, Up

\* Every step preserves the inductive invariant.
LEMMA StepLockInv ==
  ASSUME LockInv, [ListenNext]_listen_vars
  PROVE  LockInv'
<1>. USE DEF LockInv, ListenTypeOK, Starting, Up, Down, hist
<1>1. ASSUME NEW i \in Inst, Start(i) PROVE LockInv'
  BY <1>1 DEF Start
<1>2. ASSUME NEW i \in Inst, bind(i) PROVE LockInv'
  BY <1>2, ListenAssumption DEF bind, sys_bind
<1>3. ASSUME NEW i \in Inst, connect(i) PROVE LockInv'
  BY <1>3, ListenAssumption DEF connect, refused
<1>4. ASSUME NEW i \in Inst, unlink(i) PROVE LockInv'
  BY <1>4 DEF unlink
<1>5. ASSUME NEW i \in Inst, rebind(i) PROVE LockInv'
  BY <1>5, ListenAssumption DEF rebind, sys_bind
<1>6. ASSUME NEW i \in Inst, listen(i) PROVE LockInv'
  BY <1>6 DEF listen
<1>7. ASSUME NEW i \in Inst, Die(i) PROVE LockInv'
  BY <1>7 DEF Die
<1>8. CASE UNCHANGED listen_vars
  BY <1>8 DEF listen_vars
<1>. QED
  BY <1>1, <1>2, <1>3, <1>4, <1>5, <1>6, <1>7, <1>8 DEF ListenNext, uc_listen

\* With starts one after the other, uc_listen never lets two instances of a
\* service listen at the same path, stale sockets and deaths included.
THEOREM DirentIsLock == ListenSpec => []LockHolds
<1>1. LockInv => LockHolds
  BY DEF LockInv, LockHolds, Exclusive, Up
<1>2. LockInv /\ [ListenNext]_listen_vars => LockInv'
  BY StepLockInv
<1>. QED
  BY <1>1, <1>2, InitLockInv, PTL DEF ListenSpec

-----------------------------------------------------------------------------
(* Starts that overlap *)

\* While nobody has died: the dirent, if an instance made it, is that of one
\* which has it for good, and a missing one is about to be made, unless there
\* was none yet.
RInv ==
  /\ ListenTypeOK
  /\ ~died =>
     /\ dirent \in Inst => pc[dirent] \in {"listen", "up"}
     /\ dirent = "stale" => \A i \in Inst : pc[i] \notin {"listen", "up"}
     /\ dirent = "none" => \/ \E i \in Inst : pc[i] = "rebind"
                           \/ \A i \in Inst : pc[i] \notin {"listen", "up"}

\* Every step preserves it.
LEMMA StepRInv ==
  ASSUME RInv, [ListenNext]_listen_vars
  PROVE  RInv'
<1>. USE DEF RInv, ListenTypeOK, Down, hist
<1>1. ASSUME NEW i \in Inst, Start(i) PROVE RInv'
  BY <1>1 DEF Start
<1>2. ASSUME NEW i \in Inst, bind(i) PROVE RInv'
  BY <1>2, ListenAssumption DEF bind, sys_bind
<1>3. ASSUME NEW i \in Inst, connect(i) PROVE RInv'
  BY <1>3, ListenAssumption DEF connect
<1>4. ASSUME NEW i \in Inst, unlink(i) PROVE RInv'
  BY <1>4, ListenAssumption DEF unlink
<1>5. ASSUME NEW i \in Inst, rebind(i) PROVE RInv'
  BY <1>5, ListenAssumption DEF rebind, sys_bind
<1>6. ASSUME NEW i \in Inst, listen(i) PROVE RInv'
  BY <1>6 DEF listen
<1>7. ASSUME NEW i \in Inst, Die(i) PROVE RInv'
  BY <1>7 DEF Die
<1>8. CASE UNCHANGED listen_vars
  BY <1>8 DEF listen_vars
<1>. QED
  BY <1>1, <1>2, <1>3, <1>4, <1>5, <1>6, <1>7, <1>8 DEF ListenNext, uc_listen

\* However the starts of a service overlap, the race for the path does not leave
\* it unreachable: until an instance dies, once nobody is starting the socket at
\* the path is that of an instance that listens.
THEOREM RaceKeepsSocket == ListenSpec => []Reachable
<1>1. ListenInit => RInv
  BY ListenAssumption DEF ListenInit, RInv, ListenTypeOK
<1>2. RInv => Reachable
  BY DEF RInv, Reachable, ListenTypeOK, Starting, Up
<1>3. RInv /\ [ListenNext]_listen_vars => RInv'
  BY StepRInv
<1>. QED
  BY <1>1, <1>2, <1>3, PTL DEF ListenSpec
=============================================================================
