---------------------------- MODULE PtyHub_proofs ----------------------------
(***************************************************************************)
(* ReadByOne, OneTerminal and NoDangling, and that ptyhub implements       *)
(* AppLife, for any number of applications, clients and connections.       *)
(***************************************************************************)
EXTENDS PtyHub, FiniteSetTheorems, WellFoundedInduction, TLAPS

MaxXid == IF XIDS > 2 * NPROCS THEN XIDS ELSE 2 * NPROCS

Proc == [xid : 0..MaxXid, pid : -1..PIDS, tty : 0..STARTS, mfd : -1..STARTS, efd : -1..STARTS,
         cfd : {-1, 0} \cup Fds, name : Names \cup {"none"}, buf : BOOLEAN]
Conn == [fd : Fds \cup {-1}, who : Clients \cup {"none"}]
Kid == [pid : 1..PIDS, tty : 1..STARTS, st : {"runs", "ok", "failed"}]
Tty == [out : -1..NPROCS, err : -1..NPROCS]
User == [st : {"idle", "here", "gone"}, msg : BOOLEAN, holds : SUBSET (1..STARTS), told : SUBSET (0..STARTS)]
Top == [nprocs : 0..NPROCS, nonempty : 0..NPROCS, running : 0..NPROCS, lastxid : 0..MaxXid,
        starts : 0..STARTS, conns : [1..NCONNS -> Conn], ctlfd : BOOLEAN,
        timer : {"NONE", "MMAP", "STOP"}, armed : BOOLEAN, end : {"none", "exit", "fail"}]
Worlds == [top : Top, procs : [Slots -> Proc], kids : SUBSET Kid, ttys : [1..STARTS -> Tty],
           users : [Clients -> User]]

\* an entry is empty, or has a number, a terminal of its own and a process
Filled(w) ==
  \A i \in Slots :
    LET p == w.procs[i] IN
    IF p.xid = 0 THEN p.pid = 0 /\ p.tty = 0 /\ p.mfd = 0 /\ p.cfd = 0
    ELSE p.pid # 0 /\ p.tty \in 1..w.top.starts /\ p.mfd \in {-1, p.tty}

\* entries past the end are empty
Sized(w) == \A i \in Slots : i > w.top.nprocs => w.procs[i].xid = 0

Distinct(w) ==
  \A i, j \in Slots :
    i # j /\ w.procs[i].xid # 0 => w.procs[i].xid # w.procs[j].xid /\ w.procs[i].tty # w.procs[j].tty

\* ptyhub polls a terminal for the entry that has it, unless a client does
Polls(w) ==
  \A i \in Slots :
    LET p == w.procs[i] IN
    p.mfd > 0 => /\ p.cfd > 0 => w.ttys[p.mfd].out = 0
                 /\ p.cfd = -1 => w.ttys[p.mfd].out = i

open(w, k) == w.top.conns[k].fd >= 0

\* connections differ in their fds and in their clients
Conns(w) ==
  /\ \A k \in 1..NCONNS : open(w, k) => w.top.conns[k].who \in Clients
  /\ \A k, l \in 1..NCONNS :
       k # l /\ open(w, k) /\ open(w, l) => /\ w.top.conns[k].fd # w.top.conns[l].fd
                                            /\ w.top.conns[k].who # w.top.conns[l].who
  /\ \A k \in 1..NCONNS : ~open(w, k) => w.top.conns[k] = NoConn
  /\ ~w.top.ctlfd => \A k \in 1..NCONNS : ~open(w, k)

Named(w) ==
  w.top.ctlfd => \A i \in Slots : w.procs[i].cfd > 0 => \E k \in 1..NCONNS : w.top.conns[k].fd = w.procs[i].cfd

\* a client holds the terminal of an entry only over its own connection
Held(w) ==
  \A c \in Clients, i \in Slots :
    w.procs[i].xid # 0 /\ w.procs[i].tty \in w.users[c].holds =>
      \E k \in 1..NCONNS : open(w, k) /\ w.top.conns[k].fd = w.procs[i].cfd /\ w.top.conns[k].who = c

Opened(w) == \A c \in Clients : w.users[c].holds \subseteq 1..w.top.starts

\* an entry belongs to a connection, or was detached
Owned(w) == \A i \in Slots : w.procs[i].xid # 0 => w.procs[i].cfd # 0

\* what holds within a handler too
Core(w) ==
  w \in Worlds /\ Filled(w) /\ Sized(w) /\ Distinct(w) /\ Polls(w) /\ Conns(w) /\ Held(w) /\ Opened(w)

Good(w) == Core(w) /\ Owned(w) /\ Named(w)

-----------------------------------------------------------------------------
(* Numbers *)

LEMMA Sizes ==
  ASSUME Setting
  PROVE  /\ PIDS \in Nat /\ NPROCS \in Nat /\ NCONNS \in Nat /\ XIDS \in Nat /\ STARTS \in Nat
         /\ XIDS > 0 /\ MaxXid \in Nat /\ MaxXid >= XIDS /\ MaxXid >= 2 * NPROCS
         /\ Numbers = 1..MaxXid /\ Slots = 1..NPROCS
         /\ Fds \subseteq Nat /\ 0 \notin Fds /\ -1 \notin Fds
  BY DEF Setting, MaxXid, Numbers, Slots

\* A set of natural numbers has a least element.
LEMMA LowestIn ==
  ASSUME NEW A \in SUBSET Nat, A # {}
  PROVE  lowest(A) \in A /\ \A y \in A : lowest(A) <= y
<1> DEFINE R == OpToRel(<, Nat)
<1>1. IsWellFoundedOn(R, Nat)
  BY NatLessThanWellFounded, Zenon
<1> HIDE DEF R
<1>2. PICK x \in A : \A y \in A : ~(<<y, x>> \in R)
  BY <1>1, WFMin, Zenon
<1>3. \A y \in Nat : y < x => <<y, x>> \in R
  <2> SUFFICES ASSUME NEW y \in Nat, y < x PROVE <<y, x>> \in R
    BY Zenon
  <2> DEFINE yx == <<y, x>>
  <2>1. yx \in Nat \X Nat /\ yx[1] < yx[2]
    BY Zenon
  <2> HIDE DEF yx
  <2>2. yx \in {st \in Nat \X Nat : st[1] < st[2]}
    BY <2>1, Zenon
  <2> QED BY <2>2, Zenon DEF yx, R, OpToRel
<1>4. \A y \in A : x <= y
  <2>1. \A y \in A : y \in Nat /\ ~(y < x)
    BY <1>2, <1>3, Zenon
  <2> QED BY <2>1
<1>5. QED
  BY <1>4, Zenon DEF lowest

\* update_proc_counts finds an end of the table, within it.
LEMMA TableEnd ==
  ASSUME Setting, NEW S \in SUBSET Slots
  PROVE  LET m == CHOOSE n \in 0..NPROCS : S \subseteq 1..n /\ (n = 0 \/ n \in S)
         IN  m \in 0..NPROCS /\ S \subseteq 1..m
<1> DEFINE A == {n \in 0..NPROCS : S \subseteq 1..n}
           m == lowest(A)
<1>1. NPROCS \in Nat /\ S \subseteq 1..NPROCS
  BY Sizes, Zenon
<1>2. NPROCS \in A /\ A \subseteq Nat
  BY <1>1
<1>3. m \in A /\ \A n \in A : m <= n
  BY <1>2, LowestIn, Zenon
<1> HIDE DEF m
<1>4. m \in 0..NPROCS /\ S \subseteq 1..m
  BY <1>3, Zenon
<1>5. m = 0 \/ m \in S
  <2> SUFFICES ASSUME m # 0, m \notin S PROVE FALSE
    BY Zenon
  <2>1. m - 1 \in 0..NPROCS /\ S \subseteq 1..(m - 1)
    BY <1>1, <1>4
  <2> QED BY <1>3, <1>4, <2>1
<1>6. QED
  BY <1>4, <1>5, Zenon

LEMMA Counted ==
  ASSUME Setting, NEW S \in SUBSET Slots
  PROVE  Cardinality(S) \in 0..NPROCS
<1>1. IsFiniteSet(Slots) /\ Cardinality(Slots) = NPROCS
  BY Sizes, FS_Interval
<1>2. IsFiniteSet(S) /\ Cardinality(S) <= Cardinality(Slots)
  BY <1>1, FS_Subset, Zenon
<1>3. Cardinality(S) \in Nat
  BY <1>2, FS_CardinalityType, Zenon
<1> QED BY <1>1, <1>2, <1>3, Sizes

-----------------------------------------------------------------------------
(* Parts of the world *)

LEMMA Empties ==
  ASSUME Setting
  PROVE  NoProc \in Proc /\ NoConn \in Conn /\ Idle \in User
<1> USE Sizes
<1>1. NoProc \in Proc
  BY DEF NoProc, Proc
<1>2. NoConn \in Conn
  BY Zenon DEF NoConn, Conn
<1>3. Idle \in User
  BY Zenon DEF Idle, User
<1> QED BY <1>1, <1>2, <1>3, Zenon

LEMMA Fields ==
  ASSUME NEW w \in Worlds
  PROVE  /\ w.top \in Top /\ w.procs \in [Slots -> Proc] /\ w.kids \in SUBSET Kid
         /\ w.ttys \in [1..STARTS -> Tty] /\ w.users \in [Clients -> User]
         /\ w.top.conns \in [1..NCONNS -> Conn] /\ w.top.ctlfd \in BOOLEAN /\ w.top.starts \in 0..STARTS
         /\ w.top.nprocs \in 0..NPROCS /\ w.top.nonempty \in 0..NPROCS /\ w.top.lastxid \in 0..MaxXid
  BY Zenon DEF Worlds, Top

\* Two entries differ in their numbers, two connections in their fds.
LEMMA OneNumber ==
  ASSUME NEW w, Core(w), NEW i \in Slots, NEW j \in Slots,
         w.procs[i].xid # 0, w.procs[i].xid = w.procs[j].xid
  PROVE  i = j
  BY Zenon DEF Core, Distinct

LEMMA OneConn ==
  ASSUME NEW w, Core(w), NEW k \in 1..NCONNS, NEW l \in 1..NCONNS,
         open(w, k), open(w, l), w.top.conns[k].fd = w.top.conns[l].fd
  PROVE  k = l
  BY Zenon DEF Core, Conns

\* A process runs for an entry only; who holds its terminal has it open.
LEMMA HasNumber ==
  ASSUME NEW w, Core(w), NEW i \in Slots, w.procs[i].pid > 0
  PROVE  w.procs[i].xid # 0
<1>1. w.procs[i].xid = 0 => w.procs[i].pid = 0
  BY Zenon DEF Core, Filled
<1> QED BY <1>1

LEMMA HeldOver ==
  ASSUME NEW w, Core(w), NEW c \in Clients, NEW i \in Slots,
         w.procs[i].xid # 0, w.procs[i].tty \in w.users[c].holds
  PROVE  \E k \in 1..NCONNS : open(w, k) /\ w.top.conns[k].fd = w.procs[i].cfd /\ w.top.conns[k].who = c
  BY Zenon DEF Core, Held

\* The same connections: what is said of them alone still holds.
LEMMA SameConns ==
  ASSUME NEW w, NEW v, Core(w), v.top.conns = w.top.conns, v.top.ctlfd = w.top.ctlfd
  PROVE  Conns(v)
<1>1. Conns(w)
  BY Zenon DEF Core
<1> QED BY <1>1 DEF Conns, open

\* The same table and terminals: what is said of entries alone still holds.
LEMMA SameTable ==
  ASSUME NEW w, NEW v, Good(w), v.procs = w.procs, v.ttys = w.ttys,
         v.top.nprocs = w.top.nprocs, v.top.starts = w.top.starts
  PROVE  Filled(v) /\ Sized(v) /\ Distinct(v) /\ Owned(v) /\ Polls(v)
<1>1. Filled(w) /\ Sized(w) /\ Distinct(w) /\ Owned(w) /\ Polls(w)
  BY Zenon DEF Good, Core
<1>2. Filled(v) /\ Sized(v)
  BY <1>1 DEF Filled, Sized
<1>3. Distinct(v) /\ Owned(v)
  BY <1>1 DEF Distinct, Owned
<1>4. Polls(v)
  BY <1>1 DEF Polls
<1> QED BY <1>2, <1>3, <1>4, Zenon

\* What else is in struct top, and the children, does not matter.
LEMMA SameGood ==
  ASSUME NEW w, NEW v \in Worlds, Good(w), Sized(v),
         v.procs = w.procs, v.ttys = w.ttys, v.users = w.users,
         v.top.conns = w.top.conns, v.top.ctlfd = w.top.ctlfd, v.top.starts = w.top.starts
  PROVE  Good(v)
<1> USE DEF Good, Core
<1>1. Filled(v) /\ Owned(v) /\ Distinct(v) /\ Polls(v)
  <2>1. Filled(v) /\ Owned(v)
    BY DEF Filled, Owned
  <2>2. Distinct(v) /\ Polls(v)
    BY DEF Distinct, Polls
  <2> QED BY <2>1, <2>2, Zenon
<1>2. Conns(v) /\ Named(v)
  <2>1. Conns(v)
    BY SameConns, Zenon
  <2> QED BY <2>1, Zenon DEF Named
<1>3. Held(v) /\ Opened(v)
  BY DEF Held, Opened, open
<1> QED BY <1>1, <1>2, <1>3, Zenon

\* q is p, perhaps with its process gone, with other output and errors
Like(p, q) ==
  /\ q.xid = p.xid /\ q.tty = p.tty /\ q.mfd = p.mfd /\ q.cfd = p.cfd
  /\ q.pid = p.pid \/ (p.xid # 0 /\ q.pid = -1)

Cleared(q) == q.xid = 0 /\ q.pid = 0 /\ q.tty = 0 /\ q.mfd = 0 /\ q.cfd = 0

\* Entries may be emptied, and applications may end.
LEMMA LikeGood ==
  ASSUME Setting, NEW w, NEW v \in Worlds, Good(w),
         \A i \in Slots : Like(w.procs[i], v.procs[i]) \/ Cleared(v.procs[i]),
         \A t \in 1..STARTS : v.ttys[t].out = w.ttys[t].out,
         v.users = w.users, v.top.nprocs = w.top.nprocs,
         v.top.conns = w.top.conns, v.top.ctlfd = w.top.ctlfd, v.top.starts = w.top.starts
  PROVE  Good(v)
<1> USE DEF Good, Core
<1>0. w \in Worlds /\ w.procs \in [Slots -> Proc] /\ v.procs \in [Slots -> Proc]
  BY Fields, Zenon
<1>1. Filled(v) /\ Owned(v) /\ Sized(v)
  <2>1. Filled(v) /\ Owned(v)
    BY DEF Filled, Owned, Like, Cleared
  <2>2. Sized(v)
    BY Zenon DEF Sized, Like, Cleared
  <2> QED BY <2>1, <2>2, Zenon
<1>2. Distinct(v)
  <2> SUFFICES ASSUME NEW i \in Slots, NEW j \in Slots, i # j, v.procs[i].xid # 0
               PROVE  v.procs[i].xid # v.procs[j].xid /\ v.procs[i].tty # v.procs[j].tty
    BY Zenon DEF Distinct
  <2>1. Like(w.procs[i], v.procs[i]) /\ w.procs[i].xid # 0
    BY Zenon DEF Like, Cleared
  <2>2. w.procs[i].xid # w.procs[j].xid /\ w.procs[i].tty # w.procs[j].tty
    BY <2>1, Zenon DEF Distinct
  <2>3. w.procs[i].tty # 0
    <3>1. w.procs[i].tty \in 1..w.top.starts /\ w.top.starts \in 0..STARTS /\ STARTS \in Nat
      BY <1>0, <2>1, Fields, Sizes, Zenon DEF Filled
    <3> QED BY <3>1
  <2> QED BY <2>1, <2>2, <2>3, Zenon DEF Like, Cleared
<1>3. Polls(v)
  <2> SUFFICES ASSUME NEW i \in Slots, v.procs[i].mfd > 0
               PROVE  /\ v.procs[i].cfd > 0 => v.ttys[v.procs[i].mfd].out = 0
                      /\ v.procs[i].cfd = -1 => v.ttys[v.procs[i].mfd].out = i
    BY Zenon DEF Polls
  <2>1. v.procs[i].mfd = w.procs[i].mfd /\ v.procs[i].cfd = w.procs[i].cfd
    BY DEF Like, Cleared
  <2>2. v.procs[i].mfd \in 1..STARTS
    <3>1. v.procs[i] \in Proc
      BY <1>0, Zenon
    <3>2. v.procs[i].mfd \in -1..STARTS
      BY <3>1, Zenon DEF Proc
    <3> QED BY <3>2, Sizes
  <2> QED BY <2>1, <2>2, Zenon DEF Polls
<1>4. Conns(v)
  BY SameConns, Zenon
<1>5. Named(v)
  <2> SUFFICES ASSUME w.top.ctlfd, NEW i \in Slots, v.procs[i].cfd > 0
               PROVE  \E k \in 1..NCONNS : w.top.conns[k].fd = v.procs[i].cfd
    BY Zenon DEF Named
  <2>1. v.procs[i].cfd = w.procs[i].cfd
    BY DEF Like, Cleared
  <2> QED BY <2>1, Zenon DEF Named
<1>6. Held(v)
  <2> SUFFICES ASSUME NEW c \in Clients, NEW i \in Slots,
                      v.procs[i].xid # 0, v.procs[i].tty \in v.users[c].holds
               PROVE  \E k \in 1..NCONNS : /\ open(v, k) /\ v.top.conns[k].fd = v.procs[i].cfd
                                           /\ v.top.conns[k].who = c
    BY Zenon DEF Held
  <2>1. Like(w.procs[i], v.procs[i])
    BY Zenon DEF Cleared
  <2>2. w.procs[i].xid # 0 /\ w.procs[i].tty \in w.users[c].holds
    BY <2>1, Zenon DEF Like
  <2>3. PICK k \in 1..NCONNS : open(w, k) /\ w.top.conns[k].fd = w.procs[i].cfd /\ w.top.conns[k].who = c
    BY <2>2, Zenon DEF Held
  <2> QED BY <2>1, <2>3, Zenon DEF Like, open
<1>7. Opened(v)
  BY Zenon DEF Opened
<1> QED BY <1>1, <1>2, <1>3, <1>4, <1>5, <1>6, <1>7, Zenon

LEMMA Recount ==
  ASSUME Setting, NEW w \in Worlds, NEW v, v = update_proc_counts(w)
  PROVE  /\ v \in Worlds
         /\ v.procs = w.procs /\ v.ttys = w.ttys /\ v.users = w.users /\ v.kids = w.kids
         /\ v.top.conns = w.top.conns /\ v.top.ctlfd = w.top.ctlfd /\ v.top.starts = w.top.starts
         /\ v.top.lastxid = w.top.lastxid
         /\ Sized(v)
         /\ Good(w) => Good(v)
<1> DEFINE S == {i \in Slots : w.procs[i].xid # 0}
           R == {i \in S : w.procs[i].pid > 0}
           n == CHOOSE m \in 0..NPROCS : S \subseteq 1..m /\ (m = 0 \/ m \in S)
           t == [w.top EXCEPT !.nprocs = n, !.nonempty = Cardinality(S), !.running = Cardinality(R)]
<1>1. n \in 0..NPROCS /\ S \subseteq 1..n /\ Cardinality(S) \in 0..NPROCS /\ Cardinality(R) \in 0..NPROCS
  BY TableEnd, Counted, Zenon
<1>2. v = [w EXCEPT !.top.nprocs = n, !.top.nonempty = Cardinality(S), !.top.running = Cardinality(R)]
  BY Zenon DEF update_proc_counts
<1>a. \A i \in Slots : i \notin S => w.procs[i].xid = 0
  BY Zenon
<1> HIDE DEF n, S, R
<1>3. /\ t \in Top /\ t.nprocs = n /\ t.conns = w.top.conns /\ t.ctlfd = w.top.ctlfd /\ t.starts = w.top.starts
      /\ t.lastxid = w.top.lastxid
  BY <1>1, Fields, Zenon DEF Top
<1>4. v = [w EXCEPT !.top = t]
  BY <1>2, Zenon DEF Worlds
<1> HIDE DEF t
<1>5. v \in Worlds /\ v.top = t
  BY <1>3, <1>4, Zenon DEF Worlds
<1>6. v.procs = w.procs /\ v.ttys = w.ttys /\ v.users = w.users /\ v.kids = w.kids
  BY <1>4, Zenon DEF Worlds
<1>7. Sized(v)
  <2> SUFFICES ASSUME NEW i \in Slots, i > n PROVE w.procs[i].xid = 0
    BY <1>3, <1>5, <1>6, Zenon DEF Sized
  <2>1. i \notin 1..n
    BY <1>1, Sizes
  <2> QED BY <1>1, <1>a, <2>1, Zenon
<1> QED BY <1>3, <1>5, <1>6, <1>7, SameGood, Zenon

LEMMA Wipe ==
  ASSUME Setting, NEW w \in Worlds, NEW D, NEW v, v = wipe_procs(w, D)
  PROVE  /\ v \in Worlds
         /\ \A i \in Slots : v.procs[i] = IF i \in D THEN NoProc ELSE w.procs[i]
         /\ v.top = w.top /\ v.ttys = w.ttys /\ v.users = w.users /\ v.kids = w.kids
         /\ Good(w) => Good(v)
<1> DEFINE P == [i \in Slots |-> IF i \in D THEN NoProc ELSE w.procs[i]]
<1>1. v = [w EXCEPT !.procs = P]
  BY Zenon DEF wipe_procs, Worlds
<1>2. P \in [Slots -> Proc]
  BY Empties, Fields, Zenon
<1>3. \A i \in Slots : P[i] = IF i \in D THEN NoProc ELSE w.procs[i]
  BY Zenon
<1> HIDE DEF P
<1>4. v \in Worlds /\ v.procs = P /\ v.top = w.top /\ v.ttys = w.ttys /\ v.users = w.users /\ v.kids = w.kids
  BY <1>1, <1>2, Zenon DEF Worlds
<1>5. \A i \in Slots : Like(w.procs[i], v.procs[i]) \/ Cleared(v.procs[i])
  BY <1>3, <1>4 DEF Like, Cleared, NoProc
<1>6. Good(w) => Good(v)
  BY <1>4, <1>5, LikeGood, Zenon
<1> QED BY <1>3, <1>4, <1>6, Zenon

-----------------------------------------------------------------------------
(* Terminals and connections *)

\* The terminal of an entry, if it is open, is its own.
LEMMA OwnTty ==
  ASSUME Setting, NEW w, Core(w), NEW i \in Slots
  PROVE  /\ w.procs[i] \in Proc /\ w.procs[i].mfd \in -1..STARTS
         /\ w.procs[i].mfd > 0 => w.procs[i].xid # 0 /\ w.procs[i].mfd = w.procs[i].tty /\ w.procs[i].mfd \in 1..STARTS
         /\ w.procs[i].mfd > 0 => \A j \in Slots : w.procs[j].mfd = w.procs[i].mfd => j = i
<1>1. w.procs[i] \in Proc
  BY Fields, Zenon DEF Core
<1>2. w.procs[i].mfd \in -1..STARTS /\ STARTS \in Nat
  BY <1>1, Sizes, Zenon DEF Proc
<1>3. \A j \in Slots : w.procs[j].mfd > 0 => w.procs[j].xid # 0 /\ w.procs[j].mfd = w.procs[j].tty
  BY DEF Core, Filled
<1>4. w.procs[i].mfd > 0 => \A j \in Slots : w.procs[j].mfd = w.procs[i].mfd => j = i
  BY <1>3, Zenon DEF Core, Distinct
<1> QED BY <1>1, <1>2, <1>3, <1>4

LEMMA Detach ==
  ASSUME Setting, NEW w, Core(w), NEW D \in SUBSET Slots, NEW v, v = detach(w, D),
         \A i \in D : w.procs[i].xid # 0 /\ \A c \in Clients : w.procs[i].tty \notin w.users[c].holds
  PROVE  /\ Core(v) /\ v.top = w.top /\ v.users = w.users /\ v.kids = w.kids
         /\ \A i \in Slots : v.procs[i] = IF i \in D THEN [w.procs[i] EXCEPT !.cfd = -1] ELSE w.procs[i]
<1> DEFINE P == [i \in Slots |-> IF i \in D THEN [w.procs[i] EXCEPT !.cfd = -1] ELSE w.procs[i]]
           T == [t \in 1..STARTS |->
                   IF \E i \in D : w.procs[i].mfd = t
                   THEN [w.ttys[t] EXCEPT !.out = CHOOSE i \in D : w.procs[i].mfd = t] ELSE w.ttys[t]]
<1>0. w \in Worlds /\ w.procs \in [Slots -> Proc] /\ w.ttys \in [1..STARTS -> Tty]
  BY Fields, Zenon DEF Core
<1>1. v = [w EXCEPT !.procs = P, !.ttys = T]
  BY <1>0, Zenon DEF detach, Worlds
<1>2. P \in [Slots -> Proc]
  <2> SUFFICES ASSUME NEW i \in Slots PROVE [w.procs[i] EXCEPT !.cfd = -1] \in Proc
    BY <1>0, Zenon
  <2> QED BY <1>0, ZenonT(30) DEF Proc
<1>3. T \in [1..STARTS -> Tty]
  <2> SUFFICES ASSUME NEW t \in 1..STARTS, NEW j \in Slots PROVE [w.ttys[t] EXCEPT !.out = j] \in Tty
    BY <1>0, ZenonT(30)
  <2>1. j \in -1..NPROCS
    BY Sizes
  <2> QED BY <1>0, <2>1, Zenon DEF Tty
<1>4. \A i \in Slots : P[i] = IF i \in D THEN [w.procs[i] EXCEPT !.cfd = -1] ELSE w.procs[i]
  BY Zenon
<1>5. \A i \in Slots : /\ P[i].xid = w.procs[i].xid /\ P[i].pid = w.procs[i].pid /\ P[i].tty = w.procs[i].tty
                       /\ P[i].mfd = w.procs[i].mfd
                       /\ P[i].cfd = IF i \in D THEN -1 ELSE w.procs[i].cfd
  BY <1>0, <1>4 DEF Proc
<1>6. \A i \in Slots : w.procs[i].mfd > 0 => T[w.procs[i].mfd].out = IF i \in D THEN i ELSE w.ttys[w.procs[i].mfd].out
  <2> SUFFICES ASSUME NEW i \in Slots, w.procs[i].mfd > 0
               PROVE  T[w.procs[i].mfd].out = IF i \in D THEN i ELSE w.ttys[w.procs[i].mfd].out
    BY Zenon
  <2>1. w.procs[i].mfd \in 1..STARTS /\ \A j \in Slots : w.procs[j].mfd = w.procs[i].mfd => j = i
    BY OwnTty, Zenon
  <2>2. w.ttys[w.procs[i].mfd] \in Tty
    BY <1>0, <2>1, Zenon
  <2>3. CASE i \in D
    <3>1. (CHOOSE j \in D : w.procs[j].mfd = w.procs[i].mfd) = i
      BY <2>1, <2>3, Zenon
    <3> QED BY <2>1, <2>2, <2>3, <3>1, Zenon DEF Tty
  <2>4. CASE i \notin D
    BY <2>1, <2>4, Zenon
  <2> QED BY <2>3, <2>4, Zenon
<1> HIDE DEF P, T
<1>7. v \in Worlds /\ v.procs = P /\ v.ttys = T /\ v.top = w.top /\ v.users = w.users /\ v.kids = w.kids
  BY <1>0, <1>1, <1>2, <1>3, Zenon DEF Worlds
<1>8. Filled(v) /\ Sized(v) /\ Distinct(v)
  <2>1. Filled(v) /\ Sized(v)
    BY <1>5, <1>7 DEF Core, Filled, Sized
  <2>2. Distinct(v)
    BY <1>5, <1>7 DEF Core, Distinct
  <2> QED BY <2>1, <2>2, Zenon
<1>9. Polls(v)
  BY <1>5, <1>6, <1>7 DEF Core, Polls
<1>10. Conns(v) /\ Opened(v)
  <2>1. Conns(v)
    BY <1>7, SameConns, Zenon
  <2> QED BY <1>7, <2>1, Zenon DEF Core, Opened
<1>11. Held(v)
  BY <1>5, <1>7 DEF Core, Held, open
<1> QED BY <1>4, <1>7, <1>8, <1>9, <1>10, <1>11, Zenon DEF Core

\* An open connection has an fd above 0 and a client.
LEMMA OpenConn ==
  ASSUME Setting, NEW w, Core(w), NEW k \in 1..NCONNS
  PROVE  /\ w.top.conns[k].fd \in Fds \cup {-1}
         /\ open(w, k) <=> w.top.conns[k].fd \in Fds
         /\ open(w, k) <=> w.top.conns[k].fd > 0
         /\ open(w, k) => w.top.conns[k].who \in Clients
<1>1. w.top.conns[k] \in Conn
  BY Fields, Zenon DEF Core
<1>2. w.top.conns[k].fd \in Fds \cup {-1}
  BY <1>1, Zenon DEF Conn
<1>3. open(w, k) => w.top.conns[k].who \in Clients
  BY Zenon DEF Core, Conns
<1>4. Fds \subseteq Nat \ {0}
  BY Zenon DEF Setting
<1>5. \A x \in Fds \cup {-1} : (x >= 0 <=> x \in Fds) /\ (x >= 0 <=> x > 0)
  BY <1>4
<1> QED BY <1>2, <1>3, <1>5, Zenon DEF open

\* v is w but for connections closed, and the entries that had them
CutFrom(w, v) ==
  /\ Good(v) /\ v.kids = w.kids /\ v.top = [w.top EXCEPT !.conns = v.top.conns]
  /\ \A i \in Slots : v.procs[i] = w.procs[i] \/ v.procs[i] = [w.procs[i] EXCEPT !.cfd = -1]

\* Connections of clients that are gone are closed, and their terminals polled.
LEMMA CloseConns ==
  ASSUME Setting, NEW w, Good(w), NEW K \in SUBSET (1..NCONNS), NEW v, v = close_conns(w, K),
         \A k \in K : open(w, k)
  PROVE  CutFrom(w, v)
<1> DEFINE F == {w.top.conns[k].fd : k \in K}
           C == {w.top.conns[k].who : k \in K}
           N == [k \in 1..NCONNS |-> IF k \in K THEN NoConn ELSE w.top.conns[k]]
           U == [c \in Clients |-> IF c \in C THEN Idle ELSE w.users[c]]
           t == [w.top EXCEPT !.conns = N]
           u == [w EXCEPT !.top = t, !.users = U]
           D == {i \in Slots : u.procs[i].cfd \in F}
<1>0. w \in Worlds /\ Core(w)
  BY Zenon DEF Good, Core
<1>1. v = detach(u, D)
  <2>1. u = [w EXCEPT !.top.conns = N, !.users = U]
    BY <1>0, Zenon DEF Worlds
  <2>2. v = detach_client([w EXCEPT !.top.conns = N, !.users = U], F)
    <3>1. N = [k \in 1..NCONNS |-> IF k \in K THEN NoConn ELSE w.top.conns[k]]
      BY Zenon
    <3>2. U = [c \in Clients |-> IF c \in C THEN Idle ELSE w.users[c]]
      BY Zenon
    <3> QED BY <1>0, Zenon DEF close_conns, Worlds, Top
  <2> QED BY <2>1, <2>2, Zenon DEF detach_client
<1>2. N \in [1..NCONNS -> Conn] /\ U \in [Clients -> User]
  BY <1>0, Fields, Empties, Zenon
<1>3. \A k \in 1..NCONNS : N[k] = IF k \in K THEN NoConn ELSE w.top.conns[k]
  BY Zenon
<1>4. \A c \in Clients : U[c] = IF c \in C THEN Idle ELSE w.users[c]
  BY Zenon
<1>5. \A k \in K : w.top.conns[k].fd \in F /\ w.top.conns[k].who \in C
  BY Zenon
<1>6. \A f \in F : \E k \in K : w.top.conns[k].fd = f
  BY Zenon
<1> HIDE DEF N, U, F, C
<1>7. t \in Top /\ t.conns = N /\ t.nprocs = w.top.nprocs /\ t.starts = w.top.starts /\ t.ctlfd = w.top.ctlfd
  BY <1>0, <1>2, Fields, Zenon DEF Top
<1> HIDE DEF t
<1>8. /\ u \in Worlds /\ u.top = t /\ u.users = U
      /\ u.procs = w.procs /\ u.ttys = w.ttys /\ u.kids = w.kids
  BY <1>0, <1>2, <1>7, Zenon DEF Worlds
<1> HIDE DEF u
<1>9. \A k \in 1..NCONNS : open(u, k) <=> open(w, k) /\ k \notin K
  BY <1>3, <1>7, <1>8 DEF open, NoConn
<1>10. Core(u)
  <2>1. Filled(u) /\ Sized(u) /\ Distinct(u) /\ Polls(u)
    BY <1>0, <1>7, <1>8 DEF Core, Filled, Sized, Distinct, Polls
  <2>2. Conns(u)
    BY <1>0, <1>3, <1>7, <1>8, <1>9 DEF Core, Conns
  <2>3. Held(u)
    <3> SUFFICES ASSUME NEW c \in Clients, NEW i \in Slots, w.procs[i].xid # 0, w.procs[i].tty \in U[c].holds
                 PROVE  \E k \in 1..NCONNS : open(u, k) /\ N[k].fd = w.procs[i].cfd /\ N[k].who = c
      BY <1>7, <1>8 DEF Held
    <3>1. c \notin C /\ U[c] = w.users[c]
      BY <1>4 DEF Idle
    <3>2. PICK k \in 1..NCONNS : open(w, k) /\ w.top.conns[k].fd = w.procs[i].cfd /\ w.top.conns[k].who = c
      BY <1>0, <3>1, Zenon DEF Core, Held
    <3>3. k \notin K
      BY <1>5, <3>1, <3>2, Zenon
    <3> QED BY <1>3, <1>9, <3>2, <3>3, Zenon
  <2>4. Opened(u)
    BY <1>0, <1>4, <1>7, <1>8 DEF Core, Opened, Idle
  <2> QED BY <1>8, <2>1, <2>2, <2>3, <2>4, Zenon DEF Core
<1>11. \A i \in D : w.procs[i].xid # 0 /\ \A c \in Clients : w.procs[i].tty \notin u.users[c].holds
  <2> SUFFICES ASSUME NEW i \in D
               PROVE  w.procs[i].xid # 0 /\ \A c \in Clients : w.procs[i].tty \notin u.users[c].holds
    BY Zenon
  <2>1. PICK l \in K : w.top.conns[l].fd = w.procs[i].cfd
    BY <1>6, <1>8, Zenon
  <2>2. open(w, l) /\ w.top.conns[l].fd > 0
    BY <1>0, OpenConn, Zenon
  <2>3. w.procs[i].xid # 0
    BY <1>0, <2>1, <2>2 DEF Core, Filled
  <2>4. ASSUME NEW c \in Clients, w.procs[i].tty \in u.users[c].holds PROVE FALSE
    <3>1. PICK k \in 1..NCONNS : open(u, k) /\ u.top.conns[k].fd = w.procs[i].cfd
      BY <1>8, <1>10, <2>3, <2>4 DEF Core, Held
    <3>2. k \notin K /\ open(w, k) /\ w.top.conns[k].fd = w.procs[i].cfd
      BY <1>3, <1>7, <1>8, <1>9, <3>1
    <3> QED BY <1>0, <2>1, <2>2, <3>2, Zenon DEF Core, Conns
  <2> QED BY <2>3, <2>4, Zenon
<1>12. D \in SUBSET Slots
  BY Zenon
<1>13. \A i \in Slots : i \in D <=> w.procs[i].cfd \in F
  BY <1>8, Zenon
<1> HIDE DEF D
<1>14. /\ Core(v) /\ v.top = u.top /\ v.users = u.users /\ v.kids = u.kids
       /\ \A i \in Slots : v.procs[i] = IF i \in D THEN [u.procs[i] EXCEPT !.cfd = -1] ELSE u.procs[i]
  BY <1>1, <1>8, <1>10, <1>11, <1>12, Detach, SMTT(30)
<1>15. \A i \in Slots : w.procs[i] \in Proc
  BY <1>0, Fields, Zenon
<1>16. \A i \in Slots : v.procs[i].xid = w.procs[i].xid /\ v.procs[i].cfd = IF i \in D THEN -1 ELSE w.procs[i].cfd
  <2> SUFFICES ASSUME NEW i \in Slots
               PROVE  v.procs[i].xid = w.procs[i].xid /\ v.procs[i].cfd = IF i \in D THEN -1 ELSE w.procs[i].cfd
    BY Zenon
  <2>1. w.procs[i] \in Proc /\ v.procs[i] = IF i \in D THEN [w.procs[i] EXCEPT !.cfd = -1] ELSE w.procs[i]
    BY <1>8, <1>14, <1>15, Zenon
  <2> QED BY <2>1, Zenon DEF Proc
<1>17. Owned(v)
  BY <1>16 DEF Good, Owned
<1>18. Named(v)
  <2> SUFFICES ASSUME w.top.ctlfd, NEW i \in Slots, v.procs[i].cfd > 0
               PROVE  \E k \in 1..NCONNS : v.top.conns[k].fd = v.procs[i].cfd
    BY <1>7, <1>8, <1>14, Zenon DEF Named
  <2>1. i \notin D /\ v.procs[i].cfd = w.procs[i].cfd
    BY <1>16
  <2>2. PICK k \in 1..NCONNS : w.top.conns[k].fd = w.procs[i].cfd
    BY <2>1, Zenon DEF Good, Named
  <2>3. k \notin K
    BY <1>5, <1>13, <2>1, <2>2, Zenon
  <2> QED BY <1>3, <1>7, <1>8, <1>14, <2>1, <2>2, <2>3, SMTT(30)
<1>19. v.top = [w.top EXCEPT !.conns = v.top.conns]
  BY <1>7, <1>8, <1>14, Zenon DEF t
<1> QED BY <1>8, <1>14, <1>17, <1>18, <1>19, Zenon DEF Good, CutFrom

\* v is w but for the entry i
Replaced(w, v, i, q) ==
  /\ v.top = w.top /\ v.users = w.users /\ v.kids = w.kids /\ v.ttys = w.ttys
  /\ \A j \in Slots : v.procs[j] = IF j = i THEN q ELSE w.procs[j]

LEMMA SetEntry ==
  ASSUME Setting, NEW w, Good(w), NEW i \in Slots, NEW q \in Proc, Like(w.procs[i], q) \/ Cleared(q),
         NEW v, v = [w EXCEPT !.procs[i] = q]
  PROVE  Good(v) /\ Replaced(w, v, i, q)
<1> DEFINE P == [w.procs EXCEPT ![i] = q]
<1>0. w \in Worlds /\ w.procs \in [Slots -> Proc]
  BY Fields, Zenon DEF Good, Core
<1>1. P \in [Slots -> Proc] /\ \A j \in Slots : P[j] = IF j = i THEN q ELSE w.procs[j]
  BY <1>0, Zenon
<1>2. v = [w EXCEPT !.procs = P]
  BY <1>0, Zenon DEF Worlds
<1> HIDE DEF P
<1>3. v \in Worlds /\ v.procs = P /\ v.top = w.top /\ v.ttys = w.ttys /\ v.users = w.users /\ v.kids = w.kids
  BY <1>0, <1>1, <1>2, Zenon DEF Worlds
<1>4. \A j \in Slots : Like(w.procs[j], v.procs[j]) \/ Cleared(v.procs[j])
  BY <1>1, <1>3, Zenon DEF Like
<1>5. Replaced(w, v, i, q)
  BY <1>1, <1>3, Zenon DEF Replaced
<1> QED BY <1>3, <1>4, <1>5, LikeGood, Zenon

LEMMA SetTop ==
  ASSUME NEW w, Good(w), NEW t \in Top, NEW v, v = [w EXCEPT !.top = t],
         t.nprocs = w.top.nprocs, t.conns = w.top.conns, t.ctlfd = w.top.ctlfd, t.starts = w.top.starts
  PROVE  Good(v) /\ v.procs = w.procs /\ v.top = t /\ v.users = w.users /\ v.kids = w.kids
<1>0. w \in Worlds
  BY Zenon DEF Good, Core
<1>1. v \in Worlds /\ v.procs = w.procs /\ v.top = t /\ v.ttys = w.ttys /\ v.users = w.users /\ v.kids = w.kids
  BY <1>0, Zenon DEF Worlds
<1>2. Sized(v)
  BY <1>1, Zenon DEF Good, Core, Sized
<1> QED BY <1>1, <1>2, SameGood, Zenon

\* The terminal of an entry is closed: no other entry has it.
LEMMA CloseStdout ==
  ASSUME Setting, NEW w, Good(w), NEW i \in Slots, NEW v, v = close_stdout(w, i)
  PROVE  /\ Good(v) /\ v.top = w.top
         /\ \A j \in Slots : v.procs[j].xid = w.procs[j].xid /\ v.procs[j].pid = w.procs[j].pid
<1>0. Core(w) /\ w \in Worlds /\ w.procs \in [Slots -> Proc] /\ w.ttys \in [1..STARTS -> Tty]
  BY Fields, Zenon DEF Good, Core
<1>1. CASE w.procs[i].mfd <= 0
  BY <1>1, Zenon DEF close_stdout
<1>2. CASE ~(w.procs[i].mfd <= 0)
  <2> DEFINE m == w.procs[i].mfd
             q == [w.procs[i] EXCEPT !.mfd = -1]
             P == [w.procs EXCEPT ![i] = q]
             s == [w.ttys[m] EXCEPT !.out = -1]
             T == [w.ttys EXCEPT ![m] = s]
  <2>1. w.procs[i] \in Proc /\ m > 0 /\ m \in 1..STARTS /\ m = w.procs[i].tty /\ w.procs[i].xid # 0
    BY <1>0, <1>2, OwnTty
  <2>2. \A j \in Slots : w.procs[j].mfd = m => j = i
    BY <1>0, <2>1, OwnTty, Zenon
  <2>3. v = [w EXCEPT !.procs = P, !.ttys = T]
    <3>1. v = [[w EXCEPT !.ttys[m].out = -1] EXCEPT !.procs[i].mfd = -1]
      BY <1>2, Zenon DEF close_stdout, set_out
    <3> QED BY <1>0, <3>1, Zenon DEF Worlds
  <2>4. /\ q \in Proc /\ q.xid = w.procs[i].xid /\ q.pid = w.procs[i].pid /\ q.tty = w.procs[i].tty
        /\ q.mfd = -1 /\ q.cfd = w.procs[i].cfd
    <3>1. -1 \in -1..STARTS
      BY Sizes
    <3> QED BY <2>1, <3>1, Zenon DEF Proc
  <2>5. s \in Tty
    <3>1. w.ttys[m] \in Tty
      BY <1>0, <2>1, Zenon
    <3>2. -1 \in -1..NPROCS
      BY Sizes
    <3> HIDE DEF m
    <3> QED BY <3>1, <3>2, Zenon DEF Tty
  <2> HIDE DEF q, s, m
  <2>6. P \in [Slots -> Proc] /\ \A j \in Slots : P[j] = IF j = i THEN q ELSE w.procs[j]
    BY <1>0, <2>4, Zenon
  <2>7. T \in [1..STARTS -> Tty] /\ \A t \in 1..STARTS : t # m => T[t] = w.ttys[t]
    BY <1>0, <2>1, <2>5, Zenon
  <2> HIDE DEF P, T
  <2>8. v \in Worlds /\ v.procs = P /\ v.ttys = T /\ v.top = w.top /\ v.users = w.users
    BY <1>0, <2>3, <2>6, <2>7, Zenon DEF Worlds
  <2>9. \A j \in Slots : /\ P[j].xid = w.procs[j].xid /\ P[j].pid = w.procs[j].pid /\ P[j].tty = w.procs[j].tty
                         /\ P[j].cfd = w.procs[j].cfd /\ P[j].mfd = IF j = i THEN -1 ELSE w.procs[j].mfd
    BY <2>4, <2>6, Zenon
  <2>10. Filled(v) /\ Owned(v) /\ Sized(v) /\ Distinct(v)
    BY <2>1, <2>8, <2>9 DEF Good, Core, Filled, Owned, Sized, Distinct
  <2>11. Polls(v)
    <3> SUFFICES ASSUME NEW j \in Slots, P[j].mfd > 0
                 PROVE  /\ P[j].cfd > 0 => T[P[j].mfd].out = 0
                        /\ P[j].cfd = -1 => T[P[j].mfd].out = j
      BY <2>8, Zenon DEF Polls
    <3>1. j # i /\ P[j].mfd = w.procs[j].mfd /\ P[j].cfd = w.procs[j].cfd
      BY <2>9
    <3>2. w.procs[j].mfd \in 1..STARTS /\ w.procs[j].mfd # m
      BY <1>0, <2>2, <3>1, OwnTty, Zenon
    <3>3. T[P[j].mfd] = w.ttys[w.procs[j].mfd]
      BY <2>7, <3>1, <3>2, Zenon
    <3> QED BY <1>0, <3>1, <3>3, Zenon DEF Core, Polls
  <2>12. Conns(v) /\ Opened(v) /\ Named(v)
    <3>1. Conns(v)
      BY <2>8, SameConns, Zenon DEF Good
    <3>2. Opened(v)
      BY <2>8, Zenon DEF Good, Core, Opened
    <3>3. Named(v)
      BY <2>8, <2>9 DEF Good, Named
    <3> QED BY <3>1, <3>2, <3>3, Zenon
  <2>13. Held(v)
    BY <2>8, <2>9 DEF Good, Core, Held, open
  <2> QED BY <2>8, <2>9, <2>10, <2>11, <2>12, <2>13, Zenon DEF Good, Core
<1> QED BY <1>1, <1>2, Zenon

\* A client may do anything but take terminals.
LEMMA SetUsers ==
  ASSUME NEW w, Good(w), NEW U \in [Clients -> User], NEW v, v = [w EXCEPT !.users = U],
         \A c \in Clients : U[c].holds \subseteq w.users[c].holds
  PROVE  Good(v) /\ v.procs = w.procs /\ v.top = w.top /\ v.users = U /\ v.kids = w.kids /\ v.ttys = w.ttys
<1>0. w \in Worlds
  BY Zenon DEF Good, Core
<1>1. v \in Worlds /\ v.procs = w.procs /\ v.top = w.top /\ v.ttys = w.ttys /\ v.users = U /\ v.kids = w.kids
  BY <1>0, Zenon DEF Worlds
<1>2. Filled(v) /\ Owned(v) /\ Sized(v) /\ Distinct(v) /\ Polls(v)
  BY <1>1, SameTable, Zenon
<1>3. Conns(v) /\ Named(v)
  <2>1. Conns(v)
    BY <1>1, SameConns, Zenon DEF Good
  <2> QED BY <1>1, <2>1, Zenon DEF Good, Named
<1>4. Held(v)
  BY <1>1 DEF Good, Core, Held, open
<1>5. Opened(v)
  BY <1>1, Zenon DEF Good, Core, Opened
<1> QED BY <1>1, <1>2, <1>3, <1>4, <1>5, Zenon DEF Good, Core

-----------------------------------------------------------------------------
(* What becomes of the entries *)

Kept(p, q) == q.xid = p.xid /\ q.pid = p.pid
Forgot(p, q) == p.xid # 0 /\ p.pid <= 0 /\ q.xid = 0
Over(p, q) == p.xid # 0 /\ p.pid > 0 /\ (q.xid = 0 \/ (q.xid = p.xid /\ q.pid <= 0))

Ends(w, v) ==
  \A i \in Slots : \/ Kept(w.procs[i], v.procs[i])
                   \/ Forgot(w.procs[i], v.procs[i])
                   \/ Over(w.procs[i], v.procs[i])

Begins(w, v) ==
  \E i \in Slots :
    /\ w.procs[i].xid = 0 /\ v.procs[i].xid # 0 /\ v.procs[i].pid > 0
    /\ \A j \in Slots : w.procs[j].xid # v.procs[i].xid
    /\ \A j \in Slots \ {i} : Kept(w.procs[j], v.procs[j]) \/ Forgot(w.procs[j], v.procs[j])

Steps(w, v) == Ends(w, v) \/ Begins(w, v)

LEMMA ThenKept ==
  ASSUME NEW w, NEW u, NEW v, \A i \in Slots : Kept(u.procs[i], v.procs[i])
  PROVE  (Ends(w, u) => Ends(w, v)) /\ (Begins(w, u) => Begins(w, v))
  BY DEF Ends, Begins, Kept, Forgot, Over

LEMMA KeptThen ==
  ASSUME NEW w, NEW u, NEW v, \A i \in Slots : Kept(w.procs[i], u.procs[i])
  PROVE  (Ends(u, v) => Ends(w, v)) /\ (Begins(u, v) => Begins(w, v))
  BY DEF Ends, Begins, Kept, Forgot, Over

LEMMA NotifyExit ==
  ASSUME Setting, NEW w, Good(w), NEW D \in SUBSET Slots, NEW v, v = notify_exit(w, D)
  PROVE  CutFrom(w, v)
<1> DEFINE U == [c \in Clients |-> [w.users[c] EXCEPT !.told = @ \cup exits(w, D, c)]]
           u == [w EXCEPT !.users = U]
           K == {k \in 1..NCONNS : /\ w.top.conns[k].fd >= 0 /\ Deaf(w, w.top.conns[k].who)
                                   /\ \E i \in D : tells(w, i, k)}
<1>0. w \in Worlds /\ w.users \in [Clients -> User] /\ w.procs \in [Slots -> Proc]
  BY Fields, Zenon DEF Good, Core
<1>1. v = close_conns(u, K)
  BY Zenon DEF notify_exit
<1>2. \A c \in Clients : U[c] \in User /\ U[c].holds = w.users[c].holds
  <2> SUFFICES ASSUME NEW c \in Clients
               PROVE  LET x == [w.users[c] EXCEPT !.told = @ \cup exits(w, D, c)] IN
                      x \in User /\ x.holds = w.users[c].holds
    BY Zenon
  <2>1. \A i \in D : w.procs[i].tty \in 0..STARTS
    BY <1>0, Zenon DEF Proc
  <2>2. exits(w, D, c) \subseteq 0..STARTS
    BY <2>1, Zenon DEF exits
  <2>3. w.users[c] \in User
    BY <1>0, Zenon
  <2> QED BY <2>2, <2>3, Zenon DEF User
<1>3. U \in [Clients -> User]
  BY <1>2, Zenon
<1>4. \A c \in Clients : U[c].holds \subseteq w.users[c].holds
  BY <1>2, Zenon
<1>5. K \in SUBSET (1..NCONNS) /\ \A k \in K : w.top.conns[k].fd >= 0
  BY Zenon
<1> HIDE DEF U, K
<1>6. u = [w EXCEPT !.users = U]
  BY Zenon
<1> HIDE DEF u
<1>7. Good(u) /\ u.procs = w.procs /\ u.top = w.top /\ u.kids = w.kids
  BY <1>3, <1>4, <1>6, SetUsers
<1>8. \A k \in K : open(u, k)
  BY <1>5, <1>7, Zenon DEF open
<1>9. CutFrom(u, v)
  BY <1>1, <1>5, <1>7, <1>8, CloseConns, Zenon
<1> QED BY <1>7, <1>9, Zenon DEF CutFrom

\* An entry whose connection may have been closed.
LEMMA CutOff ==
  ASSUME NEW p \in Proc, NEW q, q = p \/ q = [p EXCEPT !.cfd = -1]
  PROVE  q.xid = p.xid /\ q.pid = p.pid /\ q.tty = p.tty /\ q.mfd = p.mfd /\ q.buf = p.buf
  BY Zenon DEF Proc

LEMMA Collect ==
  ASSUME Setting, NEW w, Good(w), NEW C \in SUBSET w.kids, NEW v, v = collect(w, C)
  PROVE  Good(v) /\ Ends(w, v)
<1> DEFINE D == ended(w, C)
           ok == {i \in ended(w, {k \in C : k.st = "ok"}) : ~w.procs[i].buf}
           x == [w EXCEPT !.kids = @ \ C]
           u == notify_exit(x, D)
           P == [i \in Slots |-> IF i \in ok THEN NoProc
                                 ELSE IF i \in D THEN [u.procs[i] EXCEPT !.pid = -1] ELSE u.procs[i]]
<1>0. w \in Worlds /\ w.procs \in [Slots -> Proc] /\ w.kids \subseteq Kid
  BY Fields, Zenon DEF Good, Core
<1>1. v = [u EXCEPT !.procs = P]
  BY Zenon DEF collect
<1>2. Good(x) /\ x.procs = w.procs
  <2>1. x \in Worlds /\ x.procs = w.procs /\ x.ttys = w.ttys /\ x.users = w.users /\ x.top = w.top
    BY <1>0, Zenon DEF Worlds
  <2>2. Sized(x)
    BY <2>1, Zenon DEF Good, Core, Sized
  <2> HIDE DEF x
  <2> QED BY <2>1, <2>2, SameGood, Zenon
<1>3. D \in SUBSET Slots /\ ok \subseteq D
  BY Zenon DEF ended
<1>4. \A i \in D : w.procs[i].pid > 0
  <2> SUFFICES ASSUME NEW i \in D PROVE w.procs[i].pid > 0
    BY Zenon
  <2>1. PICK k \in C : k.pid = w.procs[i].pid
    BY Zenon DEF ended
  <2>2. k.pid \in 1..PIDS /\ PIDS \in Nat
    BY <1>0, Sizes, Zenon DEF Kid
  <2> QED BY <2>1, <2>2
<1>u. u = notify_exit(x, D)
  BY Zenon
<1> HIDE DEF D, ok, x, u
<1>5. Good(u) /\ \A i \in Slots : u.procs[i] = w.procs[i] \/ u.procs[i] = [w.procs[i] EXCEPT !.cfd = -1]
  <2>1. CutFrom(x, u)
    BY <1>2, <1>3, <1>u, NotifyExit, Zenon
  <2> QED BY <1>2, <2>1, Zenon DEF CutFrom
<1>6. u \in Worlds /\ u.procs \in [Slots -> Proc]
  BY <1>5, Fields, Zenon DEF Good, Core
<1>7. \A i \in Slots : P[i] = IF i \in ok THEN NoProc ELSE IF i \in D THEN [u.procs[i] EXCEPT !.pid = -1] ELSE u.procs[i]
  BY Zenon
<1>8. \A i \in Slots : [u.procs[i] EXCEPT !.pid = -1] \in Proc
  <2>1. -1 \in -1..PIDS
    BY Sizes
  <2> SUFFICES ASSUME NEW i \in Slots, NEW p \in Proc PROVE [p EXCEPT !.pid = -1] \in Proc
    BY <1>6, Zenon
  <2> QED BY <2>1, Zenon DEF Proc
<1>9. P \in [Slots -> Proc]
  BY <1>6, <1>8, Empties, Zenon
<1> HIDE DEF P
<1>10. v \in Worlds /\ v.procs = P /\ v.top = u.top /\ v.ttys = u.ttys /\ v.users = u.users
  BY <1>1, <1>6, <1>9, Zenon DEF Worlds
<1>11. \A i \in Slots : /\ u.procs[i].xid = w.procs[i].xid /\ u.procs[i].pid = w.procs[i].pid
                        /\ i \in D => u.procs[i].xid # 0
  <2> SUFFICES ASSUME NEW i \in Slots
               PROVE  /\ u.procs[i].xid = w.procs[i].xid /\ u.procs[i].pid = w.procs[i].pid
                      /\ i \in D => u.procs[i].xid # 0
    BY Zenon
  <2>1. u.procs[i].xid = w.procs[i].xid /\ u.procs[i].pid = w.procs[i].pid
    BY <1>0, <1>5, CutOff, Zenon
  <2>2. w.procs[i].pid > 0 => w.procs[i].xid # 0
    BY DEF Good, Core, Filled
  <2> QED BY <1>4, <2>1, <2>2, Zenon
<1>12. \A i \in Slots : \/ i \in D /\ Cleared(v.procs[i])
                        \/ i \in D /\ Like(u.procs[i], v.procs[i]) /\ v.procs[i].pid = -1
                        \/ v.procs[i] = u.procs[i]
  <2> SUFFICES ASSUME NEW i \in Slots
               PROVE  \/ i \in D /\ Cleared(v.procs[i])
                      \/ i \in D /\ Like(u.procs[i], v.procs[i]) /\ v.procs[i].pid = -1
                      \/ v.procs[i] = u.procs[i]
    BY Zenon
  <2>1. CASE i \in ok
    <3>1. i \in D /\ v.procs[i] = NoProc
      BY <1>3, <1>7, <1>10, <2>1, Zenon
    <3>2. Cleared(NoProc)
      BY Zenon DEF Cleared, NoProc
    <3> QED BY <3>1, <3>2, Zenon
  <2>2. CASE i \notin ok /\ i \in D
    <3>1. v.procs[i] = [u.procs[i] EXCEPT !.pid = -1] /\ u.procs[i] \in Proc /\ u.procs[i].xid # 0
      BY <1>6, <1>7, <1>10, <1>11, <2>2, Zenon
    <3> QED BY <2>2, <3>1, Zenon DEF Like, Proc
  <2>3. CASE i \notin ok /\ i \notin D
    BY <1>7, <1>10, <2>3, Zenon
  <2> QED BY <2>1, <2>2, <2>3, Zenon
<1>13. Good(v)
  <2>1. \A i \in Slots : Like(u.procs[i], v.procs[i]) \/ Cleared(v.procs[i])
    BY <1>12, Zenon DEF Like
  <2> QED BY <1>5, <1>10, <2>1, LikeGood, Zenon
<1>14. Ends(w, v)
  <2> SUFFICES ASSUME NEW i \in Slots
               PROVE  Kept(w.procs[i], v.procs[i]) \/ Over(w.procs[i], v.procs[i])
    BY Zenon DEF Ends
  <2> QED BY <1>4, <1>11, <1>12 DEF Kept, Over, Like, Cleared
<1> QED BY <1>13, <1>14, Zenon

LEMMA CheckChildren ==
  ASSUME Setting, NEW w, Good(w), NEW C \in SUBSET w.kids, NEW v, v = check_children(w, C)
  PROVE  Good(v) /\ Ends(w, v)
<1> DEFINE u == collect(w, C)
<1>1. Good(u) /\ Ends(w, u)
  BY Collect, Zenon
<1>2. v = u \/ v = update_proc_counts(u)
  BY Zenon DEF check_children
<1> HIDE DEF u
<1>3. CASE v = u
  BY <1>1, <1>3, Zenon
<1>4. CASE v = update_proc_counts(u)
  <2>1. u \in Worlds
    BY <1>1, Zenon DEF Good, Core
  <2>2. Good(v) /\ v.procs = u.procs
    BY <1>1, <1>4, <2>1, Recount, Zenon
  <2> QED BY <1>1, <2>2, Zenon DEF Ends
<1> QED BY <1>2, <1>3, <1>4, Zenon

-----------------------------------------------------------------------------
(* Commands *)

LEMMA FlushProc ==
  ASSUME Setting, NEW w, Good(w), NEW i \in Slots, w.procs[i].xid # 0, NEW v, v = flush_proc(w, i)
  PROVE  Good(v) /\ Ends(w, v) /\ v.top.conns = w.top.conns
<1>0. w \in Worlds /\ w.procs[i] \in Proc
  BY Fields, Zenon DEF Good, Core
<1>1. CASE w.procs[i].pid <= 0
  <2> DEFINE u == wipe_procs(w, {i})
  <2>0. v = update_proc_counts(u)
    BY <1>1, Zenon DEF flush_proc
  <2>1. u \in Worlds /\ Good(u) /\ u.top = w.top /\ \A j \in Slots : u.procs[j] = IF j \in {i} THEN NoProc ELSE w.procs[j]
    BY <1>0, Wipe
  <2> HIDE DEF u
  <2>2. Good(v) /\ v.procs = u.procs /\ v.top.conns = w.top.conns
    BY <2>0, <2>1, Recount
  <2>3. Ends(w, v)
    BY <1>1, <2>1, <2>2 DEF Ends, Kept, Forgot, NoProc
  <2> QED BY <2>2, <2>3, Zenon
<1>2. CASE ~(w.procs[i].pid <= 0)
  <2> DEFINE q == [w.procs[i] EXCEPT !.buf = FALSE]
  <2>1. q \in Proc /\ Like(w.procs[i], q) /\ Kept(w.procs[i], q)
    BY <1>0, Zenon DEF Proc, Like, Kept
  <2>2. v = [w EXCEPT !.procs[i] = q]
    BY <1>2, Zenon DEF flush_proc
  <2> HIDE DEF q
  <2>3. Good(v) /\ Replaced(w, v, i, q)
    BY <2>1, <2>2, SetEntry, Zenon
  <2>4. Ends(w, v)
    BY <2>1, <2>3, Zenon DEF Ends, Kept, Replaced
  <2> QED BY <2>3, <2>4, Zenon DEF Replaced
<1> QED BY <1>1, <1>2, Zenon

LEMMA FlushDead ==
  ASSUME Setting, NEW w, Good(w), NEW v, v = flush_dead_procs(w)
  PROVE  Good(v) /\ Ends(w, v) /\ v.top.conns = w.top.conns
<1> DEFINE D == {i \in Slots : stale(w.procs[i])}
           u == wipe_procs(w, D)
<1>0. w \in Worlds
  BY Zenon DEF Good, Core
<1>1. v = update_proc_counts(u)
  BY Zenon DEF flush_dead_procs
<1>2. u \in Worlds /\ Good(u) /\ u.top = w.top /\ \A j \in Slots : u.procs[j] = IF j \in D THEN NoProc ELSE w.procs[j]
  BY <1>0, Wipe
<1> HIDE DEF u
<1>3. Good(v) /\ v.procs = u.procs /\ v.top.conns = w.top.conns
  BY <1>1, <1>2, Recount
<1>4. Ends(w, v)
  BY <1>2, <1>3 DEF Ends, Kept, Forgot, NoProc, stale
<1> QED BY <1>3, <1>4, Zenon

LEMMA FindProc ==
  ASSUME Setting, NEW w, NEW x, x # 0, NEW i, i = lowest(find_proc(w, x)), find_proc(w, x) # {}
  PROVE  i \in Slots /\ w.procs[i].xid = x /\ w.procs[i].xid # 0
<1>1. find_proc(w, x) \in SUBSET Nat
  BY Sizes DEF find_proc
<1>2. i \in find_proc(w, x)
  BY <1>1, LowestIn, Zenon
<1> QED BY <1>2, Zenon DEF find_proc

\* all other entries are owned
OthersOwned(w, i) == \A j \in Slots : j # i /\ w.procs[j].xid # 0 => w.procs[j].cfd # 0

\* T differs in the terminal of the entry i, which is not polled
Unpolled(w, i, T) ==
  /\ \A t \in 1..STARTS : t # w.procs[i].mfd => T[t] = w.ttys[t]
  /\ w.procs[i].mfd > 0 => T[w.procs[i].mfd].out = 0

KeptAll(w, v) == \A j \in Slots : Kept(w.procs[j], v.procs[j])

Given(w, v, i, k) ==
  /\ Good(v) /\ v.top = w.top /\ v.users = w.users /\ KeptAll(w, v)
  /\ v.procs[i].cfd = v.top.conns[k].fd /\ v.procs[i].xid # 0

give(w, i, k, T) == [w EXCEPT !.procs[i].cfd = w.top.conns[k].fd, !.ttys = T]

\* An entry nobody has is given to a connection, and is not polled.
LEMMA Give ==
  ASSUME Setting, NEW w, Core(w), Named(w), NEW i \in Slots, w.procs[i].xid # 0, ~(w.procs[i].cfd > 0),
         OthersOwned(w, i), NEW k \in 1..NCONNS, open(w, k),
         NEW T \in [1..STARTS -> Tty], Unpolled(w, i, T),
         NEW v, v = give(w, i, k, T)
  PROVE  Given(w, v, i, k)
<1> DEFINE f == w.top.conns[k].fd
           q == [w.procs[i] EXCEPT !.cfd = f]
           P == [w.procs EXCEPT ![i] = q]
<1>0. w \in Worlds /\ w.procs \in [Slots -> Proc] /\ w.procs[i] \in Proc
  BY Fields, Zenon DEF Core
<1>1. f \in Fds /\ f > 0
  BY OpenConn, Zenon
<1>2. v = [w EXCEPT !.procs = P, !.ttys = T]
  BY <1>0, Zenon DEF Worlds, give
<1> USE DEF Unpolled
<1> HIDE DEF f
<1>3. /\ q \in Proc /\ q.xid = w.procs[i].xid /\ q.pid = w.procs[i].pid /\ q.tty = w.procs[i].tty
      /\ q.mfd = w.procs[i].mfd /\ q.cfd = f
  BY <1>0, <1>1, Zenon DEF Proc
<1> HIDE DEF q
<1>4. P \in [Slots -> Proc] /\ \A j \in Slots : P[j] = IF j = i THEN q ELSE w.procs[j]
  BY <1>0, <1>3, Zenon
<1> HIDE DEF P
<1>5. v \in Worlds /\ v.procs = P /\ v.ttys = T /\ v.top = w.top /\ v.users = w.users
  BY <1>0, <1>2, <1>4, Zenon DEF Worlds
<1>6. \A j \in Slots : /\ P[j].xid = w.procs[j].xid /\ P[j].pid = w.procs[j].pid /\ P[j].tty = w.procs[j].tty
                       /\ P[j].mfd = w.procs[j].mfd /\ P[j].cfd = IF j = i THEN f ELSE w.procs[j].cfd
  BY <1>3, <1>4, Zenon
<1>7. Filled(v) /\ Sized(v) /\ Distinct(v) /\ Owned(v)
  <2>1. Filled(v) /\ Sized(v)
    <3>1. Filled(w) /\ Sized(w)
      BY Zenon DEF Core
    <3>2. Filled(v)
      BY <1>5, <1>6, <3>1 DEF Filled
    <3> QED BY <1>5, <1>6, <3>1, <3>2, Zenon DEF Sized
  <2>2. Distinct(v)
    <3>1. Distinct(w)
      BY Zenon DEF Core
    <3> QED BY <1>5, <1>6, <3>1 DEF Distinct
  <2>3. Owned(v)
    <3> SUFFICES ASSUME NEW j \in Slots, w.procs[j].xid # 0 PROVE P[j].cfd # 0
      BY <1>5, <1>6, Zenon DEF Owned
    <3>1. CASE j = i
      BY <1>1, <1>6, <3>1, SMTT(30)
    <3>2. CASE j # i
      BY <1>6, <3>2, Zenon DEF OthersOwned
    <3> QED BY <3>1, <3>2, Zenon
  <2> QED BY <2>1, <2>2, <2>3, Zenon
<1>8. Polls(v)
  <2> SUFFICES ASSUME NEW j \in Slots, P[j].mfd > 0
               PROVE  /\ P[j].cfd > 0 => T[P[j].mfd].out = 0
                      /\ P[j].cfd = -1 => T[P[j].mfd].out = j
    BY <1>5, Zenon DEF Polls
  <2>1. CASE j = i
    BY <1>1, <1>6, <2>1, SMTT(30)
  <2>2. CASE j # i
    <3>1. P[j].mfd = w.procs[j].mfd /\ P[j].cfd = w.procs[j].cfd
      BY <1>6, <2>2, Zenon
    <3>2. w.procs[j].mfd \in 1..STARTS /\ w.procs[j].mfd # w.procs[i].mfd
      BY <2>2, <3>1, OwnTty
    <3>3. T[P[j].mfd] = w.ttys[w.procs[j].mfd]
      BY <3>1, <3>2, Zenon
    <3> QED BY <3>1, <3>3, Zenon DEF Core, Polls
  <2> QED BY <2>1, <2>2, Zenon
<1>9. Conns(v) /\ Opened(v)
  <2>1. Conns(v)
    BY <1>5, SameConns, Zenon
  <2> QED BY <1>5, <2>1, Zenon DEF Core, Opened
<1>10. Named(v)
  BY <1>5, <1>6 DEF Named, f
<1>11. Held(v)
  <2> SUFFICES ASSUME NEW c \in Clients, NEW j \in Slots, v.procs[j].xid # 0, v.procs[j].tty \in v.users[c].holds
               PROVE  \E l \in 1..NCONNS : open(v, l) /\ v.top.conns[l].fd = v.procs[j].cfd /\ v.top.conns[l].who = c
    BY Zenon DEF Held
  <2>0. w.procs[j].xid # 0 /\ w.procs[j].tty \in w.users[c].holds
    BY <1>5, <1>6, Zenon
  <2>1. PICK l \in 1..NCONNS : open(w, l) /\ w.top.conns[l].fd = w.procs[j].cfd /\ w.top.conns[l].who = c
    BY <2>0, Zenon DEF Core, Held
  <2>2. j # i
    BY <2>1, OpenConn, Zenon
  <2> QED BY <1>5, <1>6, <2>1, <2>2, Zenon DEF open
<1>12. KeptAll(w, v)
  BY <1>5, <1>6, Zenon DEF KeptAll, Kept
<1>13. Good(v)
  BY <1>5, <1>7, <1>8, <1>9, <1>10, <1>11, Zenon DEF Good, Core
<1>14. v.procs[i].cfd = v.top.conns[k].fd /\ v.procs[i].xid # 0
  BY <1>5, <1>6, Zenon DEF f
<1> QED BY <1>5, <1>12, <1>13, <1>14, Zenon DEF Given

\* The client of the connection that has an entry gets its terminal.
LEMMA ReplyStart ==
  ASSUME Setting, NEW w, Good(w), NEW i \in Slots, w.procs[i].xid # 0,
         NEW k \in 1..NCONNS, open(w, k), w.procs[i].cfd = w.top.conns[k].fd,
         NEW v, v = reply_start(w, k, i)
  PROVE  Good(v) /\ v.procs = w.procs /\ v.top = w.top
<1> DEFINE c == w.top.conns[k].who
           m == w.procs[i].mfd
           x == [w.users[c] EXCEPT !.holds = @ \cup {m}]
           U == [w.users EXCEPT ![c] = x]
<1>0. w \in Worlds /\ Core(w) /\ w.users \in [Clients -> User]
  BY Fields, Zenon DEF Good, Core
<1>1. CASE Deaf(w, c) \/ m <= 0
  BY <1>1, Zenon DEF reply_start
<1>2. CASE ~(Deaf(w, c) \/ m <= 0)
  <2>1. c \in Clients
    BY <1>0, OpenConn, Zenon
  <2>2. m \in 1..STARTS /\ m = w.procs[i].tty /\ \A j \in Slots : w.procs[j].xid # 0 /\ w.procs[j].tty = m => j = i
    <3>1. m \in -1..STARTS /\ STARTS \in Nat
      BY <1>0, OwnTty, Sizes, Zenon
    <3>2. m > 0
      BY <1>2, <3>1
    <3>3. m \in 1..STARTS /\ m = w.procs[i].tty
      BY <1>0, <3>2, OwnTty, Zenon
    <3> QED BY <1>0, <3>3, Zenon DEF Core, Distinct
  <2>3. m \in 1..w.top.starts
    BY <1>0, <2>2, Zenon DEF Core, Filled
  <2>4. v = [w EXCEPT !.users = U]
    BY <1>0, <1>2, Zenon DEF reply_start, Worlds
  <2> HIDE DEF c, m
  <2>5. x \in User /\ x.holds = w.users[c].holds \cup {m}
    <3>1. w.users[c] \in User
      BY <1>0, <2>1, Zenon
    <3> QED BY <2>2, <3>1, Zenon DEF User
  <2> HIDE DEF x
  <2>6. U \in [Clients -> User] /\ \A d \in Clients : U[d] = IF d = c THEN x ELSE w.users[d]
    BY <1>0, <2>1, <2>5, Zenon
  <2> HIDE DEF U
  <2>7. v \in Worlds /\ v.procs = w.procs /\ v.ttys = w.ttys /\ v.top = w.top /\ v.users = U
    BY <1>0, <2>4, <2>6, Zenon DEF Worlds
  <2>8. Filled(v) /\ Sized(v) /\ Distinct(v) /\ Owned(v) /\ Polls(v) /\ Conns(v) /\ Named(v)
    <3>1. Filled(v) /\ Sized(v) /\ Distinct(v) /\ Owned(v) /\ Polls(v)
      BY <2>7, SameTable, Zenon
    <3>2. Conns(v) /\ Named(v)
      <4>1. Conns(v)
        BY <2>7, SameConns, Zenon DEF Good
      <4> QED BY <2>7, <4>1, Zenon DEF Good, Named
    <3> QED BY <3>1, <3>2, Zenon
  <2>9. Opened(v)
    BY <1>0, <2>3, <2>5, <2>6, <2>7, SMTT(30) DEF Core, Opened
  <2>10. Held(v)
    <3> SUFFICES ASSUME NEW d \in Clients, NEW j \in Slots, w.procs[j].xid # 0, w.procs[j].tty \in U[d].holds
                 PROVE  \E l \in 1..NCONNS : open(w, l) /\ w.top.conns[l].fd = w.procs[j].cfd /\ w.top.conns[l].who = d
      BY <2>7 DEF Held, open
    <3>1. CASE w.procs[j].tty \in w.users[d].holds
      BY <1>0, <3>1, Zenon DEF Core, Held
    <3>2. CASE w.procs[j].tty \notin w.users[d].holds
      <4>1. d = c /\ w.procs[j].tty = m
        BY <2>5, <2>6, <3>2, Zenon
      <4>2. j = i
        BY <2>2, <4>1, Zenon
      <4> QED BY <4>1, <4>2, Zenon DEF c
    <3> QED BY <3>1, <3>2, Zenon
  <2> QED BY <2>7, <2>8, <2>9, <2>10, Zenon DEF Good, Core
<1> QED BY <1>1, <1>2, Zenon

LEMMA PickXid ==
  ASSUME Setting, NEW w \in Worlds, NEW y, y = pick_unused_xid(w)
  PROVE  y \in 0..MaxXid /\ (y # 0 => \A j \in Slots : w.procs[j].xid # y)
<1> DEFINE x == w.top.lastxid + 1
           z == IF x > XIDS /\ x > 2 * w.top.nonempty THEN 1 ELSE x
<1>1. w.top.lastxid \in 0..MaxXid /\ w.top.nonempty \in 0..NPROCS
  BY Fields, Zenon
<1>2. z \in 1..MaxXid
  <2>a. MaxXid \in Nat /\ XIDS \in Nat /\ XIDS > 0 /\ MaxXid >= XIDS /\ NPROCS \in Nat /\ MaxXid >= 2 * NPROCS
    BY Sizes, Zenon
  <2>0. x \in 1..MaxXid + 1 /\ MaxXid \in Nat /\ MaxXid >= 1 /\ XIDS \in Nat
    BY <1>1, <2>a
  <2>1. x <= XIDS => x <= MaxXid
    BY <2>0, <2>a
  <2>2. x <= 2 * w.top.nonempty => x <= MaxXid
    <3>1. \A a, b \in Nat : a <= b => 2 * a <= 2 * b
      OBVIOUS
    <3>2. 2 * w.top.nonempty <= 2 * NPROCS /\ 2 * NPROCS \in Nat
      BY <1>1, <2>a, <3>1
    <3>3. \A a, b, c, d \in Nat : a <= b /\ b <= c /\ c <= d => a <= d
      OBVIOUS
    <3>4. MaxXid >= 2 * NPROCS /\ 2 * w.top.nonempty \in Nat
      BY <1>1, <2>a
    <3> QED BY <2>0, <3>2, <3>3, <3>4
  <2>3. 2 * w.top.nonempty \in Nat
    BY <1>1, <2>a
  <2> HIDE DEF x
  <2> QED BY <2>0, <2>1, <2>2, <2>3
<1>3. y = IF find_proc(w, z) # {} THEN 0 ELSE z
  BY Zenon DEF pick_unused_xid
<1> HIDE DEF z
<1>4. y \in 0..MaxXid
  BY <1>2, <1>3, Sizes
<1>5. y # 0 => \A j \in Slots : w.procs[j].xid # y
  BY <1>3, Zenon DEF find_proc
<1> QED BY <1>4, <1>5, Zenon

LEMMA Grab ==
  ASSUME Setting, NEW w, Good(w), NEW i, i = grab_proc(w)
  PROVE  i \in Nat /\ (i \in Slots => w.procs[i].xid = 0)
<1> DEFINE n == w.top.nprocs
           A == {j \in 1..n : w.procs[j].xid = 0} \cup {n + 1}
<1>1. n \in 0..NPROCS /\ NPROCS \in Nat
  BY Fields, Sizes, Zenon DEF Good, Core
<1>2. A \in SUBSET Nat /\ A # {}
  BY <1>1
<1>3. i = lowest(A)
  BY Zenon DEF grab_proc
<1>4. i \in A
  BY <1>2, <1>3, LowestIn, Zenon
<1>5. i \in Slots => w.procs[i].xid = 0
  <2> SUFFICES ASSUME i \in Slots, i = n + 1 PROVE w.procs[i].xid = 0
    BY <1>4, Zenon
  <2> QED BY <1>1 DEF Good, Core, Sized
<1> QED BY <1>2, <1>4, <1>5, Zenon

Unheld(w, i) == \A c \in Clients : w.procs[i].tty \notin w.users[c].holds

\* An entry for an application just started, which nobody has yet.
Fresh(v, i) ==
  /\ Core(v) /\ Named(v) /\ i \in Slots
  /\ v.procs[i].xid = v.top.lastxid /\ v.procs[i].xid # 0 /\ v.procs[i].cfd = 0
  /\ v.procs[i].mfd \in 1..STARTS /\ v.ttys[v.procs[i].mfd].out = 0
  /\ Unheld(v, i) /\ OthersOwned(v, i)

LEMMA SpawnProc ==
  ASSUME Setting, NEW w, Good(w), NEW i \in Slots, w.procs[i].xid = 0,
         w.top.lastxid # 0, \A j \in Slots : w.procs[j].xid # w.top.lastxid,
         w.top.starts < STARTS, free_pid(w) # {}, NEW name \in Names,
         NEW v, v = spawn_proc(w, i, name)
  PROVE  Fresh(v, i) /\ Begins(w, v) /\ v.top.conns = w.top.conns /\ v.users = w.users
<1> DEFINE t   == w.top.starts + 1
           pid == lowest(free_pid(w))
           p   == [xid |-> w.top.lastxid, pid |-> pid, tty |-> t, mfd |-> t, efd |-> t, cfd |-> 0,
                   name |-> name, buf |-> FALSE]
           s   == [out |-> 0, err |-> i]
           h   == [w.top EXCEPT !.starts = t]
           P   == [w.procs EXCEPT ![i] = p]
           T   == [w.ttys EXCEPT ![t] = s]
           K   == w.kids \cup {[pid |-> pid, tty |-> t, st |-> "runs"]}
           x   == [w EXCEPT !.top = h, !.procs = P, !.ttys = T, !.kids = K]
           D   == {j \in Slots \ {i} : stale(x.procs[j]) /\ x.procs[j].name = x.procs[i].name}
           y   == wipe_procs(x, D)
<1>0. /\ w \in Worlds /\ Core(w) /\ w.procs \in [Slots -> Proc] /\ w.ttys \in [1..STARTS -> Tty]
      /\ w.top \in Top /\ w.kids \in SUBSET Kid /\ w.top.lastxid \in 0..MaxXid /\ w.top.starts \in 0..STARTS
  BY Fields, Zenon DEF Good, Core
<1>1. t \in 1..STARTS /\ w.top.starts \in Nat /\ STARTS \in Nat
  BY <1>0 DEF Setting
<1>2. pid \in 1..PIDS
  <2>1. free_pid(w) \in SUBSET Nat /\ free_pid(w) \subseteq 1..PIDS
    BY Sizes DEF free_pid
  <2>2. pid \in free_pid(w)
    BY <2>1, LowestIn, Zenon
  <2> QED BY <2>1, <2>2, Zenon
<1>3. v = update_proc_counts(y)
  <2>1. x = [w EXCEPT !.top.starts = t, !.procs[i] = p, !.ttys[t] = s, !.kids = K]
    BY <1>0, Zenon DEF Worlds
  <2>2. v = update_proc_counts(wipe_stale_entries([w EXCEPT !.top.starts = t, !.procs[i] = p, !.ttys[t] = s, !.kids = K], i))
    BY <1>0, Zenon DEF spawn_proc, Worlds
  <2> HIDE DEF x
  <2>3. v = update_proc_counts(wipe_stale_entries(x, i))
    BY <2>1, <2>2, Zenon
  <2> QED BY <2>3, Zenon DEF wipe_stale_entries
<1> HIDE DEF pid, t
<1>4. p \in Proc /\ p.xid = w.top.lastxid /\ p.pid = pid /\ p.tty = t /\ p.mfd = t /\ p.cfd = 0
  <2>1. t \in 0..STARTS /\ t \in -1..STARTS /\ pid \in -1..PIDS
    BY <1>1, <1>2, Sizes
  <2> QED BY <1>0, <2>1, Zenon DEF Proc
<1>5. s \in Tty /\ s.out = 0
  <2>1. 0 \in -1..NPROCS /\ i \in -1..NPROCS
    BY Sizes
  <2> QED BY <2>1, Zenon DEF Tty
<1>6. h \in Top /\ h.starts = t /\ h.conns = w.top.conns /\ h.ctlfd = w.top.ctlfd /\ h.lastxid = w.top.lastxid
  <2>1. t \in 0..STARTS
    BY <1>1
  <2> QED BY <1>0, <2>1, Zenon DEF Top
<1>7. K \in SUBSET Kid
  BY <1>0, <1>1, <1>2, SMTT(30) DEF Kid
<1> HIDE DEF p, s, h, K
<1>8. P \in [Slots -> Proc] /\ \A j \in Slots : P[j] = IF j = i THEN p ELSE w.procs[j]
  BY <1>0, <1>4, Zenon
<1>9. T \in [1..STARTS -> Tty] /\ T[t] = s /\ \A r \in 1..STARTS : r # t => T[r] = w.ttys[r]
  BY <1>0, <1>1, <1>5, Zenon
<1> HIDE DEF P, T
<1>10. x \in Worlds /\ x.top = h /\ x.procs = P /\ x.ttys = T /\ x.users = w.users
  BY <1>0, <1>6, <1>7, <1>8, <1>9, Zenon DEF Worlds
<1>11. D \subseteq {j \in Slots \ {i} : stale(w.procs[j])}
  BY <1>8, <1>10, Zenon
<1>y. y = wipe_procs(x, D)
  BY Zenon
<1> HIDE DEF x, D, y
<1>12. /\ y \in Worlds /\ y.top = h /\ y.ttys = T /\ y.users = w.users
       /\ \A j \in Slots : y.procs[j] = IF j \in D THEN NoProc ELSE P[j]
  BY <1>10, <1>y, Wipe, SMTT(30)
<1>13. /\ v \in Worlds /\ Sized(v) /\ v.procs = y.procs /\ v.ttys = T /\ v.users = w.users
       /\ v.top.conns = w.top.conns /\ v.top.ctlfd = w.top.ctlfd /\ v.top.starts = t
       /\ v.top.lastxid = w.top.lastxid
  BY <1>3, <1>6, <1>12, Recount, SMTT(30)
<1>14. /\ v.procs[i] = p
       /\ \A j \in Slots \ {i} : v.procs[j] = w.procs[j] \/ (stale(w.procs[j]) /\ Cleared(v.procs[j]))
  <2>1. Cleared(NoProc)
    BY Zenon DEF Cleared, NoProc
  <2> QED BY <1>8, <1>11, <1>12, <1>13, <2>1, SMTT(30)
<1>15. Core(v) /\ Named(v)
  <2>1. Filled(v)
    <3> SUFFICES ASSUME NEW j \in Slots
                 PROVE  LET q == v.procs[j] IN
                        IF q.xid = 0 THEN q.pid = 0 /\ q.tty = 0 /\ q.mfd = 0 /\ q.cfd = 0
                        ELSE q.pid # 0 /\ q.tty \in 1..v.top.starts /\ q.mfd \in {-1, q.tty}
      BY Zenon DEF Filled
    <3>1. CASE j = i
      BY <1>1, <1>2, <1>4, <1>13, <1>14, <3>1, SMTT(30)
    <3>2. CASE j # i /\ v.procs[j] = w.procs[j]
      <4>1. w.procs[j].tty \in 1..w.top.starts => w.procs[j].tty \in 1..t
        BY <1>1 DEF t
      <4> QED BY <1>0, <1>13, <3>2, <4>1, SMTT(30) DEF Core, Filled
    <3>3. CASE j # i /\ Cleared(v.procs[j])
      BY <3>3, Zenon DEF Cleared
    <3> QED BY <1>14, <3>1, <3>2, <3>3, Zenon
  <2>2. \A j \in Slots \ {i} : v.procs[j].tty # t /\ v.procs[j].xid # w.top.lastxid /\ v.procs[j].mfd # t
    <3> SUFFICES ASSUME NEW j \in Slots \ {i}
                 PROVE  v.procs[j].tty # t /\ v.procs[j].xid # w.top.lastxid /\ v.procs[j].mfd # t
      BY Zenon
    <3>1. CASE v.procs[j] = w.procs[j]
      <4>1. w.procs[j].tty \in 0..w.top.starts /\ w.procs[j].mfd \in {-1, 0, w.procs[j].tty}
        BY <1>0, <1>1 DEF Core, Filled
      <4>2. t = w.top.starts + 1
        BY Zenon DEF t
      <4> QED BY <1>1, <3>1, <4>1, <4>2, SMTT(30)
    <3>2. CASE Cleared(v.procs[j])
      BY <1>1, <3>2 DEF Cleared
    <3> QED BY <1>14, <3>1, <3>2, Zenon
  <2>3. Distinct(v)
    <3> SUFFICES ASSUME NEW j \in Slots, NEW l \in Slots, j # l, v.procs[j].xid # 0
                 PROVE  v.procs[j].xid # v.procs[l].xid /\ v.procs[j].tty # v.procs[l].tty
      BY Zenon DEF Distinct
    <3>1. CASE j = i
      BY <1>4, <1>14, <2>2, <3>1, SMTT(30)
    <3>2. CASE l = i
      BY <1>4, <1>14, <2>2, <3>2, Zenon
    <3>3. CASE j # i /\ l # i
      <4>1. v.procs[j] = w.procs[j]
        BY <1>14, <3>3, Zenon DEF Cleared
      <4>2. CASE v.procs[l] = w.procs[l]
        BY <1>0, <4>1, <4>2, Zenon DEF Core, Distinct
      <4>3. CASE Cleared(v.procs[l])
        <5>1. w.procs[j].tty \in 1..w.top.starts
          BY <1>0, <4>1, Zenon DEF Core, Filled
        <5> QED BY <1>1, <4>1, <4>3, <5>1, SMTT(30) DEF Cleared
      <4> QED BY <1>14, <3>3, <4>2, <4>3, Zenon
    <3> QED BY <3>1, <3>2, <3>3, Zenon
  <2>4. Polls(v)
    <3> SUFFICES ASSUME NEW j \in Slots, v.procs[j].mfd > 0
                 PROVE  /\ v.procs[j].cfd > 0 => T[v.procs[j].mfd].out = 0
                        /\ v.procs[j].cfd = -1 => T[v.procs[j].mfd].out = j
      BY <1>13, Zenon DEF Polls
    <3>1. CASE j = i
      BY <1>4, <1>14, <3>1
    <3>2. CASE j # i
      <4>1. v.procs[j] = w.procs[j] /\ v.procs[j].mfd # t
        BY <1>14, <2>2, <3>2, SMTT(30) DEF Cleared
      <4>2. w.procs[j].mfd \in 1..STARTS
        BY <1>0, <4>1, OwnTty, Zenon
      <4>3. T[v.procs[j].mfd] = w.ttys[w.procs[j].mfd]
        BY <1>9, <4>1, <4>2, Zenon
      <4> QED BY <1>0, <4>1, <4>3, Zenon DEF Core, Polls
    <3> QED BY <3>1, <3>2, Zenon
  <2>5. Conns(v)
    BY <1>0, <1>13, SameConns, Zenon
  <2>6. Opened(v)
    <3>1. \A c \in Clients : w.users[c].holds \subseteq 1..w.top.starts
      BY <1>0, Zenon DEF Core, Opened
    <3>2. 1..w.top.starts \subseteq 1..t
      BY <1>1 DEF t
    <3> QED BY <1>13, <3>1, <3>2, Zenon DEF Opened
  <2>7. Held(v)
    <3> SUFFICES ASSUME NEW c \in Clients, NEW j \in Slots, v.procs[j].xid # 0, v.procs[j].tty \in w.users[c].holds
                 PROVE  \E k \in 1..NCONNS : open(v, k) /\ v.top.conns[k].fd = v.procs[j].cfd /\ v.top.conns[k].who = c
      BY <1>13, Zenon DEF Held
    <3>1. j # i
      <4>1. w.users[c].holds \subseteq 1..w.top.starts /\ t = w.top.starts + 1
        BY <1>0, Zenon DEF Core, Opened, t
      <4> QED BY <1>1, <1>4, <1>14, <4>1, SMTT(30)
    <3>2. v.procs[j] = w.procs[j]
      BY <1>14, <3>1, Zenon DEF Cleared
    <3>3. PICK k \in 1..NCONNS : open(w, k) /\ w.top.conns[k].fd = w.procs[j].cfd /\ w.top.conns[k].who = c
      BY <1>0, <3>2 DEF Core, Held
    <3> QED BY <1>13, <3>2, <3>3, Zenon DEF open
  <2>8. Named(v)
    <3> SUFFICES ASSUME w.top.ctlfd, NEW j \in Slots, v.procs[j].cfd > 0
                 PROVE  \E k \in 1..NCONNS : w.top.conns[k].fd = v.procs[j].cfd
      BY <1>13 DEF Named
    <3>1. v.procs[j] = w.procs[j]
      BY <1>4, <1>14 DEF Cleared
    <3> QED BY <3>1, Zenon DEF Good, Named
  <2> QED BY <1>13, <2>1, <2>3, <2>4, <2>5, <2>6, <2>7, <2>8, SMTT(30) DEF Core
<1>16. Fresh(v, i)
  <2>1. \A c \in Clients : t \notin v.users[c].holds
    <3>1. \A c \in Clients : w.users[c].holds \subseteq 1..w.top.starts
      BY <1>0, Zenon DEF Core, Opened
    <3>2. t \notin 1..w.top.starts
      BY <1>1 DEF t
    <3> QED BY <1>13, <3>1, <3>2, Zenon
  <2>2. OthersOwned(v, i)
    BY <1>14, Zenon DEF Good, Owned, Cleared, OthersOwned
  <2>3. Unheld(v, i)
    BY <1>4, <1>14, <2>1, Zenon DEF Unheld
  <2> QED BY <1>1, <1>4, <1>5, <1>9, <1>13, <1>14, <1>15, <2>2, <2>3, SMTT(30) DEF Fresh
<1>17. Begins(w, v)
  <2>1. v.procs[i].xid = w.top.lastxid /\ v.procs[i].pid > 0
    BY <1>2, <1>4, <1>14, Sizes, SMTT(30)
  <2>2. \A j \in Slots \ {i} : Kept(w.procs[j], v.procs[j]) \/ Forgot(w.procs[j], v.procs[j])
    BY <1>14, Zenon DEF Kept, Forgot, stale, Cleared
  <2> QED BY <2>1, <2>2, Zenon DEF Begins
<1> QED BY <1>13, <1>16, <1>17, Zenon

\* A start that fails leaves everything in order.
LEMMA SpawnFails ==
  ASSUME Setting, NEW w, Good(w), NEW name \in Names, NEW how, ~spawns(w, how),
         NEW v, v = spawn_child(w, name, how)
  PROVE  Good(v) /\ KeptAll(w, v) /\ v.top.conns = w.top.conns
<1> USE DEF KeptAll
<1> DEFINE y == pick_unused_xid(w)
           i == grab_proc(w)
           s == [w.top EXCEPT !.lastxid = y]
           x == [w EXCEPT !.top = s]
           m == IF i > x.top.nprocs THEN i ELSE x.top.nprocs
           u == [x EXCEPT !.top.nprocs = m, !.procs[i] = NoProc]
<1>0. w \in Worlds /\ w.top \in Top /\ Core(w) /\ w.procs \in [Slots -> Proc]
  BY Fields, Zenon DEF Good, Core
<1>1. y \in 0..MaxXid
  BY <1>0, PickXid, Zenon
<1>2. i \in Nat /\ (i \in Slots => w.procs[i].xid = 0)
  BY Grab, Zenon
<1>3. v = w \/ v = x \/ (i \in Slots /\ v = u)
  <2>1. x = [w EXCEPT !.top.lastxid = y]
    BY <1>0, Zenon DEF Worlds
  <2>2. \/ v = w \/ v = [w EXCEPT !.top.lastxid = y]
        \/ /\ i \in Slots
           /\ v = [[w EXCEPT !.top.lastxid = y] EXCEPT
                     !.top.nprocs = IF i > [w EXCEPT !.top.lastxid = y].top.nprocs THEN i
                                    ELSE [w EXCEPT !.top.lastxid = y].top.nprocs, !.procs[i] = NoProc]
    BY Zenon DEF spawn_child
  <2> HIDE DEF x
  <2>3. v = w \/ v = x \/ (i \in Slots /\ v = [x EXCEPT !.top.nprocs = IF i > x.top.nprocs THEN i ELSE x.top.nprocs, !.procs[i] = NoProc])
    BY <2>1, <2>2
  <2> QED BY <2>3, Zenon
<1> HIDE DEF y, i
<1>4. s \in Top /\ s.nprocs = w.top.nprocs /\ s.conns = w.top.conns /\ s.ctlfd = w.top.ctlfd /\ s.starts = w.top.starts
  BY <1>0, <1>1, Zenon DEF Top
<1> HIDE DEF s
<1>5. Good(x) /\ x.procs = w.procs /\ x.top = s /\ x \in Worlds
  BY <1>4, SetTop DEF Good, Core
<1> HIDE DEF x
<1>6. CASE v = w
  BY <1>6, Zenon DEF Kept
<1>7. CASE v = x
  BY <1>4, <1>5, <1>7, Zenon DEF Kept
<1>8. CASE i \in Slots /\ v = u
  <2> DEFINE z == [x EXCEPT !.procs[i] = NoProc]
             h == [x.top EXCEPT !.nprocs = m]
  <2>1. NoProc \in Proc /\ Cleared(NoProc)
    BY Empties, Zenon DEF NoProc, Cleared
  <2>2. Good(z) /\ Replaced(x, z, i, NoProc) /\ z \in Worlds
    BY <1>5, <1>8, <2>1, SetEntry, Zenon DEF Good, Core
  <2>3. v = [z EXCEPT !.top = h]
    BY <1>5, <1>8, Zenon DEF Worlds
  <2>4. m \in 0..NPROCS /\ m >= x.top.nprocs /\ x.top.nprocs \in 0..NPROCS
    BY <1>2, <1>5, <1>8, Fields, Sizes, SMTT(30)
  <2> HIDE DEF z, m
  <2>5. /\ h \in Top /\ h.nprocs = m /\ h.conns = x.top.conns /\ h.ctlfd = x.top.ctlfd /\ h.starts = x.top.starts
    <3>1. x.top \in Top
      BY <1>5, Fields, Zenon
    <3> QED BY <2>4, <3>1, Zenon DEF Top
  <2> HIDE DEF h
  <2>6. v \in Worlds /\ v.top = h /\ v.procs = z.procs /\ v.ttys = z.ttys /\ v.users = z.users
    BY <2>2, <2>3, <2>5, Zenon DEF Worlds
  <2>7. z.top = x.top /\ \A j \in Slots : z.procs[j] = IF j = i THEN NoProc ELSE x.procs[j]
    BY <2>2, Zenon DEF Replaced
  <2>8. Sized(v)
    <3> SUFFICES ASSUME NEW j \in Slots, j > m PROVE z.procs[j].xid = 0
      BY <2>5, <2>6, Zenon DEF Sized
    <3>1. j > x.top.nprocs
      BY <2>4, Sizes
    <3>2. Sized(z)
      BY <2>2, Zenon DEF Good, Core
    <3> QED BY <2>7, <3>1, <3>2, Zenon DEF Sized
  <2>9. Good(v)
    BY <2>2, <2>5, <2>6, <2>7, <2>8, SameGood, SMTT(30)
  <2>10. \A j \in Slots : Kept(w.procs[j], v.procs[j])
    <3> SUFFICES ASSUME NEW j \in Slots PROVE Kept(w.procs[j], z.procs[j])
      BY <2>6, Zenon
    <3>1. CASE j = i
      <4>1. w.procs[i].xid = 0 /\ w.procs[i].pid = 0
        BY <1>0, <1>2, <1>8, Zenon DEF Core, Filled
      <4> QED BY <2>7, <3>1, <4>1 DEF Kept, NoProc
    <3>2. CASE j # i
      BY <1>5, <2>7, <3>2, Zenon DEF Kept
    <3> QED BY <3>1, <3>2, Zenon
  <2> QED BY <1>4, <1>5, <2>5, <2>6, <2>9, <2>10, Zenon
<1> QED BY <1>3, <1>6, <1>7, <1>8, Zenon

LEMMA Spawned ==
  ASSUME Setting, NEW w, Good(w), NEW name \in Names, NEW how, spawns(w, how), w.top.starts < STARTS,
         NEW v, v = spawn_child(w, name, how), NEW i, i = lowest(find_proc(v, v.top.lastxid))
  PROVE  Fresh(v, i) /\ Begins(w, v) /\ v.top.conns = w.top.conns /\ v.users = w.users
<1> DEFINE y == pick_unused_xid(w)
           g == grab_proc(w)
           s == [w.top EXCEPT !.lastxid = y]
           x == [w EXCEPT !.top = s]
           m == IF g > x.top.nprocs THEN g ELSE x.top.nprocs
           u == [x EXCEPT !.top.nprocs = m, !.procs[g] = NoProc]
           h == [x.top EXCEPT !.nprocs = m]
           z == [x EXCEPT !.procs[g] = NoProc]
<1>0. w \in Worlds /\ w.top \in Top /\ Core(w) /\ w.procs \in [Slots -> Proc]
  BY Fields, Zenon DEF Good, Core
<1>1. y \in 0..MaxXid /\ y # 0 /\ \A j \in Slots : w.procs[j].xid # y
  BY <1>0, PickXid, Zenon DEF spawns
<1>2. g \in Slots /\ g \in Nat /\ w.procs[g].xid = 0
  BY Grab, Zenon DEF spawns
<1>3. v = spawn_proc(u, g, name)
  <2>1. x = [w EXCEPT !.top.lastxid = y]
    BY <1>0, Zenon DEF Worlds
  <2>2. how # "absent"
    BY Zenon DEF spawns
  <2>3. v = spawn_proc([[w EXCEPT !.top.lastxid = y] EXCEPT
                     !.top.nprocs = IF g > [w EXCEPT !.top.lastxid = y].top.nprocs THEN g
                                    ELSE [w EXCEPT !.top.lastxid = y].top.nprocs, !.procs[g] = NoProc], g, name)
    BY <1>1, <1>2, <2>2, Zenon DEF spawn_child
  <2> HIDE DEF x
  <2>4. v = spawn_proc([x EXCEPT !.top.nprocs = IF g > x.top.nprocs THEN g ELSE x.top.nprocs, !.procs[g] = NoProc], g, name)
    BY <2>1, <2>3, Zenon
  <2> QED BY <2>4, Zenon
<1> HIDE DEF y, g
<1>4. /\ s \in Top /\ s.nprocs = w.top.nprocs /\ s.conns = w.top.conns /\ s.ctlfd = w.top.ctlfd
      /\ s.starts = w.top.starts /\ s.lastxid = y
  BY <1>0, <1>1, Zenon DEF Top
<1> HIDE DEF s
<1>5. Good(x) /\ x.procs = w.procs /\ x.top = s /\ x.users = w.users /\ x.kids = w.kids /\ x \in Worlds
  BY <1>4, SetTop DEF Good, Core
<1> HIDE DEF x
<1>6. NoProc \in Proc /\ Cleared(NoProc)
  BY Empties, Zenon DEF NoProc, Cleared
<1>7. Good(z) /\ Replaced(x, z, g, NoProc) /\ z \in Worlds
  BY <1>2, <1>5, <1>6, SetEntry, SMTT(30) DEF Good, Core
<1>8. u = [z EXCEPT !.top = h]
  BY <1>2, <1>5, Zenon DEF Worlds
<1>9. m \in 0..NPROCS /\ m >= x.top.nprocs /\ x.top.nprocs \in 0..NPROCS
  BY <1>2, <1>5, Fields, Sizes, SMTT(30)
<1> HIDE DEF z, m
<1>10. /\ h \in Top /\ h.nprocs = m /\ h.conns = x.top.conns /\ h.ctlfd = x.top.ctlfd /\ h.starts = x.top.starts
       /\ h.lastxid = x.top.lastxid
  <2>1. x.top \in Top
    BY <1>5, Fields, Zenon
  <2> QED BY <1>9, <2>1, Zenon DEF Top
<1> HIDE DEF h, u
<1>11. u \in Worlds /\ u.top = h /\ u.procs = z.procs /\ u.ttys = z.ttys /\ u.users = z.users /\ u.kids = z.kids
  BY <1>7, <1>8, <1>10, Zenon DEF Worlds
<1>12. /\ z.top = x.top /\ z.users = w.users /\ z.kids = w.kids
       /\ \A j \in Slots : z.procs[j] = IF j = g THEN NoProc ELSE w.procs[j]
  BY <1>5, <1>7, Zenon DEF Replaced
<1>13. Good(u)
  <2>1. Sized(u)
    <3> SUFFICES ASSUME NEW j \in Slots, j > m PROVE z.procs[j].xid = 0
      BY <1>10, <1>11, Zenon DEF Sized
    <3>1. j > x.top.nprocs
      BY <1>9, Sizes
    <3>2. Sized(z)
      BY <1>7, Zenon DEF Good, Core
    <3> QED BY <1>12, <3>1, <3>2, Zenon DEF Sized
  <2> QED BY <1>7, <1>10, <1>11, <1>12, <2>1, SameGood, SMTT(30)
<1>14. \A j \in Slots : Kept(w.procs[j], u.procs[j])
  <2>1. w.procs[g].xid = 0 /\ w.procs[g].pid = 0
    BY <1>0, <1>2, Zenon DEF Core, Filled
  <2> QED BY <1>11, <1>12, <2>1, SMTT(30) DEF Kept, NoProc
<1>15. /\ u.procs[g].xid = 0 /\ u.top.lastxid = y /\ u.top.starts < STARTS /\ free_pid(u) # {}
       /\ \A j \in Slots : u.procs[j].xid # y
  <2>1. free_pid(u) = free_pid(w)
    BY <1>11, <1>12, Zenon DEF free_pid
  <2>2. free_pid(w) # {}
    BY Zenon DEF spawns
  <2>3. u.procs[g].xid = 0 /\ \A j \in Slots : u.procs[j].xid # y
    BY <1>1, <1>2, <1>14, Zenon DEF Kept
  <2> QED BY <1>4, <1>5, <1>10, <1>11, <2>1, <2>2, <2>3, SMTT(30)
<1>16. Fresh(v, g) /\ Begins(u, v) /\ v.top.conns = u.top.conns /\ v.users = u.users
  BY <1>1, <1>2, <1>3, <1>13, <1>15, SpawnProc, SMTT(30)
<1>17. Begins(w, v)
  BY <1>14, <1>16, KeptThen, Zenon
<1>18. i = g
  <2>1. g \in find_proc(v, v.top.lastxid) /\ v.top.lastxid # 0
    BY <1>16, Zenon DEF Fresh, find_proc
  <2>2. i \in Slots /\ v.procs[i].xid = v.top.lastxid
    BY <2>1, FindProc
  <2>3. Core(v) /\ g \in Slots /\ v.procs[g].xid = v.top.lastxid /\ v.procs[g].xid # 0
    BY <1>16, Zenon DEF Fresh
  <2> QED BY <2>2, <2>3, OneNumber, Zenon
<1>19. v.top.conns = w.top.conns /\ v.users = w.users
  BY <1>4, <1>5, <1>10, <1>11, <1>12, <1>16, Zenon
<1> QED BY <1>16, <1>17, <1>18, <1>19, Zenon

-----------------------------------------------------------------------------
(* Commands *)

\* An entry that nobody holds is polled from now on.
LEMMA DetachOne ==
  ASSUME Setting, NEW w, Core(w), Named(w), NEW i \in Slots, w.procs[i].xid # 0,
         Unheld(w, i), OthersOwned(w, i), NEW v, v = detach(w, {i})
  PROVE  Good(v) /\ KeptAll(w, v) /\ v.top = w.top
<1>0. w \in Worlds /\ w.procs \in [Slots -> Proc]
  BY Fields, Zenon DEF Core
<1>1. /\ Core(v) /\ v.top = w.top
      /\ \A j \in Slots : v.procs[j] = IF j \in {i} THEN [w.procs[j] EXCEPT !.cfd = -1] ELSE w.procs[j]
  BY Detach DEF Unheld
<1>2. w.procs[i] \in Proc /\ v.procs[i] = [w.procs[i] EXCEPT !.cfd = -1]
  BY <1>0, <1>1, Zenon
<1>3. v.procs[i].cfd = -1 /\ Kept(w.procs[i], v.procs[i])
  BY <1>2, Zenon DEF Proc, Kept
<1>4. \A j \in Slots : j # i => v.procs[j] = w.procs[j]
  BY <1>1, Zenon
<1>5. Owned(v)
  <2> SUFFICES ASSUME NEW j \in Slots, v.procs[j].xid # 0 PROVE v.procs[j].cfd # 0
    BY Zenon DEF Owned
  <2>1. CASE j = i
    BY <1>3, <2>1
  <2>2. CASE j # i
    BY <1>4, <2>2, Zenon DEF OthersOwned
  <2> QED BY <2>1, <2>2, Zenon
<1>6. Named(v)
  <2> SUFFICES ASSUME w.top.ctlfd, NEW j \in Slots, v.procs[j].cfd > 0
               PROVE  \E k \in 1..NCONNS : w.top.conns[k].fd = v.procs[j].cfd
    BY <1>1, ZenonT(30) DEF Named
  <2>1. j # i
    BY <1>3
  <2>2. v.procs[j] = w.procs[j]
    BY <1>4, <2>1, Zenon
  <2> QED BY <2>2, Zenon DEF Named
<1>7. KeptAll(w, v)
  BY <1>3, <1>4, Zenon DEF Kept, KeptAll
<1> QED BY <1>1, <1>5, <1>6, <1>7, Zenon DEF Good

LEMMA CmdStart ==
  ASSUME Setting, NEW w, Good(w), NEW k \in 1..NCONNS, open(w, k), w.top.starts < STARTS,
         NEW name \in Names, NEW how, NEW v, v = cmd_start(w, k, name, how)
  PROVE  Good(v) /\ Steps(w, v) /\ v.top.conns = w.top.conns
<1> DEFINE u == spawn_child(w, name, how)
           i == lowest(find_proc(u, u.top.lastxid))
           x == [u EXCEPT !.procs[i].cfd = u.top.conns[k].fd]
<1>1. CASE ~spawns(w, how)
  <2>1. v = u
    BY <1>1, Zenon DEF cmd_start
  <2>2. Good(u) /\ KeptAll(w, u) /\ u.top.conns = w.top.conns
    BY <1>1, SpawnFails
  <2> QED BY <2>1, <2>2, Zenon DEF Steps, Ends, KeptAll
<1>2. CASE spawns(w, how)
  <2>1. v = reply_start(x, k, i)
    BY <1>2, Zenon DEF cmd_start
  <2>2. Fresh(u, i) /\ Begins(w, u) /\ u.top.conns = w.top.conns
    BY <1>2, Spawned
  <2> HIDE DEF u, i
  <2>3. /\ Core(u) /\ Named(u) /\ i \in Slots /\ u.procs[i].xid # 0 /\ u.procs[i].cfd = 0 /\ u \in Worlds
        /\ u.procs[i].mfd > 0 => u.ttys[u.procs[i].mfd].out = 0
        /\ OthersOwned(u, i)
    BY <2>2, Zenon DEF Fresh, Core
  <2>4. open(u, k) /\ u.ttys \in [1..STARTS -> Tty]
    BY <2>2, <2>3, Fields, Zenon DEF open
  <2>5. x = [u EXCEPT !.procs[i].cfd = u.top.conns[k].fd, !.ttys = u.ttys]
    BY <2>3, Zenon DEF Worlds
  <2> HIDE DEF x
  <2>6. Given(u, x, i, k)
    <3>1. ~(u.procs[i].cfd > 0)
      BY <2>3
    <3>2. Unpolled(u, i, u.ttys)
      BY <2>3, Zenon DEF Unpolled
    <3>3. x = give(u, i, k, u.ttys)
      BY <2>5, Zenon DEF give
    <3> QED BY <2>3, <2>4, <3>1, <3>2, <3>3, Give, Zenon
  <2>7. open(x, k)
    BY <2>4, <2>6, Zenon DEF open, Given
  <2>8. Good(v) /\ v.procs = x.procs /\ v.top.conns = w.top.conns
    <3>1. /\ Good(x) /\ x.procs[i].xid # 0 /\ x.procs[i].cfd = x.top.conns[k].fd
          /\ x.top = u.top /\ i \in Slots
      BY <2>3, <2>6, Zenon DEF Given
    <3>2. Good(v) /\ v.procs = x.procs /\ v.top = x.top
      BY <2>1, <2>7, <3>1, ReplyStart, Zenon
    <3> QED BY <2>2, <3>1, <3>2, Zenon
  <2>9. Begins(w, x)
    BY <2>2, <2>6, ThenKept, Zenon DEF Given, KeptAll
  <2> QED BY <2>8, <2>9, Zenon DEF Steps, Begins
<1> QED BY <1>1, <1>2, Zenon

LEMMA CmdSpawn ==
  ASSUME Setting, NEW w, Good(w), w.top.starts < STARTS,
         NEW name \in Names, NEW how, NEW v, v = cmd_spawn(w, name, how)
  PROVE  Good(v) /\ Steps(w, v) /\ v.top.conns = w.top.conns
<1> DEFINE u == spawn_child(w, name, how)
           i == lowest(find_proc(u, u.top.lastxid))
<1>1. CASE ~spawns(w, how)
  <2>1. v = u
    BY <1>1, Zenon DEF cmd_spawn
  <2>2. Good(u) /\ KeptAll(w, u) /\ u.top.conns = w.top.conns
    BY <1>1, SpawnFails
  <2> QED BY <2>1, <2>2, Zenon DEF Steps, Ends, KeptAll
<1>2. CASE spawns(w, how)
  <2>1. v = detach(u, {i})
    BY <1>2, Zenon DEF cmd_spawn
  <2>2. Fresh(u, i) /\ Begins(w, u) /\ u.top.conns = w.top.conns
    BY <1>2, Spawned
  <2> HIDE DEF u, i
  <2>3. Good(v) /\ KeptAll(u, v) /\ v.top.conns = w.top.conns
    BY <2>1, <2>2, DetachOne, Zenon DEF Fresh
  <2>4. Begins(w, v)
    BY <2>2, <2>3, ThenKept, Zenon DEF KeptAll
  <2> QED BY <2>3, <2>4, Zenon DEF Steps
<1> QED BY <1>1, <1>2, Zenon

LEMMA CmdAttach ==
  ASSUME Setting, NEW w, Good(w), NEW k \in 1..NCONNS, open(w, k), NEW x \in Numbers,
         NEW v, v = cmd_attach(w, k, x)
  PROVE  Good(v) /\ Ends(w, v) /\ v.top.conns = w.top.conns
<1> DEFINE i == lowest(find_proc(w, x))
<1>0. Core(w) /\ Named(w) /\ w \in Worlds /\ w.procs \in [Slots -> Proc] /\ w.ttys \in [1..STARTS -> Tty]
  BY Fields, Zenon DEF Good, Core
<1>1. CASE find_proc(w, x) = {} \/ w.procs[i].cfd > 0
  BY <1>1, Zenon DEF cmd_attach, Ends, Kept
<1>2. CASE ~(find_proc(w, x) = {} \/ w.procs[i].cfd > 0)
  <2> DEFINE y == [w EXCEPT !.procs[i].cfd = w.top.conns[k].fd]
             m == w.procs[i].mfd
             s == [w.ttys[m] EXCEPT !.out = 0]
             T == IF m <= 0 THEN w.ttys ELSE [w.ttys EXCEPT ![m] = s]
             u == [w EXCEPT !.procs[i].cfd = w.top.conns[k].fd, !.ttys = T]
  <2>1. x # 0
    BY Sizes
  <2>2. i \in Slots /\ w.procs[i].xid # 0
    BY <1>2, <2>1, FindProc, Zenon
  <2>3. v = reply_start(del_stdout_fd(y, i), k, i)
    BY <1>2, Zenon DEF cmd_attach
  <2> HIDE DEF i
  <2>4. w.procs[i] \in Proc /\ m \in -1..STARTS /\ STARTS \in Nat /\ (m > 0 => m \in 1..STARTS)
    BY <1>0, <2>2, OwnTty, Sizes, Zenon
  <2>5. del_stdout_fd(y, i) = u
    <3>1. y.procs[i].mfd = m
      BY <1>0, <2>2, <2>4, Zenon DEF Worlds, Proc
    <3>2. del_stdout_fd(y, i) = set_out(y, m, 0)
      BY <3>1, Zenon DEF del_stdout_fd
    <3>3. CASE m <= 0
      BY <1>0, <3>2, <3>3, Zenon DEF set_out, Worlds
    <3>4. CASE ~(m <= 0)
      BY <1>0, <3>2, <3>4, Zenon DEF set_out, Worlds
    <3> QED BY <3>3, <3>4, Zenon
  <2> HIDE DEF m
  <2>6. /\ T \in [1..STARTS -> Tty] /\ \A t \in 1..STARTS : t # m => T[t] = w.ttys[t]
        /\ m > 0 => T[m].out = 0
    <3>1. CASE m <= 0
      BY <1>0, <2>4, <3>1, SMTT(30)
    <3>2. CASE ~(m <= 0)
      <4>1. m \in 1..STARTS
        BY <2>4, <3>2
      <4>2. s \in Tty /\ s.out = 0
        <5>1. w.ttys[m] \in Tty /\ 0 \in -1..NPROCS
          BY <1>0, <4>1, Sizes, SMTT(30)
        <5> QED BY <5>1, Zenon DEF Tty
      <4> HIDE DEF s
      <4> QED BY <1>0, <3>2, <4>1, <4>2, Zenon
    <3> QED BY <3>1, <3>2, Zenon
  <2> HIDE DEF T
  <2>7. Given(w, u, i, k)
    <3>1. OthersOwned(w, i)
      BY Zenon DEF Good, Owned, OthersOwned
    <3>2. ~(w.procs[i].cfd > 0)
      BY <1>2, Zenon DEF i
    <3>3. u = give(w, i, k, T)
      BY Zenon DEF give
    <3>4. Unpolled(w, i, T)
      BY <2>6, Zenon DEF Unpolled, m
    <3> HIDE DEF u
    <3> QED BY <1>0, <2>2, <2>6, <3>1, <3>2, <3>3, <3>4, Give, Zenon
  <2> HIDE DEF u
  <2>8. open(u, k)
    BY <2>7, Zenon DEF open, Given
  <2>9. Good(v) /\ v.procs = u.procs /\ v.top.conns = w.top.conns
    <3>1. Good(u) /\ u.procs[i].xid # 0 /\ u.procs[i].cfd = u.top.conns[k].fd /\ u.top = w.top
      BY <2>7, Zenon DEF Given
    <3>2. v = reply_start(u, k, i)
      BY <2>3, <2>5, Zenon
    <3>3. Good(v) /\ v.procs = u.procs /\ v.top = u.top
      BY <2>2, <2>8, <3>1, <3>2, ReplyStart, Zenon
    <3> QED BY <3>1, <3>3, Zenon
  <2> QED BY <2>7, <2>9, Zenon DEF Ends, Given, KeptAll
<1> QED BY <1>1, <1>2, Zenon

LEMMA CmdDetach ==
  ASSUME Setting, NEW w, Good(w), NEW k \in 1..NCONNS, open(w, k), NEW x \in Numbers,
         NEW v, v = cmd_detach(w, k, x)
  PROVE  Good(v) /\ Ends(w, v) /\ v.top.conns = w.top.conns
<1> DEFINE i == lowest(find_proc(w, x))
           c == w.top.conns[k].who
           h == [w.users[c] EXCEPT !.holds = @ \ {w.procs[i].tty}]
           U == [w.users EXCEPT ![c] = h]
           u == [w EXCEPT !.users = U]
<1>0. Core(w) /\ Named(w) /\ w \in Worlds /\ w.users \in [Clients -> User]
  BY Fields, Zenon DEF Good, Core
<1>1. CASE find_proc(w, x) = {} \/ w.procs[i].cfd # w.top.conns[k].fd
  BY <1>1, Zenon DEF cmd_detach, Ends, Kept
<1>2. CASE ~(find_proc(w, x) = {} \/ w.procs[i].cfd # w.top.conns[k].fd)
  <2>1. x # 0
    BY Sizes
  <2>2. i \in Slots /\ w.procs[i].xid # 0 /\ w.procs[i].cfd = w.top.conns[k].fd
    BY <1>2, <2>1, FindProc, Zenon
  <2>3. v = detach(u, {i})
    <3>1. v = detach([w EXCEPT !.users[c].holds = @ \ {w.procs[i].tty}], {i})
      BY <1>2, Zenon DEF cmd_detach
    <3>2. u = [w EXCEPT !.users[c].holds = @ \ {w.procs[i].tty}]
      BY <1>0, Zenon DEF Worlds
    <3> HIDE DEF u
    <3> QED BY <3>1, <3>2, ZenonT(30)
  <2>4. c \in Clients
    BY <1>0, OpenConn, Zenon
  <2>5. h \in User /\ h.holds = w.users[c].holds \ {w.procs[i].tty}
    <3>1. w.users[c] \in User
      BY <1>0, <2>4, Zenon
    <3> QED BY <3>1, Zenon DEF User
  <2> HIDE DEF i, h
  <2>6. U \in [Clients -> User] /\ \A d \in Clients : U[d] = IF d = c THEN h ELSE w.users[d]
    BY <1>0, <2>4, <2>5, Zenon
  <2> HIDE DEF U
  <2>7. \A d \in Clients : U[d].holds \subseteq w.users[d].holds
    BY <2>5, <2>6, Zenon
  <2>8. Good(u) /\ u.procs = w.procs /\ u.users = U /\ u.top = w.top
    BY <2>6, <2>7, SetUsers
  <2>9. Unheld(u, i)
    <3> SUFFICES ASSUME NEW d \in Clients, w.procs[i].tty \in U[d].holds PROVE FALSE
      BY <2>8, Zenon DEF Unheld
    <3>1. d # c /\ w.procs[i].tty \in w.users[d].holds
      BY <2>5, <2>6, Zenon
    <3>2. PICK l \in 1..NCONNS : open(w, l) /\ w.top.conns[l].fd = w.procs[i].cfd /\ w.top.conns[l].who = d
      BY <1>0, <2>2, <3>1, Zenon DEF Core, Held
    <3>3. l = k
      BY <1>0, <2>2, <3>2, OneConn, Zenon
    <3> QED BY <3>1, <3>2, <3>3, Zenon
  <2> HIDE DEF u
  <2>10. OthersOwned(u, i)
    BY <2>8, Zenon DEF Good, Owned, OthersOwned
  <2>11. Good(v) /\ KeptAll(u, v) /\ v.top = w.top
    BY <2>2, <2>3, <2>8, <2>9, <2>10, DetachOne, Zenon DEF Good
  <2> QED BY <2>8, <2>11, Zenon DEF Ends, KeptAll
<1> QED BY <1>1, <1>2, Zenon

LEMMA CmdFlush ==
  ASSUME Setting, NEW w, Good(w), NEW x \in Numbers, NEW v, v = cmd_flush(w, x)
  PROVE  Good(v) /\ Ends(w, v) /\ v.top.conns = w.top.conns
<1>1. CASE find_proc(w, x) = {}
  BY <1>1, Zenon DEF cmd_flush, Ends, Kept
<1>2. CASE find_proc(w, x) # {}
  <2> DEFINE i == lowest(find_proc(w, x))
  <2>1. x # 0
    BY Sizes
  <2>2. i \in Slots /\ w.procs[i].xid # 0
    BY <1>2, <2>1, FindProc, Zenon
  <2>3. v = flush_proc(w, i)
    BY <1>2, Zenon DEF cmd_flush
  <2> HIDE DEF i
  <2> QED BY <2>2, <2>3, FlushProc, SMTT(30)
<1> QED BY <1>1, <1>2, Zenon

\* A request starts one application, or makes entries go.
LEMMA Dispatch ==
  ASSUME Setting, NEW w, Good(w), NEW k \in 1..NCONNS, open(w, k), NEW m \in Requests,
         m.cmd \in {"start", "spawn"} => w.top.starts < STARTS,
         NEW v, v = dispatch(w, k, m)
  PROVE  Good(v) /\ Steps(w, v) /\ v.top.conns = w.top.conns
<1>0. /\ m.cmd \in {"start", "spawn", "attach", "detach", "flush", "clear", "other"}
      /\ m.cmd \in {"start", "spawn"} => m.name \in Names
      /\ m.cmd \in {"attach", "detach", "flush"} => m.xid \in Numbers
  BY Zenon DEF Requests
<1>1. CASE m.cmd = "start"
  <2>1. v = cmd_start(w, k, m.name, m.how)
    BY <1>1, Zenon DEF dispatch
  <2> QED BY <1>0, <1>1, <2>1, CmdStart, SMTT(30)
<1>2. CASE m.cmd = "spawn"
  <2>1. v = cmd_spawn(w, m.name, m.how)
    BY <1>2, Zenon DEF dispatch
  <2> QED BY <1>0, <1>2, <2>1, CmdSpawn, SMTT(30)
<1>3. CASE m.cmd = "attach"
  <2>1. v = cmd_attach(w, k, m.xid)
    BY <1>3, Zenon DEF dispatch
  <2> QED BY <1>0, <1>3, <2>1, CmdAttach, SMTT(30) DEF Steps
<1>4. CASE m.cmd = "detach"
  <2>1. v = cmd_detach(w, k, m.xid)
    BY <1>4, Zenon DEF dispatch
  <2> QED BY <1>0, <1>4, <2>1, CmdDetach, SMTT(30) DEF Steps
<1>5. CASE m.cmd = "flush"
  <2>1. v = cmd_flush(w, m.xid)
    BY <1>5, Zenon DEF dispatch
  <2> QED BY <1>0, <1>5, <2>1, CmdFlush, SMTT(30) DEF Steps
<1>6. CASE m.cmd = "clear"
  <2>1. v = flush_dead_procs(w)
    BY <1>6, Zenon DEF dispatch
  <2> QED BY <2>1, FlushDead, Zenon DEF Steps
<1>7. CASE m.cmd = "other"
  <2>1. v = w
    BY <1>7, Zenon DEF dispatch
  <2> QED BY <2>1, Zenon DEF Steps, Ends, Kept
<1> QED BY <1>0, <1>1, <1>2, <1>3, <1>4, <1>5, <1>6, <1>7, SMTT(30)

-----------------------------------------------------------------------------
(* Timer, signals and events *)

\* v is w but for the timer, or for ptyhub having ended
Timing(w, v) ==
  /\ Good(v) /\ v.procs = w.procs /\ v.users = w.users /\ v.kids = w.kids
  /\ v.top.conns = w.top.conns /\ v.top.starts = w.top.starts

timed(w, t, a, e) == [w EXCEPT !.top = [w.top EXCEPT !.timer = t, !.armed = a, !.end = e]]

LEMMA SetTimer ==
  ASSUME NEW w, Good(w), NEW t \in {"NONE", "MMAP", "STOP"}, NEW a \in BOOLEAN, NEW e \in {"none", "exit", "fail"},
         NEW v, v = timed(w, t, a, e)
  PROVE  Timing(w, v)
<1> DEFINE h == [w.top EXCEPT !.timer = t, !.armed = a, !.end = e]
<1>1. w.top \in Top
  BY Fields, Zenon DEF Good, Core
<1>2. /\ h \in Top /\ h.nprocs = w.top.nprocs /\ h.conns = w.top.conns /\ h.ctlfd = w.top.ctlfd
      /\ h.starts = w.top.starts
  BY <1>1, Zenon DEF Top
<1>3. v = [w EXCEPT !.top = h]
  BY Zenon DEF timed
<1> HIDE DEF h
<1>4. Good(v) /\ v.procs = w.procs /\ v.top = h /\ v.users = w.users /\ v.kids = w.kids
  BY <1>2, <1>3, SetTop
<1> QED BY <1>2, <1>4, Zenon DEF Timing

LEMMA Timer ==
  ASSUME NEW w, Good(w), NEW t \in {"NONE", "MMAP", "STOP"}
  PROVE  /\ Timing(w, set_timer(w, t)) /\ Timing(w, set_iobuf_timer(w)) /\ Timing(w, clear_exit(w))
         /\ Timing(w, maybe_normal_exit(w)) /\ Timing(w, fail(w))
         /\ Timing(w, [w EXCEPT !.top.timer = t])
<1>0. w \in Worlds /\ w.top \in Top
  BY Fields, Zenon DEF Good, Core
<1>1. w.top.timer \in {"NONE", "MMAP", "STOP"} /\ w.top.armed \in BOOLEAN /\ w.top.end \in {"none", "exit", "fail"}
  BY <1>0, Zenon DEF Top
<1>2. \A s \in {"NONE", "MMAP", "STOP"} : Timing(w, set_timer(w, s))
  <2> SUFFICES ASSUME NEW s \in {"NONE", "MMAP", "STOP"} PROVE Timing(w, set_timer(w, s))
    BY Zenon
  <2> DEFINE v == set_timer(w, s)
             e == w.top.end
  <2>1. v = timed(w, s, TRUE, e)
    BY <1>0, Zenon DEF timed, set_timer, Worlds, Top
  <2>2. e \in {"none", "exit", "fail"}
    BY <1>1, Zenon
  <2> HIDE DEF v, e
  <2>3. Timing(w, v)
    BY <2>1, <2>2, SetTimer, Zenon
  <2> QED BY <2>3, Zenon DEF v
<1>3. Timing(w, clear_exit(w)) /\ Timing(w, fail(w))
  <2> DEFINE s == w.top.timer
             a == w.top.armed
             x == clear_exit(w)
             y == fail(w)
  <2>1. x = timed(w, s, a, "exit")
    BY <1>0, Zenon DEF timed, clear_exit, Worlds, Top
  <2>2. y = timed(w, s, a, "fail")
    BY <1>0, Zenon DEF timed, fail, Worlds, Top
  <2>3. s \in {"NONE", "MMAP", "STOP"} /\ a \in BOOLEAN
    BY <1>1, Zenon
  <2> HIDE DEF s, a, x, y
  <2>4. Timing(w, x) /\ Timing(w, y)
    BY <2>1, <2>2, <2>3, SetTimer, Zenon
  <2> QED BY <2>4, Zenon DEF x, y
<1>4. Timing(w, [w EXCEPT !.top.timer = t])
  <2> DEFINE a == w.top.armed
             e == w.top.end
             v == [w EXCEPT !.top.timer = t]
  <2>1. v = timed(w, t, a, e)
    BY <1>0, Zenon DEF timed, Worlds, Top
  <2>2. a \in BOOLEAN /\ e \in {"none", "exit", "fail"}
    BY <1>1, Zenon
  <2> HIDE DEF a, e, v
  <2>3. Timing(w, v)
    BY <2>1, <2>2, SetTimer, Zenon
  <2> QED BY <2>3, Zenon DEF v
<1>5. Timing(w, w)
  BY Zenon DEF Timing
<1>6. Timing(w, set_iobuf_timer(w)) /\ Timing(w, maybe_normal_exit(w))
  BY <1>2, <1>3, <1>5, Zenon DEF set_iobuf_timer, maybe_normal_exit
<1> QED BY <1>2, <1>3, <1>4, <1>6, Zenon

LEMMA KillConns ==
  ASSUME Setting, NEW w, Good(w), NEW v, v = kill_all_conns(w)
  PROVE  Good(v) /\ v.procs = w.procs
<1> DEFINE N == [k \in 1..NCONNS |-> NoConn]
           U == [c \in Clients |-> Idle]
           h == [w.top EXCEPT !.conns = N, !.ctlfd = FALSE]
<1>0. w \in Worlds /\ w.top \in Top
  BY Fields, Zenon DEF Good, Core
<1>1. v = [w EXCEPT !.top = h, !.users = U]
  BY <1>0, Zenon DEF kill_all_conns, Worlds
<1>2. N \in [1..NCONNS -> Conn] /\ \A k \in 1..NCONNS : N[k] = NoConn
  BY Empties, Zenon
<1>3. U \in [Clients -> User] /\ \A c \in Clients : U[c].holds = {}
  BY Empties, Zenon DEF Idle
<1> HIDE DEF N, U
<1>4. h \in Top /\ h.conns = N /\ h.ctlfd = FALSE /\ h.nprocs = w.top.nprocs /\ h.starts = w.top.starts
  BY <1>0, <1>2, Zenon DEF Top
<1> HIDE DEF h
<1>5. v \in Worlds /\ v.top = h /\ v.users = U /\ v.procs = w.procs /\ v.ttys = w.ttys
  BY <1>0, <1>1, <1>3, <1>4, Zenon DEF Worlds
<1>6. Filled(v) /\ Sized(v) /\ Distinct(v) /\ Owned(v) /\ Polls(v)
  BY <1>4, <1>5, SameTable, Zenon
<1>7. \A k \in 1..NCONNS : ~open(v, k) /\ v.top.conns[k] = NoConn
  <2>1. NoConn.fd = -1
    BY Zenon DEF NoConn
  <2>2. v.top.conns = N
    BY <1>4, <1>5, Zenon
  <2>3. ASSUME NEW k \in 1..NCONNS PROVE ~open(v, k) /\ v.top.conns[k] = NoConn
    <3>1. v.top.conns[k] = NoConn
      BY <1>2, <2>2, Zenon
    <3>2. v.top.conns[k].fd = -1
      BY <2>1, <3>1, Zenon
    <3> QED BY <3>1, <3>2 DEF open
  <2> QED BY <2>3, Zenon
<1>8. Conns(v) /\ Named(v)
  BY <1>4, <1>5, <1>7, Zenon DEF Conns, Named
<1>9. Held(v) /\ Opened(v)
  BY <1>3, <1>5, Zenon DEF Held, Opened
<1> QED BY <1>5, <1>6, <1>8, <1>9, Zenon DEF Good, Core

LEMMA CheckSignal ==
  ASSUME Setting, NEW w, Good(w), NEW sig, NEW C \in SUBSET w.kids, NEW v, v = check_signal(w, sig, C)
  PROVE  Good(v) /\ Ends(w, v)
<1>1. CASE sig = SIGCHLD
  <2> DEFINE u == check_children(w, C)
  <2>1. v = maybe_normal_exit(u)
    BY <1>1, Zenon DEF check_signal
  <2>2. Good(u) /\ Ends(w, u)
    BY CheckChildren, Zenon
  <2> HIDE DEF u
  <2>3. Timing(u, v)
    BY <2>1, <2>2, Timer, Zenon
  <2> QED BY <2>2, <2>3, Zenon DEF Timing, Ends
<1>2. CASE sig # SIGCHLD /\ sig = SIGALRM
  <2> DEFINE u == [w EXCEPT !.top.timer = "NONE"]
  <2>1. v = u \/ v = clear_exit(u)
    BY <1>2, Zenon DEF check_signal, handle_timeout
  <2>2. Timing(w, u)
    BY Timer, Zenon
  <2> HIDE DEF u
  <2>3. Timing(u, v)
    <3>1. Good(u) /\ "NONE" \in {"NONE", "MMAP", "STOP"}
      BY <2>2, Zenon DEF Timing
    <3>2. Timing(u, u) /\ Timing(u, clear_exit(u))
      BY <3>1, Timer, Zenon DEF Timing
    <3> QED BY <2>1, <3>2, Zenon
  <2> QED BY <2>2, <2>3, Zenon DEF Timing, Ends, Kept
<1>3. CASE sig # SIGCHLD /\ sig # SIGALRM
  <2>0. v = request_stop(w)
    BY <1>3, Zenon DEF check_signal
  <2>1. CASE w.top.timer = "STOP"
    <3>1. Timing(w, v)
      BY <2>0, <2>1, Timer, Zenon DEF request_stop
    <3> QED BY <3>1, Zenon DEF Timing, Ends, Kept
  <2>2. CASE w.top.timer # "STOP"
    <3> DEFINE u == kill_all_conns(w)
               x == set_timer(u, "STOP")
    <3>1. v = maybe_normal_exit(x)
      BY <2>0, <2>2, Zenon DEF request_stop
    <3>2. Good(u) /\ u.procs = w.procs
      BY KillConns, Zenon
    <3> HIDE DEF u
    <3>3. Timing(u, x)
      BY <3>2, Timer, Zenon
    <3> HIDE DEF x
    <3>4. Timing(x, v)
      <4>1. Good(x)
        BY <3>3, Zenon DEF Timing
      <4> QED BY <3>1, <4>1, Timer, Zenon
    <3> QED BY <3>2, <3>3, <3>4, Zenon DEF Timing, Ends, Kept
  <2> QED BY <2>1, <2>2, Zenon
<1> QED BY <1>1, <1>2, <1>3, Zenon

LEMMA HandleStderr ==
  ASSUME Setting, NEW w, Good(w), NEW i \in Slots, NEW data, NEW HUP, NEW v, v = handle_stderr(w, i, data, HUP)
  PROVE  Good(v) /\ KeptAll(w, v)
<1> DEFINE q == [w.procs[i] EXCEPT !.buf = TRUE]
           x == [w EXCEPT !.procs[i] = q]
<1>0. w \in Worlds /\ w.procs \in [Slots -> Proc] /\ w.procs[i] \in Proc
  BY Fields, Zenon DEF Good, Core
<1>1. x = [w EXCEPT !.procs[i].buf = TRUE]
  BY <1>0, Zenon DEF Worlds
<1>2. q \in Proc /\ Like(w.procs[i], q) /\ Kept(w.procs[i], q)
  BY <1>0, Zenon DEF Proc, Like, Kept
<1> HIDE DEF q
<1>3. Good(x) /\ Replaced(w, x, i, q)
  BY <1>2, SetEntry, Zenon
<1>4. KeptAll(w, x) /\ KeptAll(w, w)
  BY <1>2, <1>3, Zenon DEF KeptAll, Kept, Replaced
<1> HIDE DEF x
<1>5. v = fail(w) \/ v = w \/ v = x \/ v = close_stderr(w, i) \/ v = close_stderr(x, i)
  BY <1>1, Zenon DEF handle_stderr
<1>6. CASE v = fail(w)
  <2>1. Timing(w, v)
    BY <1>6, Timer, Zenon
  <2> QED BY <1>4, <2>1, Zenon DEF Timing, KeptAll
<1>7. \A y \in {w, x} : \A z \in {close_stderr(y, i)} : Good(z) /\ KeptAll(y, z)
  <2> SUFFICES ASSUME NEW y \in {w, x}, NEW z, z = close_stderr(y, i) PROVE Good(z) /\ KeptAll(y, z)
    BY Zenon
  <2> DEFINE t == y.procs[i].efd
             r == [y.procs[i] EXCEPT !.efd = -1]
             s == [y.ttys[t] EXCEPT !.err = -1]
             P == [y.procs EXCEPT ![i] = r]
             T == [y.ttys EXCEPT ![t] = s]
  <2>0. Good(y)
    BY <1>3, Zenon
  <2>1. y \in Worlds /\ y.procs \in [Slots -> Proc] /\ y.procs[i] \in Proc /\ y.ttys \in [1..STARTS -> Tty]
    BY <2>0, Fields, Zenon DEF Good, Core
  <2>2. CASE t <= 0
    BY <2>0, <2>2, Zenon DEF close_stderr, KeptAll, Kept
  <2>3. CASE ~(t <= 0)
    <3>1. t \in 1..STARTS
      <4>1. t \in -1..STARTS /\ STARTS \in Nat
        BY <2>1, Sizes, Zenon DEF Proc
      <4> QED BY <2>3, <4>1
    <3>2. z = [y EXCEPT !.procs = P, !.ttys = T]
      BY <2>1, <2>3, Zenon DEF close_stderr, Worlds
    <3>3. r \in Proc /\ Like(y.procs[i], r) /\ Kept(y.procs[i], r)
      <4>1. -1 \in -1..STARTS
        BY Sizes
      <4> QED BY <2>1, <4>1, Zenon DEF Proc, Like, Kept
    <3>4. y.ttys[t] \in Tty /\ s \in Tty /\ s.out = y.ttys[t].out
      <4>1. -1 \in -1..NPROCS /\ y.ttys[t] \in Tty
        BY <2>1, <3>1 DEF Setting
      <4> QED BY <4>1, Zenon DEF Tty
    <3> HIDE DEF r, s, t
    <3>5. P \in [Slots -> Proc] /\ \A j \in Slots : P[j] = IF j = i THEN r ELSE y.procs[j]
      BY <2>1, <3>3, Zenon
    <3>6. T \in [1..STARTS -> Tty] /\ \A l \in 1..STARTS : T[l].out = y.ttys[l].out
      BY <2>1, <3>1, <3>4, Zenon
    <3> HIDE DEF P, T
    <3>7. z \in Worlds /\ z.procs = P /\ z.ttys = T /\ z.top = y.top /\ z.users = y.users
      BY <2>1, <3>2, <3>5, <3>6, Zenon DEF Worlds
    <3>8. \A j \in Slots : Like(y.procs[j], z.procs[j]) /\ Kept(y.procs[j], z.procs[j])
      BY <3>3, <3>5, <3>7, Zenon DEF Like, Kept
    <3>9. Good(z)
      BY <2>0, <3>6, <3>7, <3>8, LikeGood, Zenon
    <3> QED BY <3>8, <3>9, Zenon DEF KeptAll
  <2> QED BY <2>2, <2>3, Zenon
<1> QED BY <1>3, <1>4, <1>5, <1>6, <1>7, SMTT(30) DEF KeptAll, Kept

\* A client that has no connection gets a slot that is closed, and an fd that
\* is not in use.
LEMMA Accept ==
  ASSUME Setting, NEW w, Good(w), w.top.ctlfd, NEW c \in Clients,
         \A k \in 1..NCONNS : w.top.conns[k].who # c,
         NEW n \in 1..NCONNS, w.top.conns[n].fd < 0, NEW fd \in Fds \ conn_fds(w),
         NEW v, v = [w EXCEPT !.top.conns[n] = [fd |-> fd, who |-> c]]
  PROVE  Good(v) /\ v.procs = w.procs
<1> DEFINE r == [fd |-> fd, who |-> c]
           N == [w.top.conns EXCEPT ![n] = r]
           h == [w.top EXCEPT !.conns = N]
<1>0. w \in Worlds /\ Core(w) /\ w.top \in Top /\ w.top.conns \in [1..NCONNS -> Conn]
  BY Fields, Zenon DEF Good, Core
<1>1. v = [w EXCEPT !.top = h]
  BY <1>0, Zenon DEF Worlds
<1>2. r \in Conn /\ r.fd = fd /\ r.who = c /\ fd > 0 /\ fd \in Nat
  BY Sizes DEF Conn
<1> HIDE DEF r
<1>3. N \in [1..NCONNS -> Conn] /\ \A k \in 1..NCONNS : N[k] = IF k = n THEN r ELSE w.top.conns[k]
  BY <1>0, <1>2, Zenon
<1> HIDE DEF N
<1>4. h \in Top /\ h.conns = N /\ h.ctlfd = w.top.ctlfd /\ h.nprocs = w.top.nprocs /\ h.starts = w.top.starts
  BY <1>0, <1>3, Zenon DEF Top
<1> HIDE DEF h
<1>5. v \in Worlds /\ v.top = h /\ v.users = w.users /\ v.procs = w.procs /\ v.ttys = w.ttys
  BY <1>0, <1>1, <1>4, Zenon DEF Worlds
<1>6. Filled(v) /\ Sized(v) /\ Distinct(v) /\ Owned(v) /\ Polls(v) /\ Opened(v)
  <2>1. Filled(v) /\ Sized(v) /\ Distinct(v) /\ Owned(v) /\ Polls(v)
    BY <1>4, <1>5, SameTable, Zenon
  <2>2. Opened(v)
    BY <1>4, <1>5, Zenon DEF Good, Core, Opened
  <2> QED BY <2>1, <2>2, Zenon
<1>7. /\ open(v, n) /\ v.top.conns[n] = r
      /\ \A k \in 1..NCONNS : k # n => v.top.conns[k] = w.top.conns[k] /\ (open(v, k) <=> open(w, k))
  <2>1. v.top.conns[n] = r /\ \A k \in 1..NCONNS : k # n => v.top.conns[k] = w.top.conns[k]
    BY <1>3, <1>4, <1>5, Zenon
  <2>2. open(v, n)
    BY <1>2, <2>1 DEF open
  <2> QED BY <2>1, <2>2, Zenon DEF open
<1>8. \A k \in 1..NCONNS : open(w, k) => w.top.conns[k].fd # fd /\ k # n
  <2> SUFFICES ASSUME NEW k \in 1..NCONNS, open(w, k) PROVE w.top.conns[k].fd # fd /\ k # n
    BY Zenon
  <2>1. w.top.conns[k].fd \in conn_fds(w)
    BY <1>0, OpenConn DEF conn_fds
  <2>2. k # n
    <3>1. w.top.conns[k].fd \in Nat
      BY <1>0, OpenConn, Sizes, Zenon
    <3> QED BY <3>1
  <2> QED BY <2>1, <2>2, Zenon
<1>9. Conns(v)
  <2>1. \A k \in 1..NCONNS : open(v, k) => v.top.conns[k].who \in Clients
    BY <1>0, <1>2, <1>7, Zenon DEF Core, Conns
  <2>2. \A k \in 1..NCONNS : ~open(v, k) => v.top.conns[k] = NoConn
    BY <1>0, <1>7, Zenon DEF Core, Conns
  <2>3. ASSUME NEW k \in 1..NCONNS, NEW l \in 1..NCONNS, k # l, open(v, k), open(v, l)
        PROVE  v.top.conns[k].fd # v.top.conns[l].fd /\ v.top.conns[k].who # v.top.conns[l].who
    <3>1. CASE k = n
      BY <1>2, <1>7, <1>8, <2>3, <3>1, SMTT(30)
    <3>2. CASE l = n
      BY <1>2, <1>7, <1>8, <2>3, <3>2, SMTT(30)
    <3>3. CASE k # n /\ l # n
      BY <1>0, <1>7, <2>3, <3>3, SMTT(30) DEF Core, Conns
    <3> QED BY <3>1, <3>2, <3>3
  <2>4. v.top.ctlfd
    BY <1>4, <1>5, Zenon
  <2> QED BY <2>1, <2>2, <2>3, <2>4, Zenon DEF Conns
<1>10. Named(v)
  <2> SUFFICES ASSUME NEW i \in Slots, w.procs[i].cfd > 0
               PROVE  \E k \in 1..NCONNS : v.top.conns[k].fd = w.procs[i].cfd
    BY <1>5, Zenon DEF Named
  <2>1. PICK k \in 1..NCONNS : w.top.conns[k].fd = w.procs[i].cfd
    BY Zenon DEF Good, Named
  <2>2. open(w, k)
    BY <1>0, <2>1, OpenConn, Zenon
  <2> QED BY <1>7, <1>8, <2>1, <2>2, Zenon
<1>11. Held(v)
  <2> SUFFICES ASSUME NEW d \in Clients, NEW i \in Slots, w.procs[i].xid # 0, w.procs[i].tty \in w.users[d].holds
               PROVE  \E k \in 1..NCONNS : open(v, k) /\ v.top.conns[k].fd = w.procs[i].cfd /\ v.top.conns[k].who = d
    BY <1>5 DEF Held
  <2>1. PICK k \in 1..NCONNS : open(w, k) /\ w.top.conns[k].fd = w.procs[i].cfd /\ w.top.conns[k].who = d
    BY <1>0, Zenon DEF Core, Held
  <2> QED BY <1>7, <1>8, <2>1, Zenon
<1> QED BY <1>5, <1>6, <1>9, <1>10, <1>11, SMTT(30) DEF Good, Core

\* One connection.
LEMMA CloseConn ==
  ASSUME Setting, NEW w, Good(w), NEW k \in 1..NCONNS, open(w, k), NEW v, v = close_conn(w, k)
  PROVE  Good(v) /\ KeptAll(w, v)
<1> DEFINE K == {k}
<1>0. w \in Worlds /\ w.procs \in [Slots -> Proc]
  BY Fields, Zenon DEF Good, Core
<1>1. v = close_conns(w, K) /\ K \in SUBSET (1..NCONNS) /\ \A l \in K : open(w, l)
  BY Zenon DEF close_conn
<1> HIDE DEF K
<1>2. CutFrom(w, v)
  BY <1>1, CloseConns, Zenon
<1>3. KeptAll(w, v)
  <2> SUFFICES ASSUME NEW j \in Slots PROVE Kept(w.procs[j], v.procs[j])
    BY Zenon DEF KeptAll
  <2>1. w.procs[j] \in Proc /\ (v.procs[j] = w.procs[j] \/ v.procs[j] = [w.procs[j] EXCEPT !.cfd = -1])
    BY <1>0, <1>2, Zenon DEF CutFrom
  <2> QED BY <2>1, Zenon DEF Kept, Proc
<1> QED BY <1>2, <1>3, Zenon DEF CutFrom

\* What a user does, the terminals it holds apart.
LEMMA SetUser ==
  ASSUME NEW w, Good(w), NEW c \in Clients, NEW x \in User, x.holds \subseteq w.users[c].holds,
         NEW v, v = [w EXCEPT !.users[c] = x]
  PROVE  Good(v) /\ v.procs = w.procs /\ v.top = w.top
<1> DEFINE U == [w.users EXCEPT ![c] = x]
<1>0. w \in Worlds /\ w.users \in [Clients -> User]
  BY Fields, Zenon DEF Good, Core
<1>1. v = [w EXCEPT !.users = U]
  BY <1>0, Zenon DEF Worlds
<1>2. U \in [Clients -> User] /\ \A d \in Clients : U[d].holds \subseteq w.users[d].holds
  BY <1>0, Zenon
<1> HIDE DEF U
<1> QED BY <1>1, <1>2, SetUsers

-----------------------------------------------------------------------------
(* Actions *)

LEMMA Applied ==
  ASSUME NEW v \in Worlds, Apply(v)
  PROVE  World' = v
<1>1. top' = v.top /\ procs' = v.procs /\ kids' = v.kids /\ ttys' = v.ttys /\ users' = v.users
  BY Zenon DEF Apply
<1>2. v = [top |-> v.top, procs |-> v.procs, kids |-> v.kids, ttys |-> v.ttys, users |-> v.users]
  BY Zenon DEF Worlds
<1> QED BY <1>1, <1>2, Zenon DEF World

\* The step keeps the table in order, and is one AppLife allows.
Fine(w, v) == Good(v) /\ Steps(w, v)

LEMMA FineKept ==
  ASSUME NEW w, NEW v, Good(v), v.procs = w.procs \/ KeptAll(w, v)
  PROVE  Fine(w, v)
  BY Zenon DEF Fine, Steps, Ends, KeptAll, Kept

LEMMA SigfdStep ==
  ASSUME Setting, Good(World), process_sigfd
  PROVE  Fine(World, World')
<1> DEFINE w == World
<1>1. PICK C \in Waited(w) : Apply(check_signal(w, lowest(sigs), C))
  BY Zenon DEF process_sigfd
<1> DEFINE v == check_signal(w, lowest(sigs), C)
<1>2. C \in SUBSET w.kids
  BY Zenon DEF Waited
<1> HIDE DEF w
<1>3. Good(v) /\ Ends(w, v)
  BY <1>2, CheckSignal, Zenon DEF w
<1>4. v \in Worlds /\ Apply(v)
  BY <1>1, <1>3, Zenon DEF Good, Core
<1> HIDE DEF v
<1>5. World' = v
  BY <1>4, Applied, Zenon
<1> QED BY <1>3, <1>5, Zenon DEF Fine, Steps, w

LEMMA StdoutStep ==
  ASSUME Setting, Good(World), NEW t \in 1..STARTS, process_stdout(t)
  PROVE  Fine(World, World')
<1> DEFINE w == World
           i == w.ttys[t].out
           v == IF i > w.top.nprocs THEN fail(w) ELSE close_stdout(w, i)
<1>1. Apply(v) /\ i > 0
  BY Zenon DEF process_stdout, World
<1>2. i \in -1..NPROCS /\ w.top.nprocs \in 0..NPROCS
  BY Fields, Zenon DEF Good, Core, Tty
<1> HIDE DEF w
<1>3. Good(v) /\ KeptAll(w, v)
  <2>1. CASE i > w.top.nprocs
    <3>1. Timing(w, v)
      BY <2>1, Timer, Zenon DEF w
    <3> QED BY <3>1, Zenon DEF Timing, KeptAll, Kept
  <2>2. CASE ~(i > w.top.nprocs)
    <3>1. i \in Slots
      BY <1>1, <1>2, Sizes
    <3>2. v = close_stdout(w, i)
      BY <2>2, Zenon
    <3> HIDE DEF v, i
    <3> QED BY <3>1, <3>2, CloseStdout, SMTT(30) DEF w, KeptAll, Kept
  <2> QED BY <2>1, <2>2
<1> HIDE DEF v
<1>4. v \in Worlds
  BY <1>3, Zenon DEF Good, Core
<1>5. World' = v
  BY <1>1, <1>4, Applied, Zenon
<1> QED BY <1>3, <1>5, FineKept DEF w

LEMMA StderrStep ==
  ASSUME Setting, Good(World), NEW t \in 1..STARTS, process_stderr(t)
  PROVE  Fine(World, World')
<1> DEFINE w == World
           i == w.ttys[t].err
           HUP == ~runs(w, t)
<1>1. PICK data \in BOOLEAN : Apply(handle_stderr(w, i, data, HUP))
  BY Zenon DEF process_stderr, World
<1> DEFINE v == handle_stderr(w, i, data, HUP)
<1>2. i \in -1..NPROCS /\ w.top.nprocs \in 0..NPROCS /\ i > 0
  BY Fields, Zenon DEF Good, Core, Tty, process_stderr, World
<1> HIDE DEF w, i, HUP, v
<1>3. i \in Slots
  BY <1>2, Sizes, SMTT(30)
<1> USE DEF v
<1>4. Good(v) /\ KeptAll(w, v)
  BY <1>3, HandleStderr, Zenon DEF w
<1>5. v \in Worlds /\ Apply(v)
  BY <1>1, <1>4, Zenon DEF Good, Core
<1> HIDE DEF v
<1>6. World' = v
  BY <1>5, Applied, Zenon
<1> QED BY <1>4, <1>6, FineKept, SMTT(30) DEF w

LEMMA SocketStep ==
  ASSUME Setting, Good(World), NEW c \in Clients, check_socket(c)
  PROVE  Fine(World, World')
<1> DEFINE w == World
           free == {k \in 1..NCONNS : w.top.conns[k].fd < 0}
<1>0. w.top.ctlfd /\ \A k \in 1..NCONNS : w.top.conns[k].who # c
  BY Zenon DEF check_socket, waiting, World
<1>1. CASE free = {}
  <2> DEFINE v == [w EXCEPT !.users[c] = Idle]
  <2>1. Apply(v)
    BY <1>1, Zenon DEF check_socket, World
  <2>2. Idle \in User /\ Idle.holds \subseteq w.users[c].holds
    BY Empties, Zenon DEF Idle
  <2> HIDE DEF w
  <2>3. Good(v) /\ v.procs = w.procs
    BY <2>2, SetUser DEF w
  <2>4. v \in Worlds
    BY <2>3, Zenon DEF Good, Core
  <2> HIDE DEF v
  <2>5. World' = v
    BY <2>1, <2>4, Applied, Zenon
  <2> QED BY <2>3, <2>5, FineKept, SMTT(30) DEF w
<1>2. CASE free # {}
  <2> DEFINE n == lowest(free)
  <2>1. PICK fd \in Fds \ conn_fds(w) : Apply([w EXCEPT !.top.conns[n] = [fd |-> fd, who |-> c]])
    BY <1>2, Zenon DEF check_socket, World
  <2> DEFINE v == [w EXCEPT !.top.conns[n] = [fd |-> fd, who |-> c]]
  <2>2. n \in 1..NCONNS /\ w.top.conns[n].fd < 0
    <3>1. free \in SUBSET Nat
      BY Sizes
    <3>2. n \in free
      BY <1>2, <3>1, LowestIn, Zenon
    <3> QED BY <3>2, Zenon
  <2> HIDE DEF w, n
  <2>3. Good(v) /\ v.procs = w.procs
    BY <1>0, <2>2, Accept DEF w
  <2>4. v \in Worlds /\ Apply(v)
    BY <2>1, <2>3, Zenon DEF Good, Core
  <2> HIDE DEF v
  <2>5. World' = v
    BY <2>4, Applied, Zenon
  <2> QED BY <2>3, <2>5, FineKept, SMTT(30) DEF w
<1> QED BY <1>1, <1>2, Zenon

LEMMA ConnStep ==
  ASSUME Setting, Good(World), NEW k \in 1..NCONNS, NEW m \in Requests, handle_conn(k, m)
  PROVE  Fine(World, World')
<1> DEFINE w == World
           c == w.top.conns[k].who
           a == set_iobuf_timer(w)
           x == [a.users[c] EXCEPT !.msg = FALSE]
           b == [a EXCEPT !.users[c] = x]
           u == dispatch(b, k, m)
           v == IF Deaf(u, c) THEN close_conn(u, k) ELSE u
<1>1. Timing(w, a)
  BY Timer, ZenonT(30)
<1>2. open(w, k) /\ (m.cmd \in {"start", "spawn"} => w.top.starts < STARTS)
  BY Zenon DEF handle_conn, World, open
<1>3. Apply(v)
  <2>1. c = top.conns[k].who
    BY Zenon DEF World
  <2>2. b = [set_iobuf_timer(World) EXCEPT !.users[c].msg = FALSE]
    <3>1. a \in Worlds
      BY <1>1, Zenon DEF Timing, Good, Core
    <3>2. b = [a EXCEPT !.users[c].msg = FALSE]
      <4> HIDE DEF a
      <4> QED BY <3>1, Zenon DEF Worlds
    <3> QED BY <3>2, Zenon
  <2> HIDE DEF b
  <2>3. Apply(LET q == dispatch(b, k, m) IN IF Deaf(q, c) THEN close_conn(q, k) ELSE q)
    BY <2>1, <2>2, Zenon DEF handle_conn
  <2> QED BY <2>3, Zenon
<1> HIDE DEF a, w
<1>4. c \in Clients
  <2>1. Core(w)
    BY Zenon DEF Good, w
  <2> QED BY <1>2, <2>1, OpenConn, SMTT(30)
<1>5. Good(a) /\ a.procs = w.procs /\ a.users \in [Clients -> User] /\ a.top.conns = w.top.conns /\ a.top.starts = w.top.starts
  <2>1. a \in Worlds
    BY <1>1, Zenon DEF Timing, Good, Core
  <2> QED BY <1>1, <2>1, Fields, Zenon DEF Timing
<1>6. x \in User /\ x.holds \subseteq a.users[c].holds
  <2>1. a.users[c] \in User
    BY <1>4, <1>5, Zenon
  <2> QED BY <2>1, Zenon DEF User
<1> HIDE DEF x, c
<1>7. Good(b) /\ b.procs = a.procs /\ b.top = a.top
  BY <1>4, <1>5, <1>6, SetUser, SMTT(30)
<1> HIDE DEF b
<1>8. open(b, k) /\ (m.cmd \in {"start", "spawn"} => b.top.starts < STARTS)
  BY <1>2, <1>5, <1>7, SMTT(30) DEF open
<1>9. Good(u) /\ Steps(b, u) /\ u.top.conns = b.top.conns
  BY <1>7, <1>8, Dispatch, SMTT(30)
<1> HIDE DEF u
<1>10. Steps(w, u)
  BY <1>5, <1>7, <1>9, Zenon DEF Steps, Ends, Begins
<1>11. open(u, k)
  BY <1>8, <1>9, Zenon DEF open
<1>12. Good(v) /\ Steps(w, v)
  <2>1. CASE Deaf(u, c)
    <3>1. v = close_conn(u, k)
      BY <2>1, Zenon
    <3> HIDE DEF v
    <3>2. Good(v) /\ KeptAll(u, v)
      BY <1>9, <1>11, <3>1, CloseConn, SMTT(30)
    <3>3. Steps(w, v)
      BY <1>10, <3>2, ThenKept, Zenon DEF KeptAll, Steps
    <3> QED BY <3>2, <3>3, Zenon
  <2>2. CASE ~Deaf(u, c)
    BY <1>9, <1>10, <2>2, SMTT(30)
  <2> QED BY <2>1, <2>2
<1> HIDE DEF v
<1>13. v \in Worlds
  BY <1>12, Zenon DEF Good, Core
<1>14. World' = v
  BY <1>3, <1>13, Applied, SMTT(30)
<1> QED BY <1>12, <1>14, Zenon DEF Fine, w

LEMMA HangupStep ==
  ASSUME Setting, Good(World), NEW k \in 1..NCONNS, hangup_conn(k)
  PROVE  Fine(World, World')
<1> DEFINE w == World
           v == close_conn(w, k)
<1>1. Apply(v) /\ open(w, k)
  BY Zenon DEF hangup_conn, open, World
<1> HIDE DEF w
<1>2. Good(v) /\ KeptAll(w, v)
  BY <1>1, CloseConn, Zenon DEF w
<1>3. v \in Worlds
  BY <1>2, Zenon DEF Good, Core
<1> HIDE DEF v
<1>4. World' = v
  BY <1>1, <1>3, Applied, Zenon
<1> QED BY <1>2, <1>4, FineKept, Zenon DEF w

LEMMA UserStep ==
  ASSUME Setting, Good(World), NEW c \in Clients, connect(c) \/ send(c) \/ leave(c)
  PROVE  Fine(World, World')
<1> DEFINE w == World
           y == w.users[c]
           x1 == [y EXCEPT !.st = "here", !.msg = TRUE]
           x2 == [y EXCEPT !.msg = TRUE]
           x3 == [y EXCEPT !.st = "gone", !.holds = {}, !.told = {}]
<1>0. w \in Worlds /\ w.users \in [Clients -> User] /\ y \in User /\ w.users = users
  BY Fields, Zenon DEF Good, Core, World
<1>1. \A x \in {x1, x2, x3} : x \in User /\ x.holds \subseteq y.holds
  <2>1. x1 \in User /\ x1.holds = y.holds
    BY <1>0, Zenon DEF User
  <2>2. x2 \in User /\ x2.holds = y.holds
    BY <1>0, Zenon DEF User
  <2>3. x3 \in User /\ x3.holds = {}
    BY <1>0, Zenon DEF User
  <2> QED BY <2>1, <2>2, <2>3, Zenon
<1>2. PICK x \in {x1, x2, x3} : users' = [users EXCEPT ![c] = x] /\ UNCHANGED <<top, procs, kids, ttys>>
  <2>1. CASE connect(c)
    <3>1. users' = [users EXCEPT ![c] = x1] /\ UNCHANGED <<top, procs, kids, ttys>>
      BY <1>0, <2>1, Zenon DEF connect
    <3> QED BY <3>1, Zenon
  <2>2. CASE send(c)
    <3>1. users' = [users EXCEPT ![c] = x2] /\ UNCHANGED <<top, procs, kids, ttys>>
      BY <1>0, <2>2, Zenon DEF send
    <3> QED BY <3>1, Zenon
  <2>3. CASE leave(c)
    <3>1. users' = [users EXCEPT ![c] = x3] /\ UNCHANGED <<top, procs, kids, ttys>>
      BY <1>0, <2>3, Zenon DEF leave
    <3> QED BY <3>1, Zenon
  <2> QED BY <2>1, <2>2, <2>3, Zenon
<1> DEFINE v == [w EXCEPT !.users[c] = x]
<1>3. x \in User /\ x.holds \subseteq w.users[c].holds
  BY <1>1, Zenon
<1> HIDE DEF x1, x2, x3, y
<1>4. World' = v
  BY <1>2 DEF World
<1> HIDE DEF w
<1>5. Good(v) /\ v.procs = w.procs
  BY <1>3, SetUser DEF w
<1> HIDE DEF v
<1> QED BY <1>4, <1>5, FineKept, Zenon DEF w

LEMMA ExitStep ==
  ASSUME Setting, Good(World), NEW k \in kids, exit(k)
  PROVE  Fine(World, World')
<1> DEFINE w == World
           v == World'
<1>0. w \in Worlds /\ w.kids \in SUBSET Kid /\ w.kids = kids
  BY Fields, Zenon DEF Good, Core, World
<1>1. UNCHANGED <<top, procs, ttys, users>>
  BY Zenon DEF exit
<1>2. PICK st \in {"ok", "failed"}, P \in {{}} \cup (IF FORKS THEN {{p} : p \in free_pid(World)} ELSE {}) :
        kids' = (kids \ {k}) \cup {[k EXCEPT !.st = st]} \cup {[k EXCEPT !.pid = p] : p \in P}
  BY Zenon DEF exit
<1>3. k \in Kid
  BY <1>0, Zenon
<1>4. [k EXCEPT !.st = st] \in Kid
  BY <1>3, Zenon DEF Kid
<1>5. P \subseteq 1..PIDS
  BY Zenon DEF free_pid
<1>6. \A p \in P : [k EXCEPT !.pid = p] \in Kid
  BY <1>3, <1>5, Zenon DEF Kid
<1>7. kids' \in SUBSET Kid
  BY <1>0, <1>2, <1>4, <1>6, SMTT(30)
<1>8. /\ v = [w EXCEPT !.kids = kids'] /\ v.top = w.top /\ v.procs = w.procs
      /\ v.ttys = w.ttys /\ v.users = w.users
  BY <1>1 DEF World
<1> HIDE DEF w, v
<1>9. v \in Worlds
  BY <1>0, <1>7, <1>8, SMTT(30) DEF Worlds
<1>10. Sized(v)
  BY <1>8, Zenon DEF Good, Core, Sized, w
<1>11. Good(v)
  BY <1>8, <1>9, <1>10, SameGood, Zenon DEF w
<1>12. Fine(w, v)
  BY <1>8, <1>11, FineKept, Zenon
<1> QED BY <1>12, Zenon DEF w, v

LEMMA AlarmStep ==
  ASSUME Setting, Good(World), alarm
  PROVE  Fine(World, World')
<1> DEFINE w == World
           h == [w.top EXCEPT !.armed = FALSE]
           v == [w EXCEPT !.top = h]
<1>1. World' = v
  <2>1. w.top = top /\ top' = h /\ UNCHANGED <<procs, kids, ttys, users>>
    BY Zenon DEF alarm, World
  <2> HIDE DEF h
  <2> QED BY <2>1 DEF World
<1>2. w.top \in Top
  BY Fields, Zenon DEF Good, Core
<1>3. h \in Top /\ h.nprocs = w.top.nprocs /\ h.conns = w.top.conns /\ h.ctlfd = w.top.ctlfd /\ h.starts = w.top.starts
  BY <1>2, Zenon DEF Top
<1> HIDE DEF w, h
<1>4. Good(v) /\ v.procs = w.procs
  BY <1>3, SetTop DEF w
<1> HIDE DEF v
<1> QED BY <1>1, <1>4, FineKept, SMTT(30) DEF w

LEMMA NextFine ==
  ASSUME Setting, Good(World), [Next]_pty_vars
  PROVE  Fine(World, World')
<1>0. ASSUME World' = World PROVE Fine(World, World')
  BY <1>0, FineKept, Zenon
<1>1. CASE UNCHANGED pty_vars
  BY <1>0, <1>1, Zenon DEF pty_vars, World
<1>2. CASE process_sigfd
  BY <1>2, SigfdStep, Zenon
<1>3. ASSUME NEW t \in 1..STARTS, process_stdout(t) \/ process_stderr(t) PROVE Fine(World, World')
  BY <1>3, StdoutStep, StderrStep, Zenon
<1>4. ASSUME NEW c \in Clients, check_socket(c) PROVE Fine(World, World')
  BY <1>4, SocketStep, Zenon
<1>5. ASSUME NEW k \in 1..NCONNS, hangup_conn(k) PROVE Fine(World, World')
  BY <1>5, HangupStep, Zenon
<1>6. ASSUME NEW k \in 1..NCONNS, NEW m \in Requests, handle_conn(k, m) PROVE Fine(World, World')
  BY <1>6, ConnStep, Zenon
<1>7. ASSUME NEW c \in Clients, connect(c) \/ send(c) \/ leave(c) PROVE Fine(World, World')
  BY <1>7, UserStep, Zenon
<1>8. ASSUME NEW k \in kids, exit(k) PROVE Fine(World, World')
  BY <1>8, ExitStep, Zenon
<1>9. CASE alarm
  BY <1>9, AlarmStep, Zenon
<1>10. ASSUME NEW sig \in Stops, stop(sig) PROVE Fine(World, World')
  BY <1>0, <1>10, Zenon DEF stop, World
<1>11. CASE Daemon
  BY <1>2, <1>3, <1>4, <1>5, <1>6, <1>11, SMTT(30) DEF Daemon
<1> QED BY <1>1, <1>7, <1>8, <1>9, <1>10, <1>11, SMTT(30) DEF Next

LEMMA InitGood ==
  ASSUME Setting, Init
  PROVE  Good(World)
<1> DEFINE w == World
<1>0. /\ w.top = top /\ w.procs = [i \in Slots |-> NoProc] /\ w.kids = {}
      /\ w.ttys = [t \in 1..STARTS |-> [out |-> -1, err |-> -1]]
      /\ w.users = [c \in Clients |-> Idle]
  BY Zenon DEF World, Init
<1>1. /\ top \in Top /\ top.conns = [k \in 1..NCONNS |-> NoConn] /\ top.ctlfd /\ top.starts = 0 /\ top.nprocs = 0
  <2>1. [k \in 1..NCONNS |-> NoConn] \in [1..NCONNS -> Conn] /\ 0 \in 0..NPROCS /\ 0 \in 0..MaxXid /\ 0 \in 0..STARTS
    BY Empties, Sizes
  <2> QED BY <2>1, Zenon DEF Init, Top
<1>2. w \in Worlds
  <2>1. w.procs \in [Slots -> Proc] /\ w.users \in [Clients -> User] /\ w.kids \in SUBSET Kid
    BY <1>0, Empties, Zenon
  <2>2. w.ttys \in [1..STARTS -> Tty]
    <3>1. -1 \in -1..NPROCS
      BY Sizes
    <3>2. [out |-> -1, err |-> -1] \in Tty
      BY <3>1, Zenon DEF Tty
    <3> QED BY <1>0, <3>2, Zenon
  <2> QED BY <1>0, <1>1, <2>1, <2>2, Zenon DEF Worlds, World
<1>3. \A i \in Slots : Cleared(w.procs[i])
  BY <1>0 DEF NoProc, Cleared
<1>4. \A c \in Clients : w.users[c].holds = {}
  BY <1>0 DEF Idle
<1>5. \A k \in 1..NCONNS : w.top.conns[k] = NoConn /\ ~open(w, k)
  <2>1. NoConn.fd = -1
    BY Zenon DEF NoConn
  <2>2. ASSUME NEW k \in 1..NCONNS PROVE w.top.conns[k] = NoConn /\ ~open(w, k)
    <3>1. w.top.conns[k] = NoConn
      BY <1>0, <1>1
    <3>2. w.top.conns[k].fd = -1
      BY <2>1, <3>1
    <3> QED BY <3>1, <3>2 DEF open
  <2> QED BY <2>2, Zenon
<1>6. w.top.ctlfd
  BY <1>0, <1>1, Zenon
<1> HIDE DEF w
<1>7. Filled(w) /\ Sized(w) /\ Distinct(w) /\ Owned(w)
  BY <1>3, Zenon DEF Filled, Sized, Distinct, Owned, Cleared
<1>8. Polls(w) /\ Named(w)
  BY <1>3 DEF Polls, Named, Cleared
<1>9. Conns(w)
  BY <1>5, <1>6, Zenon DEF Conns
<1>10. Held(w) /\ Opened(w)
  BY <1>4, Zenon DEF Held, Opened
<1>11. Good(w)
  BY <1>2, <1>7, <1>8, <1>9, <1>10, Zenon DEF Good, Core
<1> QED BY <1>11, Zenon DEF w

-----------------------------------------------------------------------------
(* The terminals *)

LEMMA GoodTerminals ==
  ASSUME Setting, Good(World)
  PROVE  PtyTerminals
<1> DEFINE w == World
<1>0. /\ Core(w) /\ Owned(w) /\ Named(w) /\ w \in Worlds /\ w.procs \in [Slots -> Proc]
      /\ w.procs = procs /\ w.users = users /\ w.top = top /\ w.ttys = ttys
  BY Fields, Zenon DEF Good, Core, World
<1> HIDE DEF w
<1>1. NoDangling
  <2> SUFFICES ASSUME top.ctlfd, NEW i \in Slots, procs[i].cfd > 0 PROVE procs[i].cfd \in conn_fds(w)
    BY Zenon DEF NoDangling, Up, w
  <2>1. PICK k \in 1..NCONNS : w.top.conns[k].fd = procs[i].cfd
    BY <1>0, Zenon DEF Named
  <2> QED BY <2>1 DEF conn_fds
<1>2. ReadByOne
  <2> SUFFICES ASSUME Up, NEW p \in Running PROVE (p.cfd \in conn_fds(w)) # (ttys[p.mfd].out > 0)
    BY Zenon DEF ReadByOne, w
  <2>1. PICK i \in Slots : p = procs[i] /\ procs[i].pid > 0 /\ procs[i].mfd > 0
    BY Zenon DEF Running
  <2>2. p = w.procs[i] /\ p \in Proc /\ p.xid # 0
    BY <1>0, <2>1, HasNumber, Zenon
  <2>3. p.cfd \in {-1} \cup Fds
    BY <1>0, <2>2, Zenon DEF Proc, Owned
  <2>4. CASE p.cfd = -1
    <3>0. i > 0
      BY Sizes
    <3>1. ttys[p.mfd].out = i /\ i > 0
      BY <1>0, <2>1, <2>4, <3>0, Zenon DEF Core, Polls
    <3>2. p.cfd \notin conn_fds(w)
      BY <2>4, Zenon DEF conn_fds
    <3> QED BY <3>1, <3>2, Zenon
  <2>5. CASE p.cfd \in Fds
    <3>1. p.cfd > 0
      BY <2>5, Sizes, SMTT(30)
    <3>2. ttys[p.mfd].out = 0
      BY <1>0, <2>1, <3>1, Zenon DEF Core, Polls
    <3>3. p.cfd \in conn_fds(w)
      BY <1>1, <2>1, <3>1, Zenon DEF NoDangling, w
    <3>4. ~(ttys[p.mfd].out > 0)
      BY <3>2
    <3> QED BY <3>3, <3>4, Zenon
  <2> QED BY <2>3, <2>4, <2>5, Zenon
<1>3. OneTerminal
  <2> SUFFICES ASSUME NEW p \in Running, NEW c \in Clients, NEW d \in Clients,
                      p.tty \in users[c].holds, p.tty \in users[d].holds
               PROVE  c = d
    BY Zenon DEF OneTerminal
  <2>1. PICK i \in Slots : p = procs[i] /\ procs[i].pid > 0 /\ procs[i].mfd > 0
    BY Zenon DEF Running
  <2>2. p = w.procs[i] /\ w.procs[i].xid # 0
    BY <1>0, <2>1, HasNumber, Zenon
  <2>3. PICK k \in 1..NCONNS : open(w, k) /\ w.top.conns[k].fd = p.cfd /\ w.top.conns[k].who = c
    BY <1>0, <2>2, HeldOver, Zenon
  <2>4. PICK l \in 1..NCONNS : open(w, l) /\ w.top.conns[l].fd = p.cfd /\ w.top.conns[l].who = d
    BY <1>0, <2>2, HeldOver, Zenon
  <2>5. k = l
    BY <1>0, <2>3, <2>4, OneConn, Zenon
  <2> QED BY <2>3, <2>4, <2>5, Zenon
<1> QED BY <1>1, <1>2, <1>3, Zenon DEF PtyTerminals

\* A terminal is read by its client or by ptyhub, an entry names no closed
\* connection, and no two clients hold a terminal, in every state that ptyhub
\* can reach, with any number of applications, clients, connections and starts.
THEOREM TerminalsCorrect ==
  ASSUME Setting
  PROVE  Spec => []PtyTerminals
<1>1. Init => Good(World)
  BY InitGood, Zenon
<1>2. Good(World) /\ [Next]_pty_vars => Good(World)'
  <2> SUFFICES ASSUME Good(World), [Next]_pty_vars PROVE Good(World')
    BY Zenon
  <2> QED BY NextFine, Zenon DEF Fine
<1>3. Good(World) => PtyTerminals
  BY GoodTerminals, Zenon
<1> QED BY <1>1, <1>2, <1>3, PTL DEF Spec

-----------------------------------------------------------------------------
(* The numbers *)

Shown(w, x) ==
  IF find_proc(w, x) = {} THEN "free"
  ELSE IF \E i, j \in find_proc(w, x) : i # j THEN "twice"
  ELSE IF \E i \in find_proc(w, x) : w.procs[i].pid > 0 THEN "runs" ELSE "dead"

\* A number is that of one entry at most.
LEMMA ShownOnce ==
  ASSUME Setting, NEW w, Good(w), NEW x \in Numbers
  PROVE  /\ Shown(w, x) \in {"free", "runs", "dead"}
         /\ Shown(w, x) = "free" <=> \A i \in Slots : w.procs[i].xid # x
         /\ \A i \in Slots : w.procs[i].xid = x => Shown(w, x) = IF w.procs[i].pid > 0 THEN "runs" ELSE "dead"
<1>0. x # 0
  BY Sizes
<1>1. \A i, j \in Slots : w.procs[i].xid = x /\ w.procs[j].xid = x => i = j
  BY <1>0, Zenon DEF Good, Core, Distinct
<1>2. CASE \A i \in Slots : w.procs[i].xid # x
  <2>1. Shown(w, x) = "free"
    BY <1>2, Zenon DEF Shown, find_proc
  <2> QED BY <1>2, <2>1, Zenon
<1>3. ASSUME NEW i \in Slots, w.procs[i].xid = x
      PROVE  Shown(w, x) = IF w.procs[i].pid > 0 THEN "runs" ELSE "dead"
  <2>1. find_proc(w, x) = {i}
    BY <1>1, <1>3, Zenon DEF find_proc
  <2> QED BY <2>1, Zenon DEF Shown
<1> QED BY <1>2, <1>3, Zenon

\* What becomes of a number y, unless it is that of the application started.
Follows(w, v, y) ==
  \/ Shown(v, y) = Shown(w, y)
  \/ Shown(w, y) = "runs"
  \/ Shown(w, y) = "dead" /\ Shown(v, y) = "free"

LEMMA NumberFollows ==
  ASSUME Setting, NEW w, NEW v, Good(w), Good(v), NEW y \in Numbers,
         \A i \in Slots : \/ Kept(w.procs[i], v.procs[i])
                          \/ Forgot(w.procs[i], v.procs[i])
                          \/ Over(w.procs[i], v.procs[i])
                          \/ w.procs[i].xid = 0 /\ v.procs[i].xid # y
  PROVE  Follows(w, v, y)
<1>0. y # 0
  BY Sizes
<1>1. \A i \in Slots : v.procs[i].xid = y => w.procs[i].xid = y
  BY <1>0, Zenon DEF Kept, Forgot, Over
<1>2. CASE \A i \in Slots : w.procs[i].xid # y
  <2>1. Shown(w, y) = "free"
    BY <1>2, ShownOnce, Zenon
  <2>2. Shown(v, y) = "free"
    <3>1. \A i \in Slots : v.procs[i].xid # y
      BY <1>1, <1>2, Zenon
    <3> QED BY <3>1, ShownOnce, Zenon
  <2> QED BY <2>1, <2>2, Zenon DEF Follows
<1>3. ASSUME NEW i \in Slots, w.procs[i].xid = y PROVE Follows(w, v, y)
  <2>1. Shown(w, y) = IF w.procs[i].pid > 0 THEN "runs" ELSE "dead"
    BY <1>3, ShownOnce, Zenon
  <2>2. CASE w.procs[i].pid > 0
    BY <2>1, <2>2, Zenon DEF Follows
  <2>3. CASE ~(w.procs[i].pid > 0)
    <3>1. Shown(w, y) = "dead"
      BY <2>1, <2>3, Zenon
    <3>2. CASE Kept(w.procs[i], v.procs[i])
      <4>1. v.procs[i].xid = y /\ ~(v.procs[i].pid > 0)
        BY <1>3, <2>3, <3>2, Zenon DEF Kept
      <4>2. Shown(v, y) = IF v.procs[i].pid > 0 THEN "runs" ELSE "dead"
        BY <4>1, ShownOnce, Zenon
      <4>3. Shown(v, y) = "dead"
        BY <4>1, <4>2, Zenon
      <4> QED BY <3>1, <4>3, Zenon DEF Follows
    <3>3. CASE Forgot(w.procs[i], v.procs[i])
      <4>1. \A j \in Slots : w.procs[j].xid = y => j = i
        BY <1>0, <1>3, OneNumber, Zenon DEF Good
      <4>2. v.procs[i].xid # y
        BY <1>0, <3>3, Zenon DEF Forgot
      <4>3. \A j \in Slots : v.procs[j].xid # y
        BY <1>1, <4>1, <4>2, Zenon
      <4>4. Shown(v, y) = "free"
        BY <4>3, ShownOnce, Zenon
      <4> QED BY <3>1, <4>4, Zenon DEF Follows
    <3> QED BY <1>0, <1>3, <2>3, <3>2, <3>3, SMTT(30) DEF Over
  <2> QED BY <2>2, <2>3, Zenon
<1> QED BY <1>2, <1>3, Zenon

LEMMA StepLife ==
  ASSUME Setting, Good(World), Good(World'), Steps(World, World')
  PROVE  LifeStep
<1> DEFINE w == World
           v == World'
<1>1. Entries = [x \in Numbers |-> Shown(w, x)] /\ Entries' = [x \in Numbers |-> Shown(v, x)]
  BY Zenon DEF Entries, Shown, World, find_proc
<1> HIDE DEF w, v
<1>2. Good(w) /\ Good(v) /\ Steps(w, v)
  BY Zenon DEF w, v
<1>3. \A x \in Numbers : Entries[x] = Shown(w, x) /\ Entries'[x] = Shown(v, x)
  BY <1>1, Zenon
<1>4. Entries' \in [Numbers -> {"free", "runs", "dead"}]
  <2>1. \A x \in Numbers : Shown(v, x) \in {"free", "runs", "dead"}
    BY <1>2, ShownOnce, Zenon
  <2> QED BY <1>1, <2>1, Zenon
<1>5. CASE Ends(w, v)
  <2>1. \A y \in Numbers : Follows(w, v, y)
    BY <1>2, <1>5, NumberFollows, SMTT(30) DEF Ends
  <2>2. Life!End
    BY <1>3, <1>4, <2>1, SMTT(30) DEF Life!End, Follows
  <2> QED BY <2>2, Zenon DEF LifeStep, Life!LifeNext
<1>6. CASE Begins(w, v)
  <2>1. PICK i \in Slots :
          /\ w.procs[i].xid = 0 /\ v.procs[i].xid # 0 /\ v.procs[i].pid > 0
          /\ \A j \in Slots : w.procs[j].xid # v.procs[i].xid
          /\ \A j \in Slots \ {i} : Kept(w.procs[j], v.procs[j]) \/ Forgot(w.procs[j], v.procs[j])
    BY <1>6, Zenon DEF Begins
  <2> DEFINE x == v.procs[i].xid
  <2>2. x \in Numbers
    <3>1. v.procs[i] \in Proc
      BY <1>2, Fields, Zenon DEF Good, Core
    <3>2. x \in 0..MaxXid
      BY <3>1, Zenon DEF Proc
    <3> QED BY <2>1, <3>2, Sizes, SMTT(30)
  <2>3. Shown(w, x) = "free" /\ Shown(v, x) = "runs"
    <3>1. Shown(w, x) = "free"
      BY <1>2, <2>1, <2>2, ShownOnce, SMTT(30)
    <3>2. Shown(v, x) = IF v.procs[i].pid > 0 THEN "runs" ELSE "dead"
      BY <1>2, <2>2, ShownOnce, Zenon
    <3> QED BY <2>1, <3>1, <3>2, Zenon
  <2>4. ASSUME NEW y \in Numbers \ {x} PROVE (Follows(w, v, y) /\ Shown(w, y) # "runs") \/ Shown(v, y) = Shown(w, y)
    <3>1. \A j \in Slots : \/ Kept(w.procs[j], v.procs[j])
                           \/ Forgot(w.procs[j], v.procs[j])
                           \/ Over(w.procs[j], v.procs[j])
                           \/ w.procs[j].xid = 0 /\ v.procs[j].xid # y
      <4> SUFFICES ASSUME NEW j \in Slots
                   PROVE  \/ Kept(w.procs[j], v.procs[j])
                          \/ Forgot(w.procs[j], v.procs[j])
                          \/ w.procs[j].xid = 0 /\ v.procs[j].xid # y
        BY Zenon
      <4>1. CASE j = i
        BY <2>1, <2>4, <4>1, Zenon
      <4>2. CASE j # i
        BY <2>1, <4>2, Zenon
      <4> QED BY <4>1, <4>2, Zenon
    <3>2. Follows(w, v, y)
      BY <1>2, <2>4, <3>1, NumberFollows, SMTT(30)
    <3>3. CASE Shown(w, y) # "runs"
      BY <3>2, <3>3, Zenon
    <3>4. CASE Shown(w, y) = "runs"
      <4>1. PICK j \in Slots : w.procs[j].xid = y
        BY <1>2, <2>4, <3>4, ShownOnce, SMTT(30)
      <4>2. Shown(w, y) = IF w.procs[j].pid > 0 THEN "runs" ELSE "dead"
        BY <1>2, <2>4, <4>1, ShownOnce, SMTT(30)
      <4>3. w.procs[j].pid > 0
        BY <3>4, <4>2, Zenon
      <4>4. y # 0
        BY <2>4, Sizes, SMTT(30)
      <4>5. w.procs[j].pid \in -1..PIDS
        <5>1. w.procs[j] \in Proc
          BY <1>2, Fields, Zenon DEF Good, Core
        <5> QED BY <5>1, Zenon DEF Proc
      <4>6. Kept(w.procs[j], v.procs[j])
        <5>1. j # i
          BY <2>1, <4>1, <4>4, SMTT(30)
        <5>2. ~(w.procs[j].pid <= 0)
          BY <4>3, <4>5, SMTT(30) DEF Setting
        <5> QED BY <2>1, <5>1, <5>2, SMTT(30) DEF Forgot
      <4>7. v.procs[j].xid = y /\ v.procs[j].pid > 0
        BY <4>1, <4>3, <4>6, Zenon DEF Kept
      <4>8. Shown(v, y) = IF v.procs[j].pid > 0 THEN "runs" ELSE "dead"
        BY <1>2, <2>4, <4>7, ShownOnce, SMTT(30)
      <4> QED BY <3>4, <4>7, <4>8, SMTT(30)
    <3> QED BY <3>3, <3>4, Zenon
  <2> HIDE DEF x
  <2>5. Life!Start(x)
    BY <1>3, <1>4, <2>2, <2>3, <2>4, SMTT(30) DEF Life!Start, Follows
  <2> QED BY <2>2, <2>5, Zenon DEF LifeStep, Life!LifeNext
<1> QED BY <1>2, <1>5, <1>6, Zenon DEF Steps

\* ptyhub implements AppLife: a number stands for one application from its
\* start until it is forgotten, however many are started, end or fail to start.
THEOREM XidsCorrect ==
  ASSUME Setting
  PROVE  Spec => XidsKept
<1>1. Init => Good(World)
  BY InitGood, Zenon
<1>2. Good(World) /\ [Next]_pty_vars => Good(World)'
  <2> SUFFICES ASSUME Good(World), [Next]_pty_vars PROVE Good(World')
    BY Zenon
  <2> QED BY NextFine, Zenon DEF Fine
<1>3. Init => Life!LifeInit
  <2> SUFFICES ASSUME Init PROVE Entries = [x \in Numbers |-> "free"]
    BY Zenon DEF Life!LifeInit
  <2>1. \A x \in Numbers : find_proc(World, x) = {}
    <3>1. \A i \in Slots : World.procs[i].xid = 0
      BY Zenon DEF Init, World, NoProc
    <3> QED BY <3>1, Sizes DEF find_proc
  <2> QED BY <2>1, Zenon DEF Entries
<1>4. Good(World) /\ [Next]_pty_vars => [Life!LifeNext]_Entries
  <2> SUFFICES ASSUME Good(World), [Next]_pty_vars PROVE LifeStep
    BY Zenon DEF LifeStep
  <2> QED BY NextFine, StepLife, Zenon DEF Fine
<1> QED BY <1>1, <1>2, <1>3, <1>4, PTL DEF Spec, XidsKept, Life!Life
=============================================================================
