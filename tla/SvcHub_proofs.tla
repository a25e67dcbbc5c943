---------------------------- MODULE SvcHub_proofs ----------------------------
(***************************************************************************)
(* Proofs about SvcHub for every size of its tables and every set of       *)
(* names, pids and wait statuses: the types, the exactness of nalive and   *)
(* the agreement between the service table and the kernel's children.      *)
(***************************************************************************)
EXTENDS SvcHub, FiniteSetTheorems, WellFoundedInduction, TLAPS

-----------------------------------------------------------------------------
(* The inductive invariant, as a relation between a table P with m entries in  *)
(* use and n counted processes, children K, script S and the number f of      *)
(* services given up on.  Several handlers reap, then fork: the relation      *)
(* holds in between as well.                                                  *)

LiveIn(P) == {i \in Slots : Alive(P[i])}

Typed(P, K, S, f, m) ==
  /\ P \in [Slots -> ProcType]
  /\ K \in [Pids -> KidType]
  /\ S \in Pids \cup {0, -1}
  /\ f \in Nat
  /\ m \in 0..NPROCS

\* Nothing beyond m, no pid or name in an unused slot, P_IN_USE in every other.
Shape(P, m) ==
  \A i \in Slots :
     /\ i > m => P[i].flags = {}
     /\ P[i].flags = {} => P[i].pid = 0 /\ P[i].name = ""
     /\ P[i].flags # {} => P_IN_USE \in P[i].flags

\* A reaped child leaves nothing behind; the script is a child, not a service.
Kids(K, S) ==
  /\ \A p \in Pids : K[p].st = "free" => K[p].what = "none"
  /\ S \in Pids => K[S].st # "free" /\ K[S].what # "svc"

Exact(P, n, f) == n = Cardinality(LiveIn(P)) + f

Tracked(P, K, S, f) ==
  /\ \A i \in LiveIn(P) :
        /\ P[i].pid \in Pids /\ P[i].pid # S
        /\ K[P[i].pid].st # "free" /\ K[P[i].pid].what = "svc"
        /\ \A j \in LiveIn(P) : P[j].pid = P[i].pid => i = j
  /\ f = 0 => \A p \in Pids : K[p].what = "svc" => \E i \in LiveIn(P) : P[i].pid = p

Agree(P, K, S, n, f, m) ==
  Typed(P, K, S, f, m) /\ Shape(P, m) /\ Kids(K, S) /\ Exact(P, n, f) /\ Tracked(P, K, S, f)

TopRest ==
  /\ hub \in {"poll", "reap", "failed", "halted"}
  /\ state \in 0..4 /\ rbmode \in {"none", "reboot", "poweroff"} \cup Modes
  /\ sigcnt \in 0..RETRIES /\ ctlfd \in {OPEN, CLOSED}

KernRest ==
  /\ sigs \subseteq {"CHLD", "ALRM"} /\ alarm \in BOOLEAN
  /\ pipe \in [Slots -> [data : BOOLEAN, hup : BOOLEAN]] /\ leaked \subseteq Slots
  /\ lost \in [Slots -> BOOLEAN]

AgreeNow == Agree(procs, kid, scrpid, nalive, forced, nprocs)

IInv == AgreeNow /\ TopRest /\ ConnType /\ KernRest

\* fork() succeeds: a failed one leaves an entry with the pid of a dead process
ForkWorks == "nofork" \notin Env

\* What the proofs use of the assumption on the constants.
LEMMA Sizes == NPROCS \in Nat /\ NCONNS \in Nat /\ RETRIES \in Nat
  BY SvcAssumption, Zenon DEF SvcAssumption

\* What the proofs use of the values an entry may hold.
LEMMA Values == 0 \in Statuses /\ 0 \notin Pids /\ -1 \notin Pids /\ "" \notin Names
  BY SvcAssumption, Zenon DEF SvcAssumption

\* The flags a service is started with are P_PASS and P_ONCE.
LEMMA KindFlags == \A fl \in Kinds : fl \subseteq {P_PASS, P_ONCE}
<1>1. Kinds \subseteq {{}, {P_PASS}, {P_ONCE}}
  BY SvcAssumption, Zenon DEF SvcAssumption
<1> QED BY <1>1

\* The records the operations put together.
LEMMA Records ==
  /\ Empty \in ProcType
  /\ NoKid \in KidType
  /\ \A what \in {"svc", "startup", "shell", "shutdown", "failure"} : Run(what) \in KidType
  /\ NoPipe \in [data : BOOLEAN, hup : BOOLEAN]
  BY Values, Zenon DEF Empty, ProcType, NoKid, Run, KidType, NoPipe

\* First gives the lowest of a set of slots, or of connections.
LEMMA FirstIn ==
  ASSUME NEW A \in SUBSET Nat, A # {}
  PROVE  First(A) \in A
<1> DEFINE R == OpToRel(<, Nat)
<1>1. IsWellFoundedOn(R, Nat)
  BY NatLessThanWellFounded, Zenon
<1> HIDE DEF R
<1>2. PICK x \in A : \A y \in A : ~(<<y, x>> \in R)
  BY <1>1, WFMin, Zenon
<1>3. \A y \in Nat : y < x => <<y, x>> \in R
  <2> TAKE y \in Nat
  <2> HAVE y < x
  <2> DEFINE ss == <<y, x>>
  <2>1. ss \in Nat \X Nat /\ ss[1] < ss[2]
    OBVIOUS
  <2> HIDE DEF ss
  <2>2. ss \in {st \in Nat \X Nat : st[1] < st[2]}
    BY <2>1
  <2> QED BY <2>2 DEF ss, R, OpToRel
<1>4. \A y \in A : x <= y
  <2>1. \A y \in A : y \in Nat /\ ~(y < x)
    BY <1>2, <1>3, Zenon
  <2>2. x \in Nat
    OBVIOUS
  <2> QED BY <2>1, <2>2
<1>5. QED
  BY <1>4, Zenon DEF First

-----------------------------------------------------------------------------
(* Counting the entries that have a process *)

\* At most NPROCS entries have a process.
LEMMA LiveFinite ==
  ASSUME NEW P
  PROVE  IsFiniteSet(LiveIn(P)) /\ Cardinality(LiveIn(P)) \in 0..NPROCS
<1>1. IsFiniteSet(Slots) /\ Cardinality(Slots) = NPROCS
  BY Sizes, FS_Interval DEF Slots
<1>2. LiveIn(P) \subseteq Slots
  BY DEF LiveIn
<1>3. IsFiniteSet(LiveIn(P)) /\ Cardinality(LiveIn(P)) <= NPROCS
  BY <1>1, <1>2, FS_Subset
<1>4. Cardinality(LiveIn(P)) \in Nat
  BY <1>3, FS_CardinalityType
<1>5. QED
  BY <1>3, <1>4, Sizes

\* Entry i gets a process, or loses it.
LEMMA LiveCount ==
  ASSUME NEW P \in [Slots -> ProcType], NEW i \in Slots, NEW r
  PROVE  /\ ~Alive(P[i]) /\ Alive(r)
              => /\ LiveIn([P EXCEPT ![i] = r]) = LiveIn(P) \cup {i}
                 /\ Cardinality(LiveIn([P EXCEPT ![i] = r])) = Cardinality(LiveIn(P)) + 1
         /\ Alive(P[i]) /\ ~Alive(r)
              => /\ LiveIn([P EXCEPT ![i] = r]) = LiveIn(P) \ {i}
                 /\ Cardinality(LiveIn([P EXCEPT ![i] = r])) = Cardinality(LiveIn(P)) - 1
<1>1. IsFiniteSet(LiveIn(P))
  BY LiveFinite
<1>2. ASSUME ~Alive(P[i]), Alive(r)
      PROVE  LiveIn([P EXCEPT ![i] = r]) = LiveIn(P) \cup {i} /\ i \notin LiveIn(P)
  BY <1>2 DEF LiveIn
<1>3. ASSUME Alive(P[i]), ~Alive(r)
      PROVE  LiveIn([P EXCEPT ![i] = r]) = LiveIn(P) \ {i} /\ i \in LiveIn(P)
  BY <1>3 DEF LiveIn
<1>4. QED
  BY <1>1, <1>2, <1>3, FS_AddElement, FS_RemoveElement, Zenon

-----------------------------------------------------------------------------
(* What the handlers do to the relation *)

\* A slot past the grown table is past the old one, and not the one it grew by.
LEMMA SlotsBelow ==
  \A i, j \in Slots : \A m, mm \in 0..NPROCS : m <= mm /\ i <= mm /\ j > mm => j # i /\ j > m
  BY Sizes DEF Slots

\* A record of the right form can be put anywhere in the table, which may grow.
LEMMA ShapeSet ==
  ASSUME NEW P \in [Slots -> ProcType], NEW m \in 0..NPROCS, Shape(P, m),
         NEW i \in Slots, NEW mm \in 0..NPROCS, m <= mm, i <= mm,
         NEW r \in ProcType,
         r.flags = {} => r.pid = 0 /\ r.name = "", r.flags # {} => P_IN_USE \in r.flags
  PROVE  Shape([P EXCEPT ![i] = r], mm)
<1>1. \A j \in Slots : j > mm => j # i /\ j > m
  BY SlotsBelow, Zenon
<1>2. QED
  BY <1>1, Zenon DEF Shape

\* An entry without a process changes and still has none.
LEMMA Idle ==
  ASSUME NEW P, NEW K, NEW S, NEW n, NEW f, NEW m, Agree(P, K, S, n, f, m),
         NEW i \in Slots, NEW r \in ProcType, ~Alive(P[i]), ~Alive(r),
         NEW mm \in 0..NPROCS, Shape([P EXCEPT ![i] = r], mm)
  PROVE  Agree([P EXCEPT ![i] = r], K, S, n, f, mm)
<1> DEFINE Q == [P EXCEPT ![i] = r]
<1>1. Typed(Q, K, S, f, mm)
  BY DEF Agree, Typed
<1>2. LiveIn(Q) = LiveIn(P) /\ \A j \in LiveIn(P) : Q[j] = P[j]
  BY DEF Agree, Typed, LiveIn
<1>3. Exact(Q, n, f)
  BY <1>2 DEF Agree, Exact
<1>4. Tracked(Q, K, S, f)
  <2> HIDE DEF Q
  <2> QED BY <1>2 DEF Agree, Tracked
<1>5. QED
  BY <1>1, <1>3, <1>4 DEF Agree

\* A service is reaped: its entry, left without a process, no longer counts.
LEMMA Reaped ==
  ASSUME NEW P, NEW K, NEW S, NEW n, NEW f, NEW m, Agree(P, K, S, n, f, m),
         NEW i \in Slots, NEW r \in ProcType, Alive(P[i]), ~Alive(r), Shape([P EXCEPT ![i] = r], m)
  PROVE  Agree([P EXCEPT ![i] = r], [K EXCEPT ![P[i].pid] = NoKid], S, n - 1, f, m)
<1> DEFINE Q == [P EXCEPT ![i] = r]
           q == P[i].pid
           L == [K EXCEPT ![q] = NoKid]
<1>1. i \in LiveIn(P) /\ q \in Pids /\ q # S
  BY DEF Agree, Tracked, LiveIn
<1>2. Typed(Q, L, S, f, m)
  BY <1>1, Records DEF Agree, Typed
<1>3. Kids(L, S)
  BY <1>1 DEF Agree, Typed, Kids, NoKid
<1>4. /\ LiveIn(Q) = LiveIn(P) \ {i}
      /\ Cardinality(LiveIn(Q)) = Cardinality(LiveIn(P)) - 1
  BY LiveCount, Zenon DEF Agree, Typed
<1>5. Exact(Q, n - 1, f)
  BY <1>4, LiveFinite, Sizes DEF Agree, Typed, Exact
<1>6. \A j \in LiveIn(Q) : Q[j] = P[j] /\ P[j].pid \in Pids /\ P[j].pid # q /\ L[P[j].pid] = K[P[j].pid]
  BY <1>1, <1>4 DEF Agree, Typed, Tracked, LiveIn
<1>7. \A p \in Pids : L[p].what = "svc" => p # q /\ K[p].what = "svc"
  BY <1>1 DEF Agree, Typed, NoKid
<1>8. Tracked(Q, L, S, f)
  <2> HIDE DEF Q, L, q
  <2>1. \A j \in LiveIn(Q) :
           /\ Q[j].pid \in Pids /\ Q[j].pid # S
           /\ L[Q[j].pid].st # "free" /\ L[Q[j].pid].what = "svc"
           /\ \A h \in LiveIn(Q) : Q[h].pid = Q[j].pid => j = h
    BY <1>4, <1>6 DEF Agree, Tracked
  <2>2. ASSUME f = 0, NEW p \in Pids, L[p].what = "svc"
        PROVE  \E j \in LiveIn(Q) : Q[j].pid = p
    <3>1. PICK j \in LiveIn(P) : P[j].pid = p
      BY <1>7, <2>2 DEF Agree, Tracked
    <3>2. j # i
      BY <1>7, <2>2, <3>1 DEF q
    <3>3. QED
      BY <1>4, <1>6, <3>1, <3>2
  <2>3. QED
    BY <2>1, <2>2 DEF Tracked
<1>9. QED
  BY <1>2, <1>3, <1>5, <1>8 DEF Agree

\* A service is forked for an entry that has no process.
LEMMA Spawned ==
  ASSUME NEW P, NEW K, NEW S, NEW n, NEW f, NEW m, Agree(P, K, S, n, f, m),
         NEW i \in Slots, NEW r \in ProcType, ~Alive(P[i]), Alive(r),
         NEW mm \in 0..NPROCS, Shape([P EXCEPT ![i] = r], mm),
         r.pid \in Pids, K[r.pid].st = "free"
  PROVE  Agree([P EXCEPT ![i] = r], [K EXCEPT ![r.pid] = Run("svc")], S, n + 1, f, mm)
<1> DEFINE Q == [P EXCEPT ![i] = r]
           q == r.pid
           L == [K EXCEPT ![q] = Run("svc")]
<1>1. q \in Pids /\ q # S
  BY DEF Agree, Kids
<1>2. Typed(Q, L, S, f, mm)
  BY <1>1, Records DEF Agree, Typed
<1>3. Kids(L, S)
  BY <1>1 DEF Agree, Typed, Kids, Run
<1>4. /\ LiveIn(Q) = LiveIn(P) \cup {i}
      /\ Cardinality(LiveIn(Q)) = Cardinality(LiveIn(P)) + 1
      /\ i \notin LiveIn(P)
  BY LiveCount DEF Agree, Typed, LiveIn
<1>5. Exact(Q, n + 1, f)
  BY <1>4, LiveFinite, Sizes DEF Agree, Typed, Exact
<1>6. Q[i].pid = q /\ L[q].st # "free" /\ L[q].what = "svc"
  BY <1>1 DEF Agree, Typed, Run
<1>7. \A j \in LiveIn(P) : Q[j] = P[j] /\ P[j].pid \in Pids /\ P[j].pid # q /\ L[P[j].pid] = K[P[j].pid]
  BY <1>1, <1>4 DEF Agree, Typed, Tracked, LiveIn
<1>8. \A p \in Pids : p # q => L[p] = K[p]
  BY <1>1 DEF Agree, Typed
<1>9. Tracked(Q, L, S, f)
  <2> HIDE DEF Q, L, q
  <2>1. \A j \in LiveIn(Q) :
           /\ Q[j].pid \in Pids /\ Q[j].pid # S
           /\ L[Q[j].pid].st # "free" /\ L[Q[j].pid].what = "svc"
           /\ \A h \in LiveIn(Q) : Q[h].pid = Q[j].pid => j = h
    BY <1>1, <1>4, <1>6, <1>7 DEF Agree, Tracked
  <2>2. ASSUME f = 0, NEW p \in Pids, L[p].what = "svc"
        PROVE  \E j \in LiveIn(Q) : Q[j].pid = p
    BY <1>4, <1>6, <1>7, <1>8, <2>2 DEF Agree, Tracked
  <2>3. QED
    BY <2>1, <2>2 DEF Tracked
<1>10. QED
  BY <1>2, <1>3, <1>5, <1>9 DEF Agree

\* Entries keep name and pid, those in use may become P_KILLED; children
\* neither come nor go.
LEMMA Quiet ==
  ASSUME NEW P, NEW K, NEW S, NEW n, NEW f, NEW m, Agree(P, K, S, n, f, m),
         NEW Q \in [Slots -> ProcType], NEW L \in [Pids -> KidType],
         \A i \in Slots :
            /\ Q[i].pid = P[i].pid /\ Q[i].name = P[i].name
            /\ \/ Q[i].flags = P[i].flags
               \/ P[i].flags # {} /\ Q[i].flags = P[i].flags \cup {P_KILLED},
         \A p \in Pids : L[p].what = K[p].what /\ (L[p].st = "free" <=> K[p].st = "free")
  PROVE  Agree(Q, L, S, n, f, m)
<1>1. Typed(Q, L, S, f, m)
  BY DEF Agree, Typed
<1>2. Shape(Q, m)
  BY Zenon DEF Agree, Shape
<1>3. Kids(L, S)
  BY DEF Agree, Kids
<1>4. LiveIn(Q) = LiveIn(P)
  BY DEF LiveIn, Alive, P_KILLED, P_STATUS
<1>5. Exact(Q, n, f)
  BY <1>4 DEF Agree, Exact
<1>6. Tracked(Q, L, S, f)
  BY <1>4 DEF Agree, Tracked, LiveIn
<1>7. QED
  BY <1>1, <1>2, <1>3, <1>5, <1>6 DEF Agree

\* A script is forked when none runs.
LEMMA ScriptForked ==
  ASSUME NEW P, NEW K, NEW S, NEW n, NEW f, NEW m, Agree(P, K, S, n, f, m), S \notin Pids,
         NEW p \in Pids, K[p].st = "free", NEW what \in {"startup", "shell", "shutdown", "failure"}
  PROVE  Agree(P, [K EXCEPT ![p] = Run(what)], p, n, f, m)
<1> DEFINE L == [K EXCEPT ![p] = Run(what)]
<1>1. Typed(P, L, p, f, m)
  BY Records DEF Agree, Typed
<1>2. Kids(L, p)
  BY DEF Agree, Typed, Kids, Run
<1>3. \A i \in LiveIn(P) : P[i].pid \in Pids /\ P[i].pid # p /\ L[P[i].pid] = K[P[i].pid]
  BY DEF Agree, Typed, Tracked
<1>4. \A q \in Pids : L[q].what = "svc" => K[q].what = "svc"
  BY DEF Agree, Typed, Run
<1>5. Tracked(P, L, p, f)
  <2> HIDE DEF L
  <2> QED BY <1>3, <1>4 DEF Agree, Tracked
<1>6. QED
  BY <1>1, <1>2, <1>5 DEF Agree

\* A child that is not a service of the table is reaped; if it was the script,
\* there is none any more.
LEMMA OtherReaped ==
  ASSUME NEW P, NEW K, NEW S, NEW n, NEW f, NEW m, Agree(P, K, S, n, f, m),
         NEW p \in Pids, \A i \in LiveIn(P) : P[i].pid # p,
         NEW T \in Pids \cup {0, -1}, T = IF p = S THEN 0 ELSE S
  PROVE  Agree(P, [K EXCEPT ![p] = NoKid], T, n, f, m)
<1> DEFINE L == [K EXCEPT ![p] = NoKid]
<1>1. Typed(P, L, T, f, m)
  BY Records DEF Agree, Typed
<1>2. Kids(L, T)
  BY Values, Zenon DEF Agree, Typed, Kids, NoKid
<1>3. \A i \in LiveIn(P) : P[i].pid \in Pids /\ P[i].pid # p /\ P[i].pid # T /\ L[P[i].pid] = K[P[i].pid]
  BY Values, ZenonT(40) DEF Agree, Typed, Tracked
<1>4. \A q \in Pids : L[q].what = "svc" => K[q].what = "svc"
  BY DEF Agree, Typed, NoKid
<1>5. Tracked(P, L, T, f)
  <2> HIDE DEF L
  <2> QED BY <1>3, <1>4 DEF Agree, Tracked
<1>6. QED
  BY <1>1, <1>2, <1>5 DEF Agree

\* A process that is nobody's becomes a dead child of pid 1.
LEMMA OrphanCame ==
  ASSUME NEW P, NEW K, NEW S, NEW n, NEW f, NEW m, Agree(P, K, S, n, f, m),
         NEW p \in Pids, K[p].st = "free", NEW k \in KidType, k.st = "zombie", k.what = "orphan"
  PROVE  Agree(P, [K EXCEPT ![p] = k], S, n, f, m)
<1> DEFINE L == [K EXCEPT ![p] = k]
<1>1. Typed(P, L, S, f, m)
  BY DEF Agree, Typed
<1>2. Kids(L, S)
  BY DEF Agree, Typed, Kids
<1>3. \A i \in LiveIn(P) : P[i].pid \in Pids /\ P[i].pid # p /\ L[P[i].pid] = K[P[i].pid]
  BY DEF Agree, Typed, Tracked
<1>4. \A q \in Pids : L[q].what = "svc" => K[q].what = "svc"
  BY DEF Agree, Typed
<1>5. Tracked(P, L, S, f)
  <2> HIDE DEF L
  <2> QED BY <1>3, <1>4 DEF Agree, Tracked
<1>6. QED
  BY <1>1, <1>2, <1>5 DEF Agree

\* force_shutdown forgets every process, and the script.
LEMMA Disowned ==
  ASSUME NEW P, NEW K, NEW S, NEW n, NEW f, NEW m, Agree(P, K, S, n, f, m),
         NEW L \in [Pids -> KidType],
         \A p \in Pids : L[p].what = K[p].what /\ (L[p].st = "free" <=> K[p].st = "free")
  PROVE  Agree([i \in Slots |-> IF i \in LiveIn(P) THEN [P[i] EXCEPT !.pid = 0] ELSE P[i]],
               L, IF S \in Pids THEN -1 ELSE S, n, f + Cardinality(LiveIn(P)), m)
<1> DEFINE Q == [i \in Slots |-> IF i \in LiveIn(P) THEN [P[i] EXCEPT !.pid = 0] ELSE P[i]]
           T == IF S \in Pids THEN -1 ELSE S
           g == f + Cardinality(LiveIn(P))
<1>1. Cardinality(LiveIn(P)) \in Nat
  BY LiveFinite, Sizes
<1>2. Q \in [Slots -> ProcType]
  BY Values, ZenonT(40) DEF Agree, Typed, ProcType
<1>3. Typed(Q, L, T, g, m)
  BY <1>1, <1>2 DEF Agree, Typed
<1>4. Shape(Q, m)
  BY ZenonT(40) DEF Agree, Typed, Shape, ProcType
<1>5. Kids(L, T)
  BY Values, Zenon DEF Agree, Typed, Kids
<1>6. LiveIn(Q) = {}
  BY Zenon DEF Agree, Typed, LiveIn, Alive, ProcType
<1>7. Exact(Q, n, g)
  <2>1. Cardinality(LiveIn(Q)) = 0
    BY <1>6, FS_EmptySet, Zenon
  <2> QED BY <2>1, <1>1 DEF Agree, Typed, Exact
<1>8. Tracked(Q, L, T, g)
  <2>1. g = 0 => f = 0 /\ LiveIn(P) = {}
    <3>1. g = 0 => f = 0 /\ Cardinality(LiveIn(P)) = 0
      BY <1>1 DEF Agree, Typed
    <3> QED BY <3>1, LiveFinite, FS_EmptySet
  <2> HIDE DEF Q, T, g
  <2> QED BY <1>6, <2>1 DEF Agree, Tracked
<1>9. QED
  BY <1>3, <1>4, <1>5, <1>7, <1>8 DEF Agree

-----------------------------------------------------------------------------
(* The invariant implies the properties and holds initially *)

\* The inductive invariant gives the three invariants the runs check.
LEMMA IInvImplies == IInv => TypeOK /\ NaliveExact /\ ChildrenTracked
<1> SUFFICES ASSUME IInv PROVE TypeOK /\ NaliveExact /\ ChildrenTracked
  OBVIOUS
<1>1. AliveSlots = LiveIn(procs)
  BY DEF AliveSlots, LiveIn
<1>2. NaliveExact
  BY <1>1 DEF IInv, AgreeNow, Agree, Exact, NaliveExact
<1>3. ChildrenTracked
  BY <1>1 DEF IInv, AgreeNow, Agree, Tracked, ChildrenTracked
<1>4. nalive \in 0..NPROCS + forced
  BY <1>1, <1>2, LiveFinite, Sizes DEF IInv, AgreeNow, Agree, Typed, NaliveExact
<1>5. TypeOK
  BY <1>4 DEF IInv, AgreeNow, Agree, Typed, TopRest, KernRest, TypeOK, TopType, TabType, KernType
<1>6. QED
  BY <1>2, <1>3, <1>5

\* The state in which main enters the loop satisfies the inductive invariant.
LEMMA InitIInv == Init => IInv
<1> SUFFICES ASSUME Init PROVE IInv
  OBVIOUS
<1>1. LiveIn(procs) = {}
  BY Zenon DEF Init, LiveIn, Alive, Empty
<1>2. TopRest
  BY Sizes DEF Init, TopRest, S_STARTUP, OPEN
<1>3. ConnType
  BY Sizes DEF Init, ConnType
<1>4. KernRest
  BY Records, Zenon DEF Init, KernRest
<1>5. Typed(procs, kid, scrpid, forced, nprocs)
  BY Records, Sizes DEF Init, Typed
<1>6. Shape(procs, nprocs)
  BY Zenon DEF Init, Shape, Empty
<1>7. Kids(kid, scrpid)
  BY Values, Zenon DEF Init, Kids, NoKid, Run
<1>8. Exact(procs, nalive, forced)
  <2>1. nalive = 0 /\ forced = 0
    BY DEF Init
  <2>2. Cardinality(LiveIn(procs)) = 0
    BY <1>1, FS_EmptySet, Zenon
  <2> QED BY <2>1, <2>2 DEF Exact
<1>9. Tracked(procs, kid, scrpid, forced)
  BY <1>1 DEF Init, Tracked, NoKid, Run
<1>10. QED
  BY <1>2, <1>3, <1>4, <1>5, <1>6, <1>7, <1>8, <1>9 DEF IInv, AgreeNow, Agree

-----------------------------------------------------------------------------
(* Commands *)

\* A failed access() leaves entry i bad, a fork gives it a process; x is what
\* the entry was taken to be before.
LEMMA SpawnPath ==
  ASSUME ForkWorks, KernRest, procs \in [Slots -> ProcType],
         NEW i \in Slots, NEW rec \in ProcType, NEW bad \in ProcType, NEW x \in ProcType,
         NEW k, NEW n, NEW ret, NEW m,
         Agree([procs EXCEPT ![i] = x], k, scrpid, n, forced, m), ~Alive(x),
         P_IN_USE \in rec.flags, P_STATUS \notin rec.flags,
         ~Alive(bad), bad.flags = {} => bad.pid = 0 /\ bad.name = "",
         bad.flags # {} => P_IN_USE \in bad.flags,
         nprocs' \in 0..NPROCS, i <= nprocs', m <= nprocs',
         spawn_path(i, rec, bad, k, n, ret), scrpid' = scrpid, forced' = forced
  PROVE  /\ AgreeNow'
         /\ pipe' \in [Slots -> [data : BOOLEAN, hup : BOOLEAN]] /\ leaked' \subseteq Slots
<1> DEFINE P == [procs EXCEPT ![i] = x]
<1>1. /\ P \in [Slots -> ProcType] /\ P[i] = x /\ k \in [Pids -> KidType] /\ m \in 0..NPROCS
      /\ \A r : [P EXCEPT ![i] = r] = [procs EXCEPT ![i] = r]
  BY Zenon DEF Agree, Typed
<1> HIDE DEF P
<1>2. ASSUME NEW r \in ProcType,
             r.flags = {} => r.pid = 0 /\ r.name = "", r.flags # {} => P_IN_USE \in r.flags
      PROVE  Shape([P EXCEPT ![i] = r], nprocs')
  BY <1>1, <1>2, ShapeSet, Zenon DEF Agree, P
<1>3. CASE /\ procs' = [procs EXCEPT ![i] = bad]
           /\ kid' = k /\ nalive' = n
           /\ UNCHANGED <<pipe, leaked>>
  <2>1. Agree([P EXCEPT ![i] = bad], k, scrpid, n, forced, nprocs')
    BY <1>1, <1>2, Idle, Zenon DEF P
  <2>2. QED
    BY <1>1, <1>3, <2>1, Zenon DEF AgreeNow, KernRest
<1>4. ASSUME NEW p \in Pids, k[p].st = "free", NEW r \in ProcType,
             r = [rec EXCEPT !.pid = p] \/ r = [rec EXCEPT !.pid = p, !.fd = OPEN],
             kid' = [k EXCEPT ![p] = Run("svc")], nalive' = n + 1, procs' = [procs EXCEPT ![i] = r]
      PROVE  AgreeNow'
  <2>1. r.pid = p /\ r.flags = rec.flags
    BY <1>4, Zenon DEF ProcType
  <2>2. Alive(r) /\ Shape([P EXCEPT ![i] = r], nprocs')
    BY <1>2, <1>4, <2>1, Values, Zenon DEF Alive
  <2>3. Agree([P EXCEPT ![i] = r], [k EXCEPT ![r.pid] = Run("svc")], scrpid, n + 1, forced, nprocs')
    BY <1>1, <1>4, <2>1, <2>2, Spawned, Zenon DEF P
  <2>4. QED
    BY <1>1, <1>4, <2>1, <2>3, Zenon DEF AgreeNow
<1>5. ASSUME NEW p \in Pids
      PROVE  [rec EXCEPT !.pid = p] \in ProcType /\ [rec EXCEPT !.pid = p, !.fd = OPEN] \in ProcType
  BY Zenon DEF ProcType
<1>6. CASE \E p \in Pids :
             /\ k[p].st = "free"
             /\ ret = "0"
             /\ kid' = [k EXCEPT ![p] = Run("svc")]
             /\ nalive' = n + 1
             /\ IF P_PASS \in rec.flags
                THEN /\ procs' = [procs EXCEPT ![i] = [rec EXCEPT !.pid = p]]
                     /\ UNCHANGED <<pipe, leaked>>
                ELSE /\ procs' = [procs EXCEPT ![i] = [rec EXCEPT !.pid = p, !.fd = OPEN]]
                     /\ pipe' = [pipe EXCEPT ![i] = NoPipe]
                     /\ leaked' = IF rec.fd = OPEN THEN leaked \cup {i} ELSE leaked
  <2>1. AgreeNow'
    BY <1>4, <1>5, <1>6, Zenon
  <2>2. CASE UNCHANGED <<pipe, leaked>>
    BY <2>1, <2>2, Zenon DEF KernRest
  <2>3. CASE pipe' = [pipe EXCEPT ![i] = NoPipe] /\ leaked' = IF rec.fd = OPEN THEN leaked \cup {i} ELSE leaked
    BY <2>1, <2>3, Records, Zenon DEF KernRest
  <2>4. QED
    BY <1>6, <2>2, <2>3, Zenon
<1>7. QED
  BY <1>3, <1>6, Zenon DEF spawn_path, ForkWorks

-----------------------------------------------------------------------------
(* Looking up an entry *)

\* Entries in use are slots, and numbers.
LEMMA EntrySlots == nprocs \in 0..NPROCS => \A A \in SUBSET (1..nprocs) : A \in SUBSET Slots /\ A \in SUBSET Nat
  BY Sizes DEF Slots

\* find_by_name and find_by_pid give an entry of the table.
LEMMA Found ==
  ASSUME AgreeNow
  PROVE  /\ \A n : find_by_name(n) # {} =>
              LET i == First(find_by_name(n)) IN i \in Slots /\ i \in 1..nprocs /\ procs[i].name = n
         /\ \A p : find_by_pid(p) # {} =>
              LET i == First(find_by_pid(p))
              IN  i \in Slots /\ i \in 1..nprocs /\ procs[i].pid = p /\ P_STATUS \notin procs[i].flags
<1>1. nprocs \in 0..NPROCS
  BY DEF AgreeNow, Agree, Typed
<1>2. ASSUME NEW n, find_by_name(n) # {}
      PROVE  LET i == First(find_by_name(n)) IN i \in Slots /\ i \in 1..nprocs /\ procs[i].name = n
  <2>1. find_by_name(n) \in SUBSET (1..nprocs)
    BY DEF find_by_name
  <2>2. find_by_name(n) \in SUBSET Nat /\ find_by_name(n) \in SUBSET Slots
    BY <1>1, <2>1, EntrySlots
  <2>3. First(find_by_name(n)) \in find_by_name(n)
    BY <1>2, <2>2, FirstIn
  <2>4. QED
    BY <2>2, <2>3 DEF find_by_name
<1>3. ASSUME NEW p, find_by_pid(p) # {}
      PROVE  LET i == First(find_by_pid(p))
             IN  i \in Slots /\ i \in 1..nprocs /\ procs[i].pid = p /\ P_STATUS \notin procs[i].flags
  <2>1. find_by_pid(p) \in SUBSET (1..nprocs)
    BY DEF find_by_pid
  <2>2. find_by_pid(p) \in SUBSET Nat /\ find_by_pid(p) \in SUBSET Slots
    BY <1>1, <2>1, EntrySlots
  <2>3. First(find_by_pid(p)) \in find_by_pid(p)
    BY <1>3, <2>2, FirstIn
  <2>4. QED
    BY <2>2, <2>3 DEF find_by_pid
<1>4. QED
  BY <1>2, <1>3

\* grab_proc_slot gives a slot that is not in use, or none.
LEMMA Grabbed ==
  ASSUME AgreeNow, grab_proc_slot # 0
  PROVE  grab_proc_slot \in Slots /\ grab_proc_slot <= nprocs + 1 /\ procs[grab_proc_slot].flags = {}
<1> DEFINE unused == {i \in 1..nprocs : procs[i].flags = {}}
<1>1. nprocs \in 0..NPROCS /\ NPROCS \in Nat /\ Shape(procs, nprocs)
  BY Sizes DEF AgreeNow, Agree, Typed
<1>2. unused \in SUBSET (1..nprocs)
  OBVIOUS
<1>3. unused \in SUBSET Nat /\ unused \in SUBSET Slots
  BY <1>1, <1>2, EntrySlots, Zenon
<1>4. CASE unused # {}
  <2>1. grab_proc_slot = First(unused)
    BY <1>4 DEF grab_proc_slot
  <2>2. First(unused) \in unused
    BY <1>3, <1>4, FirstIn
  <2>3. First(unused) \in 1..nprocs /\ procs[First(unused)].flags = {} /\ First(unused) \in Slots
    BY <1>3, <2>2, Zenon
  <2>4. QED
    BY <1>1, <2>1, <2>3
<1>5. CASE unused = {}
  <2>1. grab_proc_slot = nprocs + 1 /\ nprocs < NPROCS
    BY <1>5 DEF grab_proc_slot
  <2>2. nprocs + 1 \in Slots /\ nprocs + 1 > nprocs /\ nprocs + 1 <= nprocs + 1
    BY <1>1, <2>1 DEF Slots
  <2>3. QED
    BY <1>1, <2>1, <2>2, Zenon DEF Shape
<1>6. QED
  BY <1>4, <1>5

-----------------------------------------------------------------------------
(* Starting a service *)

\* Steps that leave table, children and script alone.
LEMMA SameNow == AgreeNow /\ UNCHANGED <<tabvars, kid, scrpid, forced>> => AgreeNow'
  BY DEF AgreeNow, tabvars

\* restart_proc of an entry that is there keeps the table in agreement.
LEMMA RestartStep ==
  ASSUME ForkWorks, AgreeNow, KernRest, NEW n \in Names, NEW fl, NEW ret, find_by_name(n) # {},
         restart_proc(First(find_by_name(n)), fl, ret), scrpid' = scrpid, forced' = forced,
         sigs' = sigs, alarm' = alarm
  PROVE  AgreeNow' /\ KernRest'
<1> DEFINE i == First(find_by_name(n))
           pc == procs[i]
           idle == IF P_STATUS \in pc.flags
                   THEN [pc EXCEPT !.flags = @ \ {P_STATUS, P_KILLED}, !.pid = 0]
                   ELSE pc
           rec == [idle EXCEPT !.buf = FALSE]
           new == [rec EXCEPT !.old = FALSE]
<1>1. i \in Slots /\ i \in 1..nprocs /\ pc.name = n
  BY Found
<1>2. procs \in [Slots -> ProcType] /\ nprocs \in 0..NPROCS /\ Shape(procs, nprocs)
  BY DEF AgreeNow, Agree, Typed
<1>3. pc \in ProcType /\ P_IN_USE \in pc.flags
  BY <1>1, <1>2, Values, Zenon DEF Shape
<1>4. CASE UNCHANGED <<tabvars, kid, pipe, leaked, lost>>
  BY <1>4, SameNow DEF KernRest
<1>5. CASE /\ fl = {} /\ idle.pid = 0
           /\ spawn_path(i, new, rec, kid, nalive, ret)
           /\ lost' = [lost EXCEPT ![i] = FALSE]
           /\ UNCHANGED nprocs
  <2> HIDE DEF i, pc
  <2>1. /\ idle \in ProcType /\ P_IN_USE \in idle.flags /\ P_STATUS \notin idle.flags
        /\ ~Alive(pc)
    BY <1>3, <1>5, Values, Zenon DEF ProcType, Alive, P_STATUS, P_KILLED, P_IN_USE
  <2> HIDE DEF idle
  <2>2. rec \in ProcType /\ rec.pid = 0 /\ rec.flags = idle.flags
    BY <1>5, <2>1, Zenon DEF ProcType
  <2> HIDE DEF rec
  <2>3. new \in ProcType /\ new.flags = rec.flags
    BY <2>2, Zenon DEF ProcType
  <2> HIDE DEF new
  <2>4. ~Alive(rec) /\ rec.flags # {}
    BY <2>1, <2>2 DEF Alive
  <2>5. [procs EXCEPT ![i] = pc] = procs
    BY <1>1, <1>2 DEF pc
  <2>6. Agree([procs EXCEPT ![i] = pc], kid, scrpid, nalive, forced, nprocs)
    BY <2>5 DEF AgreeNow
  <2>7. nprocs' \in 0..NPROCS /\ i <= nprocs' /\ nprocs <= nprocs'
    BY <1>1, <1>2, <1>5, Sizes
  <2>8. AgreeNow' /\ pipe' \in [Slots -> [data : BOOLEAN, hup : BOOLEAN]] /\ leaked' \subseteq Slots
    BY <1>1, <1>2, <1>3, <1>5, <2>1, <2>2, <2>3, <2>4, <2>6, <2>7, SpawnPath, Zenon
  <2>9. lost' \in [Slots -> BOOLEAN]
    BY <1>1, <1>5 DEF KernRest
  <2>10. QED
    BY <2>8, <2>9 DEF KernRest
<1>6. QED
  BY <1>4, <1>5 DEF restart_proc

\* start_proc does, with an old entry or a new one.
LEMMA StartStep ==
  ASSUME ForkWorks, IInv, NEW n \in Names, NEW fl \in Kinds, NEW ret, cmd_start(n, fl, ret)
  PROVE  AgreeNow' /\ TopRest' /\ KernRest'
<1>1. AgreeNow /\ TopRest /\ KernRest
  BY DEF IInv
<1>2. TopRest'
  BY <1>1 DEF cmd_start, TopRest, topvars
<1>3. scrpid' = scrpid /\ forced' = forced /\ sigs' = sigs /\ alarm' = alarm
  BY DEF cmd_start, topvars
<1>4. CASE find_by_name(n) # {}
  <2>1. restart_proc(First(find_by_name(n)), fl, ret)
    BY <1>4 DEF cmd_start, start_proc
  <2>2. QED
    BY <1>1, <1>2, <1>3, <1>4, <2>1, RestartStep
<1>5. CASE find_by_name(n) = {}
  <2> DEFINE i == grab_proc_slot
             rec == [Empty EXCEPT !.name = n, !.flags = {P_IN_USE} \cup fl, !.fd = CLOSED]
  <2>1. CASE UNCHANGED <<tabvars, kid, pipe, leaked, lost>>
    BY <1>1, <1>2, <1>3, <2>1, SameNow DEF KernRest
  <2>2. CASE /\ i # 0
             /\ spawn_path(i, rec, Empty, kid, nalive, ret)
             /\ lost' = [lost EXCEPT ![i] = FALSE]
             /\ nprocs' = IF i > nprocs THEN i ELSE nprocs
    <3>1. i \in Slots /\ i <= nprocs + 1 /\ procs[i].flags = {}
      BY <1>1, <2>2, Grabbed
    <3> HIDE DEF i
    <3>2. fl \subseteq {P_PASS, P_ONCE}
      BY KindFlags
    <3>3. rec \in ProcType /\ P_IN_USE \in rec.flags /\ P_STATUS \notin rec.flags
      BY <3>2, Values, Zenon DEF ProcType, Empty, P_IN_USE, P_STATUS, P_PASS, P_ONCE, P_KILLED, OPEN, CLOSED
    <3> HIDE DEF rec
    <3>4. Empty \in ProcType /\ ~Alive(Empty) /\ Empty.pid = 0 /\ Empty.name = "" /\ Empty.flags = {}
      BY Records, Zenon DEF Empty, Alive
    <3>5. procs \in [Slots -> ProcType] /\ nprocs \in 0..NPROCS
      BY <1>1 DEF AgreeNow, Agree, Typed
    <3>6. [procs EXCEPT ![i] = procs[i]] = procs /\ procs[i] \in ProcType /\ ~Alive(procs[i])
      BY <3>1, <3>5 DEF Alive
    <3>7. Agree([procs EXCEPT ![i] = procs[i]], kid, scrpid, nalive, forced, nprocs)
      BY <1>1, <3>6 DEF AgreeNow
    <3>8. nprocs' \in 0..NPROCS /\ i <= nprocs' /\ nprocs <= nprocs'
      BY <2>2, <3>1, <3>5, Sizes DEF Slots
    <3>9. AgreeNow' /\ pipe' \in [Slots -> [data : BOOLEAN, hup : BOOLEAN]] /\ leaked' \subseteq Slots
      BY <1>1, <1>3, <2>2, <3>1, <3>3, <3>4, <3>5, <3>6, <3>7, <3>8, SpawnPath, Zenon
    <3>10. lost' \in [Slots -> BOOLEAN]
      BY <1>1, <2>2, <3>1 DEF KernRest
    <3>11. QED
      BY <1>1, <1>2, <1>3, <3>9, <3>10 DEF KernRest
  <2>3. QED
    BY <1>5, <2>1, <2>2 DEF cmd_start, start_proc
<1>6. QED
  BY <1>4, <1>5

-----------------------------------------------------------------------------
(* The other commands, and the connections *)

\* One entry in use changes nothing but its buffer, its fd, its age or P_KILLED.
LEMMA TouchEntry ==
  ASSUME AgreeNow, NEW i \in Slots, NEW r \in ProcType,
         r.pid = procs[i].pid, r.name = procs[i].name,
         \/ r.flags = procs[i].flags
         \/ procs[i].flags # {} /\ r.flags = procs[i].flags \cup {P_KILLED},
         procs' = [procs EXCEPT ![i] = r], UNCHANGED <<nprocs, nalive, kid, scrpid, forced>>
  PROVE  AgreeNow'
<1>1. procs \in [Slots -> ProcType] /\ kid \in [Pids -> KidType]
  BY DEF AgreeNow, Agree, Typed
<1>2. \A j \in Slots :
         /\ procs'[j].pid = procs[j].pid /\ procs'[j].name = procs[j].name
         /\ \/ procs'[j].flags = procs[j].flags
            \/ procs[j].flags # {} /\ procs'[j].flags = procs[j].flags \cup {P_KILLED}
  <2> TAKE j \in Slots
  <2>1. CASE j = i
    <3>1. procs'[j] = r
      BY <1>1, <2>1
    <3> QED BY <2>1, <3>1
  <2>2. CASE j # i
    <3>1. procs'[j] = procs[j]
      BY <1>1, <2>2
    <3> QED BY <3>1
  <2> QED BY <2>1, <2>2
<1>3. Agree(procs', kid, scrpid, nalive, forced, nprocs)
  <2>1. procs' \in [Slots -> ProcType]
    BY <1>1
  <2>2. Agree(procs, kid, scrpid, nalive, forced, nprocs)
    BY DEF AgreeNow
  <2>3. \A p \in Pids : kid[p].what = kid[p].what /\ (kid[p].st = "free" <=> kid[p].st = "free")
    OBVIOUS
  <2> DEFINE Q == procs'
  <2> HIDE DEF Q
  <2>4. Q \in [Slots -> ProcType] /\ \A j \in Slots :
         /\ Q[j].pid = procs[j].pid /\ Q[j].name = procs[j].name
         /\ \/ Q[j].flags = procs[j].flags
            \/ procs[j].flags # {} /\ Q[j].flags = procs[j].flags \cup {P_KILLED}
    BY <1>2, <2>1 DEF Q
  <2>5. Agree(Q, kid, scrpid, nalive, forced, nprocs)
    BY <1>1, <2>2, <2>3, <2>4, Quiet, Zenon
  <2> QED BY <2>5 DEF Q
<1>4. QED
  BY <1>3 DEF AgreeNow

\* stop_proc marks an entry, at most.
LEMMA StopStep ==
  ASSUME IInv, NEW n \in Names, NEW ret, NEW pid, cmd_stop(n, ret, pid)
  PROVE  AgreeNow' /\ TopRest' /\ KernRest' /\ pid \in Pids \cup {0}
<1> DEFINE i == First(find_by_name(n))
           pc == procs[i]
           r == [pc EXCEPT !.flags = @ \cup {P_KILLED}]
<1>1. AgreeNow /\ TopRest /\ KernRest
  BY DEF IInv
<1>2. TopRest' /\ KernRest' /\ UNCHANGED <<nprocs, nalive, kid, scrpid, forced>>
  BY <1>1 DEF cmd_stop, TopRest, KernRest, topvars, kernvars
<1>3. CASE procs' = procs /\ pid = 0
  BY <1>1, <1>2, <1>3, SameNow DEF tabvars
<1>4. CASE /\ find_by_name(n) # {} /\ Alive(pc)
           /\ procs' = [procs EXCEPT ![i].flags = @ \cup {P_KILLED}]
           /\ pid = 0 \/ pid = pc.pid
  <2>1. i \in Slots /\ procs \in [Slots -> ProcType]
    BY <1>1, <1>4, Found DEF AgreeNow, Agree, Typed
  <2>2. pc.pid \in Pids
    BY <1>1, <1>4, <2>1 DEF AgreeNow, Agree, Tracked, LiveIn
  <2> HIDE DEF i
  <2>3. r \in ProcType /\ r.pid = pc.pid /\ r.name = pc.name /\ pc.flags # {} /\ r.flags = pc.flags \cup {P_KILLED}
    BY <1>4, <2>1, Zenon DEF ProcType, Alive
  <2>4. procs' = [procs EXCEPT ![i] = r]
    BY <1>4, <2>1
  <2> HIDE DEF r
  <2>5. AgreeNow'
    BY <1>1, <1>2, <2>1, <2>3, <2>4, TouchEntry, Zenon
  <2>6. QED
    BY <1>2, <1>4, <2>2, <2>5
<1>5. QED
  BY <1>3, <1>4 DEF cmd_stop

\* flush_proc drops a buffer, at most.
LEMMA FlushStep ==
  ASSUME IInv, NEW n \in Names, NEW ret, cmd_flush(n, ret)
  PROVE  AgreeNow' /\ TopRest' /\ KernRest'
<1> DEFINE i == First(find_by_name(n))
           r == [procs[i] EXCEPT !.buf = FALSE]
<1>1. AgreeNow /\ TopRest /\ KernRest
  BY DEF IInv
<1>2. TopRest' /\ KernRest' /\ UNCHANGED <<nprocs, nalive, kid, scrpid, forced>>
  BY <1>1 DEF cmd_flush, TopRest, KernRest, topvars, kernvars
<1>3. CASE procs' = procs
  BY <1>1, <1>2, <1>3, SameNow DEF tabvars
<1>4. CASE find_by_name(n) # {} /\ procs' = [procs EXCEPT ![i].buf = FALSE]
  <2>1. i \in Slots /\ procs \in [Slots -> ProcType]
    BY <1>1, <1>4, Found DEF AgreeNow, Agree, Typed
  <2> HIDE DEF i
  <2>2. r \in ProcType /\ r.pid = procs[i].pid /\ r.name = procs[i].name /\ r.flags = procs[i].flags
    BY <2>1, Zenon DEF ProcType
  <2>3. procs' = [procs EXCEPT ![i] = r]
    BY <1>4, <2>1
  <2> HIDE DEF r
  <2>4. QED
    BY <1>1, <1>2, <2>1, <2>2, <2>3, TouchEntry, Zenon
<1>5. QED
  BY <1>3, <1>4 DEF cmd_flush

\* remove_proc wipes only an entry that has no process.
LEMMA RemoveStep ==
  ASSUME IInv, NEW n \in Names, NEW ret, cmd_remove(n, ret)
  PROVE  AgreeNow' /\ TopRest' /\ KernRest'
<1> DEFINE i == First(find_by_name(n))
           pc == procs[i]
<1>1. AgreeNow /\ TopRest /\ KernRest
  BY DEF IInv
<1>2. TopRest' /\ UNCHANGED <<nprocs, nalive, kid, scrpid, forced, sigs, alarm, pipe, lost>>
  BY <1>1 DEF cmd_remove, TopRest, topvars
<1>3. CASE UNCHANGED <<procs, leaked>>
  BY <1>1, <1>2, <1>3, SameNow DEF tabvars, KernRest
<1>4. CASE /\ find_by_name(n) # {} /\ (pc.pid = 0 \/ P_STATUS \in pc.flags)
           /\ procs' = [procs EXCEPT ![i] = Empty]
           /\ leaked' = IF pc.fd = OPEN THEN leaked \cup {i} ELSE leaked
  <2>1. i \in Slots /\ i \in 1..nprocs /\ procs \in [Slots -> ProcType] /\ nprocs \in 0..NPROCS
    BY <1>1, <1>4, Found DEF AgreeNow, Agree, Typed
  <2>2. KernRest'
    BY <1>1, <1>2, <1>4, <2>1 DEF KernRest
  <2>3. ~Alive(pc) /\ ~Alive(Empty) /\ Empty \in ProcType
    BY <1>4, Records, Zenon DEF Alive, Empty
  <2>4. nprocs <= nprocs /\ i <= nprocs
    BY <2>1, Sizes
  <2>5. Shape([procs EXCEPT ![i] = Empty], nprocs)
    BY <1>1, <2>1, <2>3, <2>4, ShapeSet, Zenon DEF AgreeNow, Agree, Empty
  <2>6. Agree([procs EXCEPT ![i] = Empty], kid, scrpid, nalive, forced, nprocs)
    BY <1>1, <2>1, <2>3, <2>5, Idle, Zenon DEF AgreeNow
  <2>7. QED
    BY <1>2, <1>4, <2>2, <2>6 DEF AgreeNow
<1>5. QED
  BY <1>3, <1>4 DEF cmd_remove

\* command_stop marks entries, and forgets a script that is gone.
LEMMA BeginStop ==
  ASSUME NEW mode \in {"none", "reboot", "poweroff"} \cup Modes, NEW k, NEW scr,
         Agree(procs, k, scr, nalive, forced, nprocs), begin_stop(mode, k, scr),
         UNCHANGED <<hub, ctlfd, nprocs, nalive, forced>>, TopRest
  PROVE  AgreeNow' /\ TopRest' /\ alarm' \in BOOLEAN
<1>1. procs \in [Slots -> ProcType] /\ k \in [Pids -> KidType] /\ kid' = k /\ scrpid' = scr
  BY DEF Agree, Typed, Kids, begin_stop, stop_all_procs
<1>2. TopRest' /\ alarm' \in BOOLEAN
  BY Sizes DEF TopRest, begin_stop, S_STOPPING
<1> DEFINE Q == procs'
<1>3. \A i \in Slots : Q[i] = procs[i]
                       \/ (procs[i].flags # {} /\ Q[i] = [procs[i] EXCEPT !.flags = @ \cup {P_KILLED}])
  BY <1>1 DEF begin_stop, stop_all_procs, Alive
<1>4. Q = [i \in Slots |-> Q[i]]
  BY DEF begin_stop, stop_all_procs
<1> HIDE DEF Q
<1>5. \A i \in Slots :
         /\ Q[i] \in ProcType /\ Q[i].pid = procs[i].pid /\ Q[i].name = procs[i].name
         /\ \/ Q[i].flags = procs[i].flags
            \/ procs[i].flags # {} /\ Q[i].flags = procs[i].flags \cup {P_KILLED}
  <2> TAKE i \in Slots
  <2>1. procs[i] \in ProcType
    BY <1>1
  <2>2. CASE Q[i] = procs[i]
    BY <2>1, <2>2
  <2>3. CASE procs[i].flags # {} /\ Q[i] = [procs[i] EXCEPT !.flags = @ \cup {P_KILLED}]
    <3>1. procs[i].flags \cup {P_KILLED} \in SUBSET {P_IN_USE, P_KILLED, P_STATUS, P_ONCE, P_PASS}
      BY <2>1, Zenon DEF ProcType
    <3> DEFINE F == procs[i].flags \cup {P_KILLED}
    <3>2. Q[i] = [procs[i] EXCEPT !.flags = F]
      BY <2>3
    <3> HIDE DEF F
    <3>3. F \in SUBSET {P_IN_USE, P_KILLED, P_STATUS, P_ONCE, P_PASS}
      BY <3>1 DEF F
    <3>4. Q[i] \in ProcType /\ Q[i].pid = procs[i].pid /\ Q[i].name = procs[i].name /\ Q[i].flags = F
      BY <2>1, <3>2, <3>3, Zenon DEF ProcType
    <3> QED BY <2>3, <3>4 DEF F
  <2> QED BY <1>3, <2>2, <2>3
<1>6. Q \in [Slots -> ProcType]
  BY <1>4, <1>5
<1>7. \A p \in Pids : k[p].what = k[p].what /\ (k[p].st = "free" <=> k[p].st = "free")
  OBVIOUS
<1>8. \A i \in Slots :
         /\ Q[i].pid = procs[i].pid /\ Q[i].name = procs[i].name
         /\ \/ Q[i].flags = procs[i].flags
            \/ procs[i].flags # {} /\ Q[i].flags = procs[i].flags \cup {P_KILLED}
  BY <1>5
<1>9. Agree(Q, k, scr, nalive, forced, nprocs)
  BY <1>1, <1>6, <1>7, <1>8, Quiet, Zenon
<1>10. AgreeNow'
  BY <1>1, <1>9 DEF Q, AgreeNow
<1>11. QED
  BY <1>2, <1>10

\* The reboot, shutdown and poweroff commands keep the relation.
LEMMA RebootStep ==
  ASSUME IInv, NEW mode \in Modes, NEW ret, cmd_reboot(mode, ret)
  PROVE  AgreeNow' /\ TopRest' /\ KernRest'
<1>1. AgreeNow /\ TopRest /\ KernRest
  BY DEF IInv
<1>2. UNCHANGED <<hub, ctlfd, nprocs, nalive, sigs, pipe, leaked, forced, lost>>
  BY DEF cmd_reboot
<1>3. CASE UNCHANGED <<state, rbmode, sigcnt, scrpid, procs, kid, alarm>>
  BY <1>1, <1>2, <1>3, SameNow DEF TopRest, KernRest, tabvars
<1>4. CASE begin_stop(mode, kid, scrpid)
  <2>1. AgreeNow' /\ TopRest' /\ alarm' \in BOOLEAN
    BY <1>1, <1>2, <1>4, BeginStop, Zenon DEF AgreeNow
  <2>2. QED
    BY <1>1, <1>2, <2>1 DEF KernRest
<1>5. QED
  BY <1>3, <1>4 DEF cmd_reboot

\* The end of a request leaves the connections typed.
LEMMA ReplyStep ==
  ASSUME ConnType, NEW c \in Conns, NEW pid \in Pids \cup {0}, reply(c, pid)
  PROVE  ConnType'
<1>1. CASE drop_conn(c)
  BY <1>1 DEF drop_conn, ConnType, CLOSED
<1>2. CASE /\ conns' = IF pid = 0 THEN conns ELSE [conns EXCEPT ![c].pid = pid]
           /\ waiting' = IF pid = 0 THEN waiting ELSE [waiting EXCEPT ![c] = pid]
           /\ UNCHANGED nconns
  BY <1>2 DEF ConnType
<1>3. QED
  BY <1>1, <1>2 DEF reply

\* No command of a client, and no client that goes away, breaks the invariant.
LEMMA ClientIInv ==
  ASSUME ForkWorks, IInv, NEW c \in Conns, ClientStep(c)
  PROVE  IInv'
<1>1. ConnType /\ 0 \in Pids \cup {0}
  BY DEF IInv
<1>2. CASE Start(c)
  <2>1. PICK n \in Names, fl \in Kinds, r \in StartErrors : cmd_start(n, fl, r) /\ reply(c, 0)
    BY <1>2 DEF Start
  <2>2. QED
    BY <1>1, <2>1, StartStep, ReplyStep DEF IInv
<1>3. CASE Stop(c)
  <2>1. PICK n \in Names, r \in {"0", "ENOENT", "EAGAIN", "ESRCH"}, p \in Pids \cup {0} :
           cmd_stop(n, r, p) /\ reply(c, p)
    BY <1>3 DEF Stop
  <2>2. QED
    BY <1>1, <2>1, StopStep, ReplyStep DEF IInv
<1>4. CASE Flush(c)
  <2>1. PICK n \in Names, r \in {"0", "ENOENT", "ENODATA"} : cmd_flush(n, r) /\ reply(c, 0)
    BY <1>4 DEF Flush
  <2>2. QED
    BY <1>1, <2>1, FlushStep, ReplyStep DEF IInv
<1>5. CASE Remove(c)
  <2>1. PICK n \in Names, r \in {"0", "ENOENT", "EBUSY", "ENODATA"} : cmd_remove(n, r) /\ reply(c, 0)
    BY <1>5 DEF Remove
  <2>2. QED
    BY <1>1, <2>1, RemoveStep, ReplyStep DEF IInv
<1>6. CASE Reboot(c)
  <2>1. PICK m \in Modes, r \in {"0", "EALREADY"} : cmd_reboot(m, r) /\ reply(c, 0)
    BY <1>6 DEF Reboot
  <2>2. QED
    BY <1>1, <2>1, RebootStep, ReplyStep DEF IInv
<1>7. CASE close_conn(c)
  <2>1. ConnType'
    BY <1>1, <1>7 DEF close_conn, drop_conn, ConnType, CLOSED
  <2>2. UNCHANGED <<hub, topvars, tabvars, kernvars, forced, lost>>
    BY <1>7 DEF close_conn
  <2>3. AgreeNow' /\ TopRest' /\ KernRest'
    BY <2>2, SameNow DEF IInv, TopRest, KernRest, topvars, kernvars
  <2>4. QED
    BY <2>1, <2>3 DEF IInv
<1>8. QED
  BY <1>2, <1>3, <1>4, <1>5, <1>6, <1>7 DEF ClientStep

-----------------------------------------------------------------------------
(* Scripts and the shutdown *)

\* spawn_script forks at most one child, and only when no script runs.
LEMMA ScriptStep ==
  ASSUME ForkWorks, NEW P, NEW k, NEW scr, NEW n, NEW f, NEW m, Agree(P, k, scr, n, f, m),
         NEW what \in {"shell", "shutdown", "failure"}, NEW busy \in {"reap", "failed"},
         spawn_script(what, k, scr, busy)
  PROVE  Agree(P, kid', scrpid', n, f, m) /\ hub' \in {"poll", "reap", "failed", "halted"}
<1>1. CASE hub' = busy /\ scrpid' = scr /\ kid' = k
  BY <1>1
<1>2. CASE /\ scr \notin Pids
           /\ \E p \in Pids : k[p].st = "free" /\ scrpid' = p /\ kid' = [k EXCEPT ![p] = Run(what)]
           /\ hub' = IF hub = "reap" /\ what = "shell" THEN "reap" ELSE "poll"
  <2>1. PICK p \in Pids : k[p].st = "free" /\ scrpid' = p /\ kid' = [k EXCEPT ![p] = Run(what)]
    BY <1>2, Zenon
  <2>2. Agree(P, [k EXCEPT ![p] = Run(what)], p, n, f, m)
    BY <1>2, <2>1, ScriptForked, Zenon
  <2>3. hub' \in {"poll", "reap", "failed", "halted"}
    BY <1>2
  <2>4. QED
    BY <2>1, <2>2, <2>3
<1>3. QED
  BY <1>1, <1>2 DEF spawn_script, ForkWorks

\* spawn_shutdown is spawn_script in the last state.
LEMMA ShutdownStep ==
  ASSUME ForkWorks, NEW P, NEW k, NEW scr, NEW n, NEW f, NEW m, Agree(P, k, scr, n, f, m),
         spawn_shutdown(k, scr)
  PROVE  /\ Agree(P, kid', scrpid', n, f, m) /\ hub' \in {"poll", "reap", "failed", "halted"}
         /\ state' \in 0..4 /\ ctlfd' \in {OPEN, CLOSED}
<1> DEFINE what == IF rbmode = "none" THEN "failure" ELSE "shutdown"
<1>1. what \in {"shell", "shutdown", "failure"}
  OBVIOUS
<1>2. spawn_script(what, k, scr, "failed") /\ state' = S_SHUTDOWN /\ ctlfd' = CLOSED
  BY DEF spawn_shutdown
<1> HIDE DEF what
<1>3. Agree(P, kid', scrpid', n, f, m) /\ hub' \in {"poll", "reap", "failed", "halted"}
  BY <1>1, <1>2, ScriptStep
<1>4. QED
  BY <1>2, <1>3 DEF S_SHUTDOWN

\* force_shutdown gives up on exactly the entries that have a process.
LEMMA ForceStep ==
  ASSUME ForkWorks, IInv, force_shutdown
  PROVE  /\ AgreeNow' /\ hub' \in {"poll", "reap", "failed", "halted"}
         /\ state' \in 0..4 /\ ctlfd' \in {OPEN, CLOSED}
<1> DEFINE hit == {i \in 1..nprocs : Alive(procs[i])}
           Q == [i \in Slots |-> IF i \in hit THEN [procs[i] EXCEPT !.pid = 0] ELSE procs[i]]
           L == Kill(kid, {procs[i].pid : i \in hit} \cup ({scrpid} \cap Pids))
           T == IF scrpid \in Pids THEN -1 ELSE scrpid
           g == forced + Cardinality(hit)
<1>1. AgreeNow /\ nprocs \in 0..NPROCS /\ kid \in [Pids -> KidType] /\ Shape(procs, nprocs)
  BY DEF IInv, AgreeNow, Agree, Typed
<1>2. hit = LiveIn(procs)
  <2>1. \A i \in 1..nprocs : i \in Slots
    BY <1>1, Sizes DEF Slots
  <2>2. \A i \in Slots : i \in 1..nprocs \/ i > nprocs
    BY <1>1, Sizes DEF Slots
  <2>3. QED
    BY <1>1, <2>1, <2>2, Zenon DEF LiveIn, Shape, Alive
<1>3. /\ L \in [Pids -> KidType]
      /\ \A p \in Pids : L[p].what = kid[p].what /\ (L[p].st = "free" <=> kid[p].st = "free")
  <2> HIDE DEF hit
  <2> QED BY <1>1, Zenon DEF Kill, KidType
<1>4. /\ procs' = Q /\ forced' = g /\ spawn_shutdown(L, T)
      /\ UNCHANGED <<nprocs, nalive>>
  BY DEF force_shutdown
<1> HIDE DEF hit, L
<1>5. Agree(Q, L, T, nalive, g, nprocs)
  BY <1>1, <1>2, <1>3, Disowned DEF AgreeNow
<1> HIDE DEF Q, T, g
<1>6. /\ Agree(Q, kid', scrpid', nalive, g, nprocs) /\ hub' \in {"poll", "reap", "failed", "halted"}
      /\ state' \in 0..4 /\ ctlfd' \in {OPEN, CLOSED}
  BY <1>4, <1>5, ShutdownStep
<1>7. QED
  BY <1>4, <1>6 DEF AgreeNow

\* handle_alarm, whether it retries or forces the shutdown.
LEMMA AlarmStep ==
  ASSUME ForkWorks, IInv, handle_alarm
  PROVE  IInv'
<1>1. AgreeNow /\ TopRest /\ ConnType /\ KernRest
  BY DEF IInv
<1>2. CASE UNCHANGED <<hub, topvars, tabvars, connvars, kid, alarm, pipe, leaked, forced, lost>>
  <2>1. AgreeNow'
    BY <1>1, <1>2, SameNow DEF topvars
  <2>2. TopRest' /\ ConnType'
    BY <1>1, <1>2 DEF TopRest, ConnType, topvars, connvars
  <2>3. KernRest'
    BY <1>1, <1>2 DEF handle_alarm, KernRest
  <2>4. QED
    BY <2>1, <2>2, <2>3 DEF IInv
<1>3. CASE /\ sigcnt < RETRIES
           /\ sigcnt' = sigcnt + 1
           /\ alarm' = TRUE
           /\ UNCHANGED <<hub, state, rbmode, scrpid, ctlfd, tabvars, connvars, kid, pipe, leaked, forced, lost>>
  <2>1. AgreeNow'
    BY <1>1, <1>3, SameNow
  <2>2. TopRest' /\ ConnType'
    BY <1>1, <1>3, Sizes DEF TopRest, ConnType, connvars
  <2>3. KernRest'
    BY <1>1, <1>3 DEF handle_alarm, KernRest
  <2>4. QED
    BY <2>1, <2>2, <2>3 DEF IInv
<1>4. CASE sigcnt' = 0 /\ force_shutdown /\ UNCHANGED alarm
  <2>1. /\ AgreeNow' /\ hub' \in {"poll", "reap", "failed", "halted"}
        /\ state' \in 0..4 /\ ctlfd' \in {OPEN, CLOSED}
    BY <1>4, ForceStep
  <2>2. UNCHANGED <<rbmode, connvars, pipe, leaked, lost>> /\ sigs' = sigs \ {"ALRM"}
    BY <1>4 DEF force_shutdown, handle_alarm
  <2>3. TopRest' /\ ConnType' /\ KernRest'
    BY <1>1, <1>4, <2>1, <2>2, Sizes DEF TopRest, ConnType, KernRest, connvars
  <2>4. QED
    BY <2>1, <2>3 DEF IInv
<1>5. QED
  BY <1>2, <1>3, <1>4, Zenon DEF handle_alarm

\* signal_stop, whether it begins the stop, forces it or gives up.
LEMMA SignalStep ==
  ASSUME ForkWorks, IInv, NEW s, signal_stop(s)
  PROVE  IInv'
<1>1. AgreeNow /\ TopRest /\ ConnType /\ KernRest
  BY DEF IInv
<1>2. CASE force_shutdown /\ UNCHANGED <<sigcnt, sigs, alarm>>
  <2>1. /\ AgreeNow' /\ hub' \in {"poll", "reap", "failed", "halted"}
        /\ state' \in 0..4 /\ ctlfd' \in {OPEN, CLOSED}
    BY <1>2, ForceStep
  <2>2. UNCHANGED <<rbmode, connvars, pipe, leaked, lost>>
    BY <1>2 DEF force_shutdown
  <2>3. TopRest' /\ ConnType' /\ KernRest'
    BY <1>1, <1>2, <2>1, <2>2 DEF TopRest, ConnType, KernRest, connvars
  <2>4. QED
    BY <2>1, <2>3 DEF IInv
<1>3. CASE /\ hub' = "failed"
           /\ UNCHANGED <<topvars, tabvars, connvars, kid, sigs, alarm, pipe, leaked, forced, lost>>
  <2>1. AgreeNow'
    BY <1>1, <1>3, SameNow DEF topvars
  <2>2. TopRest' /\ ConnType' /\ KernRest'
    BY <1>1, <1>3 DEF TopRest, ConnType, KernRest, topvars, connvars
  <2>3. QED
    BY <2>1, <2>2 DEF IInv
<1>4. CASE /\ begin_stop(IF s = "PWR" THEN "poweroff" ELSE "reboot", kid, scrpid)
           /\ UNCHANGED <<hub, ctlfd, nprocs, nalive, connvars, sigs, pipe, leaked, forced, lost>>
  <2> DEFINE mode == IF s = "PWR" THEN "poweroff" ELSE "reboot"
  <2>1. mode \in {"none", "reboot", "poweroff"} \cup Modes
    OBVIOUS
  <2> HIDE DEF mode
  <2>2. AgreeNow' /\ TopRest' /\ alarm' \in BOOLEAN
    BY <1>1, <1>4, <2>1, BeginStop DEF AgreeNow, mode
  <2>3. ConnType' /\ KernRest'
    BY <1>1, <1>4, <2>2 DEF ConnType, KernRest, connvars
  <2>4. QED
    BY <2>2, <2>3 DEF IInv
<1>5. QED
  BY <1>2, <1>3, <1>4 DEF signal_stop

-----------------------------------------------------------------------------
(* Reaping *)

\* notify_dead only closes connections.
LEMMA NotifyStep ==
  ASSUME ConnType, NEW p, notify_dead(p) \/ UNCHANGED <<conns, waiting>>, nconns' = nconns
  PROVE  ConnType'
<1>1. CASE UNCHANGED <<conns, waiting>>
  BY <1>1 DEF ConnType
<1>2. CASE notify_dead(p)
  <2>1. PICK gone \in SUBSET told(p) :
          /\ conns' = [c \in Conns |-> IF c \in gone THEN [fd |-> CLOSED, pid |-> 0] ELSE conns[c]]
          /\ waiting' = [c \in Conns |-> IF c \in told(p) THEN 0 ELSE waiting[c]]
    BY <1>2 DEF notify_dead
  <2>2. QED
    BY <2>1 DEF ConnType
<1>3. QED
  BY <1>1, <1>2

\* proc_died takes the entry's process off the count, then may respawn it.
LEMMA DiedStep ==
  ASSUME ForkWorks, IInv, NEW p \in Pids, find_by_pid(p) # {}, NEW s \in Statuses,
         proc_died(First(find_by_pid(p)), p, s)
  PROVE  IInv'
<1> DEFINE i == First(find_by_pid(p))
           pc == procs[i]
           k == [kid EXCEPT ![p] = NoKid]
           end == death(pc, s)
           now == [close_proc(pc) EXCEPT !.old = FALSE]
           left == CASE end = "stopped" -> [now EXCEPT !.flags = @ \ {P_KILLED}, !.pid = 0]
                     [] end = "gone"    -> Empty
                     [] OTHER           -> mark_died(now, s)
<1>1. AgreeNow /\ TopRest /\ ConnType /\ KernRest
  BY DEF IInv
<1>2. /\ procs \in [Slots -> ProcType] /\ nprocs \in 0..NPROCS /\ Shape(procs, nprocs)
      /\ i \in Slots /\ i \in 1..nprocs /\ pc.pid = p /\ P_STATUS \notin pc.flags
  BY <1>1, Found DEF AgreeNow, Agree, Typed
<1>3. pc \in ProcType /\ P_IN_USE \in pc.flags /\ Alive(pc)
  BY <1>2, Values, Zenon DEF Shape, Alive
<1>4. /\ lost' = [lost EXCEPT ![i] = @ \/ (pc.fd = OPEN /\ pipe[i].data)]
      /\ \/ /\ end = "respawn"
            /\ \E ret \in {"0", "EACCES"} : spawn_path(i, now, left, k, nalive - 1, ret)
         \/ /\ end # "respawn"
            /\ procs' = [procs EXCEPT ![i] = left]
            /\ nalive' = nalive - 1
            /\ kid' = k
            /\ pipe' = [pipe EXCEPT ![i] = NoPipe]
            /\ leaked' = leaked
      /\ notify_dead(p) \/ UNCHANGED <<conns, waiting>>
      /\ UNCHANGED <<hub, topvars, nprocs, nconns, sigs, alarm, forced>>
  BY DEF proc_died
<1> HIDE DEF i, pc, k, end
<1>5. now \in ProcType /\ now.flags = pc.flags /\ now.pid = p
  BY <1>2, <1>3, Zenon DEF close_proc, ProcType
<1> HIDE DEF now
<1>6. /\ left \in ProcType /\ ~Alive(left)
      /\ left.flags = {} => left.pid = 0 /\ left.name = ""
      /\ left.flags # {} => P_IN_USE \in left.flags
  <2>1. CASE end = "stopped"
    <3> DEFINE r == [now EXCEPT !.flags = @ \ {P_KILLED}, !.pid = 0]
    <3>1. left = r
      BY <2>1
    <3>2. r \in ProcType /\ r.pid = 0 /\ r.flags = pc.flags \ {P_KILLED}
      BY <1>5, Values, Zenon DEF ProcType
    <3> HIDE DEF r
    <3>3. QED
      BY <1>3, <3>1, <3>2, Zenon DEF Alive, P_IN_USE, P_KILLED
  <2>2. CASE end = "gone"
    BY <2>2, Records, Zenon DEF Empty, Alive
  <2>3. CASE end # "stopped" /\ end # "gone"
    <3> DEFINE r == mark_died(now, s)
    <3>1. left = r
      BY <2>3
    <3>2. r \in ProcType /\ r.flags = pc.flags \cup {P_STATUS}
      BY <1>5, Zenon DEF mark_died, ProcType
    <3> HIDE DEF r
    <3>3. QED
      BY <1>3, <3>1, <3>2, Zenon DEF Alive
  <2>4. QED
    BY <2>1, <2>2, <2>3, Zenon
<1> HIDE DEF left
<1>7. nprocs <= nprocs /\ i <= nprocs
  BY <1>2, Sizes
<1>8. Shape([procs EXCEPT ![i] = left], nprocs)
  BY <1>2, <1>6, <1>7, ShapeSet, Zenon
<1>9. Agree([procs EXCEPT ![i] = left], [kid EXCEPT ![procs[i].pid] = NoKid], scrpid, nalive - 1, forced, nprocs)
  BY <1>1, <1>2, <1>3, <1>6, <1>8, Reaped, Zenon DEF AgreeNow, pc
<1>10. Agree([procs EXCEPT ![i] = left], k, scrpid, nalive - 1, forced, nprocs)
  BY <1>2, <1>9 DEF k, pc
<1>11. scrpid' = scrpid /\ forced' = forced /\ nprocs' = nprocs
  BY <1>4 DEF topvars
<1>12. AgreeNow' /\ pipe' \in [Slots -> [data : BOOLEAN, hup : BOOLEAN]] /\ leaked' \subseteq Slots
  <2>1. CASE end = "respawn"
    <3>1. PICK ret \in {"0", "EACCES"} : spawn_path(i, now, left, k, nalive - 1, ret)
      BY <1>4, <2>1
    <3>2. nprocs' \in 0..NPROCS /\ i <= nprocs' /\ nprocs <= nprocs'
      BY <1>2, <1>7, <1>11
    <3>3. P_IN_USE \in now.flags /\ P_STATUS \notin now.flags
      BY <1>2, <1>3, <1>5
    <3>4. QED
      BY <1>1, <1>2, <1>5, <1>6, <1>10, <1>11, <3>1, <3>2, <3>3, SpawnPath, Zenon
  <2>2. CASE end # "respawn"
    <3>1. /\ procs' = [procs EXCEPT ![i] = left] /\ nalive' = nalive - 1 /\ kid' = k
          /\ pipe' = [pipe EXCEPT ![i] = NoPipe] /\ leaked' = leaked
      BY <1>4, <2>2
    <3>2. AgreeNow'
      BY <1>10, <1>11, <3>1 DEF AgreeNow
    <3>3. QED
      BY <1>1, <1>2, <3>1, <3>2, Records DEF KernRest
  <2>3. QED
    BY <2>1, <2>2
<1>13. TopRest'
  BY <1>1, <1>4 DEF TopRest, topvars
<1>14. ConnType'
  BY <1>1, <1>4, NotifyStep
<1>15. KernRest'
  <2> DEFINE b == lost[i] \/ (pc.fd = OPEN /\ pipe[i].data)
  <2>1. b \in BOOLEAN
    BY Zenon
  <2>2. lost' = [lost EXCEPT ![i] = b]
    BY <1>4
  <2> HIDE DEF b
  <2>3. lost' \in [Slots -> BOOLEAN]
    BY <1>1, <1>2, <2>1, <2>2 DEF KernRest
  <2>4. QED
    BY <1>1, <1>4, <1>12, <2>3 DEF KernRest
<1>16. QED
  BY <1>12, <1>13, <1>14, <1>15 DEF IInv

\* script_exit, in whatever state the script ends.
LEMMA ScriptExitStep ==
  ASSUME ForkWorks, IInv, NEW p \in Pids, p = scrpid, NEW s, script_exit(p, s)
  PROVE  IInv'
<1> DEFINE k == [kid EXCEPT ![p] = NoKid]
<1>1. AgreeNow /\ TopRest /\ ConnType /\ KernRest
  BY DEF IInv
<1>2. UNCHANGED <<ctlfd, nprocs, nalive, connvars, sigs, pipe, leaked, forced, lost>>
  BY DEF script_exit
<1>3. Agree(procs, k, 0, nalive, forced, nprocs)
  <2>1. \A i \in LiveIn(procs) : procs[i].pid # p
    BY <1>1 DEF AgreeNow, Agree, Tracked
  <2>2. QED
    BY <1>1, <2>1, OtherReaped DEF AgreeNow
<1>4. CASE /\ hub' \in {hub, "failed"} /\ state' = S_UNKNOWN /\ scrpid' = 0 /\ kid' = k
           /\ UNCHANGED <<rbmode, sigcnt, procs, alarm>>
  <2>1. AgreeNow'
    BY <1>2, <1>3, <1>4 DEF AgreeNow
  <2>2. TopRest' /\ ConnType' /\ KernRest'
    BY <1>1, <1>2, <1>4 DEF TopRest, ConnType, KernRest, connvars, S_UNKNOWN
  <2>3. QED
    BY <2>1, <2>2 DEF IInv
<1>5. CASE /\ state' = S_RUNNING
           /\ spawn_script("shell", k, 0, "reap")
           /\ UNCHANGED <<rbmode, sigcnt, procs, alarm>>
  <2>1. Agree(procs, kid', scrpid', nalive, forced, nprocs) /\ hub' \in {"poll", "reap", "failed", "halted"}
    BY <1>3, <1>5, ScriptStep
  <2>2. AgreeNow'
    BY <1>2, <1>5, <2>1 DEF AgreeNow
  <2>3. TopRest' /\ ConnType' /\ KernRest'
    BY <1>1, <1>2, <1>5, <2>1 DEF TopRest, ConnType, KernRest, connvars, S_RUNNING
  <2>4. QED
    BY <2>2, <2>3 DEF IInv
<1>6. CASE begin_stop("none", k, 0) /\ UNCHANGED hub
  <2>1. AgreeNow' /\ TopRest' /\ alarm' \in BOOLEAN
    BY <1>1, <1>2, <1>3, <1>6, BeginStop
  <2>2. ConnType' /\ KernRest'
    BY <1>1, <1>2, <2>1 DEF ConnType, KernRest, connvars
  <2>3. QED
    BY <2>1, <2>2 DEF IInv
<1>7. QED
  BY <1>4, <1>5, <1>6 DEF script_exit

\* One iteration of the loop of check_children.
LEMMA ReapStep ==
  ASSUME ForkWorks, IInv, NEW p \in Pids, reap_one(p)
  PROVE  IInv'
<1>1. AgreeNow /\ TopRest /\ ConnType /\ KernRest /\ kid[p].status \in Statuses
  BY DEF IInv, AgreeNow, Agree, Typed, KidType
<1>2. CASE p = scrpid /\ script_exit(p, kid[p].status)
  BY <1>2, ScriptExitStep
<1>3. CASE find_by_pid(p) # {} /\ proc_died(First(find_by_pid(p)), p, kid[p].status)
  BY <1>1, <1>3, DiedStep
<1>4. CASE /\ p # scrpid /\ find_by_pid(p) = {}
           /\ kid' = [kid EXCEPT ![p] = NoKid]
           /\ UNCHANGED <<hub, topvars, tabvars, connvars, sigs, alarm, pipe, leaked, forced, lost>>
  <2>1. \A i \in LiveIn(procs) : procs[i].pid # p
    <3>1. nprocs \in 0..NPROCS /\ Shape(procs, nprocs)
      BY <1>1 DEF AgreeNow, Agree, Typed
    <3>2. \A i \in Slots : i \in 1..nprocs \/ i > nprocs
      BY <3>1, Sizes DEF Slots
    <3>3. \A i \in LiveIn(procs) : i \in 1..nprocs /\ P_STATUS \notin procs[i].flags
      BY <3>1, <3>2, Zenon DEF LiveIn, Alive, Shape
    <3>4. QED
      BY <1>4, <3>3 DEF find_by_pid
  <2>2. scrpid \in Pids \cup {0, -1}
    BY <1>1 DEF AgreeNow, Agree, Typed
  <2>3. Agree(procs, [kid EXCEPT ![p] = NoKid], scrpid, nalive, forced, nprocs)
    BY <1>1, <1>4, <2>1, <2>2, OtherReaped, Zenon DEF AgreeNow
  <2>4. AgreeNow'
    BY <1>4, <2>3 DEF AgreeNow, topvars, tabvars
  <2>5. TopRest' /\ ConnType' /\ KernRest'
    BY <1>1, <1>4 DEF TopRest, ConnType, KernRest, topvars, connvars
  <2>6. QED
    BY <2>4, <2>5 DEF IInv
<1>5. QED
  BY <1>2, <1>3, <1>4 DEF reap_one

\* The end of check_children.
LEMMA ReapDoneStep ==
  ASSUME ForkWorks, IInv, reap_done
  PROVE  IInv'
<1>1. AgreeNow /\ TopRest /\ ConnType /\ KernRest
  BY DEF IInv
<1>2. UNCHANGED <<rbmode, sigcnt, tabvars, connvars, sigs, alarm, pipe, leaked, forced, lost>>
  BY DEF reap_done
<1>3. CASE hub' \in {"poll", "failed"} /\ UNCHANGED <<state, scrpid, ctlfd, kid>>
  <2>1. AgreeNow'
    BY <1>1, <1>2, <1>3, SameNow
  <2>2. TopRest' /\ ConnType' /\ KernRest'
    BY <1>1, <1>2, <1>3 DEF TopRest, ConnType, KernRest, connvars
  <2>3. QED
    BY <2>1, <2>2 DEF IInv
<1>4. CASE spawn_shutdown(kid, scrpid)
  <2>1. /\ Agree(procs, kid', scrpid', nalive, forced, nprocs) /\ hub' \in {"poll", "reap", "failed", "halted"}
        /\ state' \in 0..4 /\ ctlfd' \in {OPEN, CLOSED}
    BY <1>1, <1>4, ShutdownStep DEF AgreeNow
  <2>2. AgreeNow'
    BY <1>2, <2>1 DEF AgreeNow, tabvars
  <2>3. TopRest' /\ ConnType' /\ KernRest'
    BY <1>1, <1>2, <2>1 DEF TopRest, ConnType, KernRest, connvars
  <2>4. QED
    BY <2>2, <2>3 DEF IInv
<1>5. QED
  BY <1>3, <1>4 DEF reap_done

-----------------------------------------------------------------------------
(* Events from the kernel *)

\* check_children only starts its loop.
LEMMA ChildrenStep == IInv /\ check_children => IInv'
<1> SUFFICES ASSUME IInv, check_children PROVE IInv'
  OBVIOUS
<1>1. AgreeNow'
  BY SameNow DEF IInv, check_children, topvars
<1>2. TopRest' /\ ConnType' /\ KernRest'
  BY DEF IInv, check_children, TopRest, ConnType, KernRest, topvars, connvars
<1>3. QED
  BY <1>1, <1>2 DEF IInv

\* check_socket takes a connection slot within conns[].
LEMMA SocketStep == IInv /\ check_socket => IInv'
<1> SUFFICES ASSUME IInv, check_socket PROVE IInv'
  OBVIOUS
<1> DEFINE unused == {c \in 1..nconns : conns[c].fd = CLOSED}
           d == grab_conn_slot
<1>1. nconns \in 0..NCONNS /\ NCONNS \in Nat
  BY Sizes DEF IInv, ConnType
<1>2. d \in 1..(nconns + 1)
  <2>1. CASE unused # {}
    <3>1. unused \in SUBSET Nat
      BY <1>1
    <3>2. First(unused) \in unused
      BY <2>1, <3>1, FirstIn
    <3>3. First(unused) \in 1..nconns
      BY <3>2
    <3>4. QED
      BY <1>1, <2>1, <3>3 DEF grab_conn_slot
  <2>2. CASE unused = {}
    BY <1>1, <2>2 DEF grab_conn_slot
  <2>3. QED
    BY <2>1, <2>2
<1>3. /\ d <= NCONNS /\ conns' = [conns EXCEPT ![d].fd = OPEN]
      /\ nconns' = IF d > nconns THEN d ELSE nconns
      /\ UNCHANGED <<hub, topvars, tabvars, waiting, kernvars, forced, lost>>
  BY DEF check_socket
<1> HIDE DEF d
<1>4. d \in Conns /\ nconns' \in 0..NCONNS
  BY <1>1, <1>2, <1>3 DEF Conns
<1>5. ConnType'
  BY <1>3, <1>4 DEF IInv, ConnType
<1>6. AgreeNow'
  BY <1>3, SameNow DEF IInv, topvars, kernvars
<1>7. TopRest' /\ KernRest'
  BY <1>3 DEF IInv, TopRest, KernRest, topvars, kernvars
<1>8. QED
  BY <1>5, <1>6, <1>7 DEF IInv

\* process_proc changes buffer, descriptor and pipe of one entry.
LEMMA OutputStep ==
  ASSUME IInv, NEW i \in Slots, process_proc(i)
  PROVE  IInv'
<1> DEFINE pc == procs[i]
           own == IF pc.fd = OPEN THEN pipe[i] ELSE NoPipe
<1>1. AgreeNow /\ TopRest /\ ConnType /\ KernRest /\ pc \in ProcType /\ procs \in [Slots -> ProcType]
  BY DEF IInv, AgreeNow, Agree, Typed
<1>2. UNCHANGED <<hub, topvars, nprocs, nalive, connvars, kid, sigs, alarm, leaked, forced>>
  BY DEF process_proc
<1>3. pipe[i] \in [data : BOOLEAN, hup : BOOLEAN] /\ own \in [data : BOOLEAN, hup : BOOLEAN]
  BY <1>1, Records DEF KernRest
<1>4. PICK in \in BOOLEAN, hup \in BOOLEAN :
        \E r \in IF in THEN check_proc(pc, own.data, own.hup)
                 ELSE {[buf |-> pc.buf, drop |-> FALSE, left |-> own.data]} :
          LET drop == r.drop \/ hup
          IN  /\ procs' = [procs EXCEPT ![i].buf = r.buf, ![i].fd = IF drop THEN CLOSED ELSE @]
              /\ pipe' = [pipe EXCEPT ![i] = IF drop THEN NoPipe ELSE [@ EXCEPT !.data = r.left]]
              /\ lost' = [lost EXCEPT ![i] = @ \/ (drop /\ r.left)]
  BY Zenon DEF process_proc
<1> DEFINE RR == [buf : BOOLEAN, drop : BOOLEAN, left : BOOLEAN]
<1>5. PICK r \in RR :
          LET drop == r.drop \/ hup
          IN  /\ procs' = [procs EXCEPT ![i].buf = r.buf, ![i].fd = IF drop THEN CLOSED ELSE @]
              /\ pipe' = [pipe EXCEPT ![i] = IF drop THEN NoPipe ELSE [@ EXCEPT !.data = r.left]]
              /\ lost' = [lost EXCEPT ![i] = @ \/ (drop /\ r.left)]
  <2>1. [buf |-> pc.buf, drop |-> FALSE, left |-> own.data] \in RR
    BY <1>1, <1>3, Zenon DEF ProcType
  <2>2. check_proc(pc, own.data, own.hup) \subseteq RR
    BY DEF check_proc
  <2>3. QED
    BY <1>4, <2>1, <2>2, Zenon
<1> HIDE DEF own
<1> DEFINE drop == r.drop \/ hup
           rec == [pc EXCEPT !.buf = r.buf, !.fd = IF drop THEN CLOSED ELSE @]
           pi == IF drop THEN NoPipe ELSE [pipe[i] EXCEPT !.data = r.left]
           b == lost[i] \/ (drop /\ r.left)
<1>6. procs' = [procs EXCEPT ![i] = rec] /\ pipe' = [pipe EXCEPT ![i] = pi] /\ lost' = [lost EXCEPT ![i] = b]
  BY <1>1, <1>5, Zenon
<1>7. r.buf \in BOOLEAN /\ r.left \in BOOLEAN
  BY <1>5
<1> HIDE DEF drop
<1>8. rec \in ProcType /\ rec.pid = pc.pid /\ rec.name = pc.name /\ rec.flags = pc.flags
  BY <1>1, <1>7, Zenon DEF ProcType
<1>9. pi \in [data : BOOLEAN, hup : BOOLEAN]
  BY <1>3, <1>7, Records
<1>10. b \in BOOLEAN
  BY Zenon
<1> HIDE DEF rec, pi, b
<1>11. AgreeNow'
  BY <1>1, <1>2, <1>6, <1>8, TouchEntry, Zenon DEF topvars
<1>12. KernRest'
  BY <1>1, <1>2, <1>6, <1>9, <1>10 DEF KernRest
<1>13. TopRest' /\ ConnType'
  BY <1>1, <1>2 DEF TopRest, ConnType, topvars, connvars
<1>14. QED
  BY <1>11, <1>12, <1>13 DEF IInv

\* A child that dies is still there until it is reaped.
LEMMA KidStep ==
  ASSUME IInv, NEW p \in Pids, KidDies(p)
  PROVE  IInv'
<1>1. /\ AgreeNow /\ TopRest /\ ConnType /\ KernRest
      /\ procs \in [Slots -> ProcType] /\ kid \in [Pids -> KidType]
  BY DEF IInv, AgreeNow, Agree, Typed
<1>2. PICK s \in Statuses : kid' = [kid EXCEPT ![p].st = "zombie", ![p].status = s, ![p].killed = FALSE]
  BY Zenon DEF KidDies
<1>3. /\ kid[p].st = "run" /\ sigs' = sigs \cup {"CHLD"}
      /\ pipe' = [i \in Slots |-> IF i \in PipeOf(p) /\ kid[p].what = "svc"
                                  THEN [pipe[i] EXCEPT !.hup = TRUE] ELSE pipe[i]]
      /\ UNCHANGED <<hub, topvars, tabvars, connvars, alarm, leaked, forced, lost>>
  BY DEF KidDies
<1> DEFINE L == kid'
           k == [kid[p] EXCEPT !.st = "zombie", !.status = s, !.killed = FALSE]
<1>4. k \in KidType /\ k.what = kid[p].what /\ k.st = "zombie"
  BY <1>1, Zenon DEF KidType
<1>5. L = [kid EXCEPT ![p] = k]
  BY <1>1, <1>2, Zenon
<1> HIDE DEF k, L
<1>6. L \in [Pids -> KidType]
  BY <1>1, <1>4, <1>5
<1>7. \A q \in Pids : L[q].what = kid[q].what /\ (L[q].st = "free" <=> kid[q].st = "free")
  BY <1>1, <1>3, <1>4, <1>5
<1>8. Agree(procs, L, scrpid, nalive, forced, nprocs)
  BY <1>1, <1>6, <1>7, Quiet DEF AgreeNow
<1>9. AgreeNow'
  BY <1>3, <1>8 DEF AgreeNow, L, tabvars, topvars
<1>10. KernRest'
  BY <1>1, <1>3, Zenon DEF KernRest
<1>11. TopRest' /\ ConnType'
  BY <1>1, <1>3 DEF TopRest, ConnType, topvars, connvars
<1>12. QED
  BY <1>9, <1>10, <1>11 DEF IInv

\* A reparented process is no service.
LEMMA OrphanStep ==
  ASSUME IInv, NEW p \in Pids, OrphanDies(p)
  PROVE  IInv'
<1> DEFINE k == [NoKid EXCEPT !.st = "zombie", !.what = "orphan"]
<1>1. AgreeNow /\ TopRest /\ ConnType /\ KernRest
  BY DEF IInv
<1>2. /\ kid[p].st = "free" /\ kid' = [kid EXCEPT ![p] = k] /\ sigs' = sigs \cup {"CHLD"}
      /\ UNCHANGED <<hub, topvars, tabvars, connvars, alarm, pipe, leaked, forced, lost>>
  BY DEF OrphanDies
<1>3. k \in KidType /\ k.st = "zombie" /\ k.what = "orphan"
  BY Values, Zenon DEF NoKid, KidType
<1> HIDE DEF k
<1>4. Agree(procs, [kid EXCEPT ![p] = k], scrpid, nalive, forced, nprocs)
  BY <1>1, <1>2, <1>3, OrphanCame, Zenon DEF AgreeNow
<1>5. AgreeNow'
  BY <1>2, <1>4 DEF AgreeNow, tabvars, topvars
<1>6. TopRest' /\ ConnType' /\ KernRest'
  BY <1>1, <1>2 DEF TopRest, ConnType, KernRest, topvars, connvars
<1>7. QED
  BY <1>5, <1>6 DEF IInv

\* Writing to a pipe touches the pipe only.
LEMMA WriteStep ==
  ASSUME IInv, NEW i \in Slots, KidWrites(i)
  PROVE  IInv'
<1>1. AgreeNow /\ TopRest /\ ConnType /\ KernRest
  BY DEF IInv
<1>2. UNCHANGED <<hub, topvars, tabvars, connvars, kid, sigs, alarm, leaked, forced, lost>>
  BY DEF KidWrites
<1>3. pipe' \in [Slots -> [data : BOOLEAN, hup : BOOLEAN]]
  <2>1. pipe \in [Slots -> [data : BOOLEAN, hup : BOOLEAN]]
    BY <1>1 DEF KernRest
  <2>2. CASE pipe' = [pipe EXCEPT ![i].data = TRUE]
    BY <2>1, <2>2, Zenon
  <2>3. CASE pipe' = [pipe EXCEPT ![i].hup = TRUE]
    BY <2>1, <2>3, Zenon
  <2>4. QED
    BY <2>2, <2>3 DEF KidWrites
<1>4. AgreeNow'
  BY <1>1, <1>2, SameNow DEF topvars
<1>5. TopRest' /\ ConnType' /\ KernRest'
  BY <1>1, <1>2, <1>3 DEF TopRest, ConnType, KernRest, topvars, connvars
<1>6. QED
  BY <1>4, <1>5 DEF IInv

\* Time ages an entry, no more.
LEMMA TickStep ==
  ASSUME IInv, NEW i \in Slots, Tick(i)
  PROVE  IInv'
<1> DEFINE r == [procs[i] EXCEPT !.old = TRUE]
<1>1. AgreeNow /\ TopRest /\ ConnType /\ KernRest /\ procs \in [Slots -> ProcType]
  BY DEF IInv, AgreeNow, Agree, Typed
<1>2. procs' = [procs EXCEPT ![i] = r]
  BY DEF Tick
<1>3. UNCHANGED <<hub, topvars, nprocs, nalive, connvars, kernvars, forced, lost>>
  BY DEF Tick
<1>4. r \in ProcType /\ r.pid = procs[i].pid /\ r.name = procs[i].name /\ r.flags = procs[i].flags
  BY <1>1, Zenon DEF ProcType
<1> HIDE DEF r
<1>5. AgreeNow'
  BY <1>1, <1>2, <1>3, <1>4, TouchEntry, Zenon DEF topvars, kernvars
<1>6. TopRest' /\ ConnType' /\ KernRest'
  BY <1>1, <1>3 DEF TopRest, ConnType, KernRest, topvars, connvars, kernvars
<1>7. QED
  BY <1>5, <1>6 DEF IInv

\* The alarm, the end of the machine, and no step at all.
LEMMA IdleStep ==
  IInv /\ (AlarmFires \/ (\E p \in Pids : Halt(p)) \/ UNCHANGED vars) => IInv'
<1> SUFFICES ASSUME IInv, AlarmFires \/ (\E p \in Pids : Halt(p)) \/ UNCHANGED vars PROVE IInv'
  OBVIOUS
<1>1. UNCHANGED <<topvars, tabvars, connvars, kid, pipe, leaked, forced, lost>>
  BY DEF AlarmFires, Halt, vars, kernvars
<1>2. hub' \in {hub, "halted"} /\ sigs' \in {sigs, sigs \cup {"ALRM"}} /\ (alarm' = alarm \/ alarm' = FALSE)
  BY DEF AlarmFires, Halt, vars, kernvars
<1>3. AgreeNow'
  BY <1>1, SameNow DEF IInv, topvars
<1>4. TopRest' /\ ConnType' /\ KernRest'
  BY <1>1, <1>2, Zenon DEF IInv, TopRest, ConnType, KernRest, topvars, connvars
<1>5. QED
  BY <1>3, <1>4 DEF IInv

-----------------------------------------------------------------------------
(* The theorems *)

\* Every step preserves the inductive invariant.
LEMMA NextIInv == ForkWorks /\ IInv /\ [Next]_vars => IInv'
<1> SUFFICES ASSUME ForkWorks, IInv, [Next]_vars PROVE IInv'
  OBVIOUS
<1>1. CASE \E c \in Conns : ClientStep(c)
  BY <1>1, ClientIInv
<1>2. CASE HubStep
  BY <1>2, ChildrenStep, ReapStep, ReapDoneStep, AlarmStep, SignalStep, OutputStep, SocketStep DEF HubStep
<1>3. CASE KernelStep
  BY <1>3, KidStep, OrphanStep, WriteStep, TickStep, IdleStep DEF KernelStep
<1>4. CASE AllStopped \/ UNCHANGED vars
  BY <1>4, IdleStep DEF AllStopped
<1>5. QED
  BY <1>1, <1>2, <1>3, <1>4 DEF Next

\* The inductive invariant holds in every reachable state.
LEMMA Inductive == ForkWorks /\ Spec => []IInv
<1>1. CASE ~ForkWorks
  BY <1>1
<1>2. CASE ForkWorks
  <2>1. IInv /\ [Next]_vars => IInv'
    BY <1>2, NextIInv
  <2>2. QED
    BY <2>1, InitIInv, PTL DEF Spec
<1>3. QED
  BY <1>1, <1>2

\* As long as fork() does not fail, no index of svchub runs past its table and
\* every field keeps a value the handlers expect.
THEOREM TypeCorrect == ForkWorks /\ Spec => []TypeOK
  BY Inductive, IInvImplies, PTL

\* As long as fork() does not fail, the count on which check_children bases
\* the end of the system is exact, whatever order children die, are reaped,
\* respawned, stopped and removed in.
THEOREM NaliveCorrect == ForkWorks /\ Spec => []NaliveExact
  BY Inductive, IInvImplies, PTL

\* As long as fork() does not fail, the service table and the kernel agree on
\* which processes are svchub's, even though pids are reused and an entry keeps
\* a wait status where its pid was.
THEOREM ChildrenCorrect == ForkWorks /\ Spec => []ChildrenTracked
  BY Inductive, IInvImplies, PTL

\* With no entry alive and none given up, no service is left.
LEMMA NoneLeft ==
  ASSUME IInv, forced = 0, LiveIn(procs) = {}
  PROVE  \A p \in Pids : kid[p].what # "svc"
  BY DEF IInv, AgreeNow, Agree, Tracked

\* A forced shutdown that finds no service alive gives up on none.
LEMMA ForcedOrder ==
  ASSUME IInv, force_shutdown, forced' = 0
  PROVE  \A p \in Pids : kid[p].what # "svc"
<1> DEFINE hit == {i \in 1..nprocs : Alive(procs[i])}
<1>1. /\ forced \in Nat /\ nprocs \in 0..NPROCS /\ NPROCS \in Nat /\ Shape(procs, nprocs)
  BY Sizes DEF IInv, AgreeNow, Agree, Typed
<1>2. LiveIn(procs) = hit
  <2>1. hit \subseteq LiveIn(procs)
    BY <1>1 DEF LiveIn, Slots
  <2>2. ASSUME NEW i \in LiveIn(procs) PROVE i \in hit
    <3>1. i \in Slots /\ Alive(procs[i])
      BY DEF LiveIn
    <3>2. procs[i].flags # {}
      BY <3>1 DEF Alive
    <3>3. ~(i > nprocs)
      BY <1>1, <3>1, <3>2, Zenon DEF Shape
    <3>4. i \in 1..NPROCS
      BY <3>1 DEF Slots
    <3>5. i \in 1..nprocs
      BY <1>1, <3>3, <3>4
    <3> QED BY <3>1, <3>5
  <2> QED BY <2>1, <2>2
<1>3. IsFiniteSet(LiveIn(procs)) /\ Cardinality(LiveIn(procs)) \in Nat
  BY LiveFinite
<1>4. forced' = forced + Cardinality(hit)
  BY DEF force_shutdown
<1>5. forced = 0 /\ Cardinality(LiveIn(procs)) = 0
  BY <1>1, <1>2, <1>3, <1>4
<1>6. LiveIn(procs) = {}
  BY <1>3, <1>5, FS_EmptySet
<1>7. QED
  BY <1>5, <1>6, NoneLeft

\* check_children finds nalive = 0.
LEMMA ReapedOrder ==
  ASSUME IInv, all_gone, forced = 0
  PROVE  \A p \in Pids : kid[p].what # "svc"
<1>1. IsFiniteSet(LiveIn(procs)) /\ Cardinality(LiveIn(procs)) \in Nat
  BY LiveFinite
<1>2. Cardinality(LiveIn(procs)) = 0
  BY <1>1 DEF IInv, AgreeNow, Agree, Exact, all_gone
<1>3. LiveIn(procs) = {}
  BY <1>1, <1>2, FS_EmptySet
<1>4. QED
  BY <1>3, NoneLeft

\* No client makes svchub enter S_SHUTDOWN.
LEMMA ClientState ==
  ASSUME NEW c \in Conns, ClientStep(c)
  PROVE  state' \in {state, S_STOPPING}
<1>1. CASE Start(c)
  BY <1>1 DEF Start, cmd_start, topvars
<1>2. CASE Stop(c)
  BY <1>2 DEF Stop, cmd_stop, topvars
<1>3. CASE Flush(c)
  BY <1>3 DEF Flush, cmd_flush, topvars
<1>4. CASE Remove(c)
  BY <1>4 DEF Remove, cmd_remove, topvars
<1>5. CASE Reboot(c)
  BY <1>5 DEF Reboot, cmd_reboot, begin_stop
<1>6. CASE close_conn(c)
  BY <1>6 DEF close_conn, topvars
<1>7. QED
  BY <1>1, <1>2, <1>3, <1>4, <1>5, <1>6 DEF ClientStep

\* Neither does the end of a child.
LEMMA ReapState ==
  ASSUME NEW p \in Pids, reap_one(p)
  PROVE  state' = state \/ state' \in {S_UNKNOWN, S_RUNNING, S_STOPPING}
<1>1. CASE script_exit(p, kid[p].status)
  BY <1>1 DEF script_exit, begin_stop
<1>2. CASE proc_died(First(find_by_pid(p)), p, kid[p].status)
  BY <1>2 DEF proc_died, topvars
<1>3. CASE UNCHANGED topvars
  BY <1>3 DEF topvars
<1>4. QED
  BY <1>1, <1>2, <1>3 DEF reap_one

\* As long as fork() does not fail, the shutdown script is started only when
\* every service has been reaped, unless the shutdown is forced.
THEOREM OrderCorrect == ForkWorks /\ Spec => ShutdownOrder
<1> DEFINE A == state # S_SHUTDOWN /\ state' = S_SHUTDOWN /\ forced' = 0
                => \A p \in Pids : kid[p].what # "svc"
<1>1. IInv /\ [Next]_vars => A
  <2> SUFFICES ASSUME IInv, [Next]_vars, state # S_SHUTDOWN, state' = S_SHUTDOWN, forced' = 0
               PROVE  \A p \in Pids : kid[p].what # "svc"
    OBVIOUS
  <2> USE DEF S_UNKNOWN, S_RUNNING, S_STOPPING, S_SHUTDOWN
  <2>1. CASE \E c \in Conns : ClientStep(c)
    BY <2>1, ClientState
  <2>2. CASE handle_alarm
    BY <2>2, ForcedOrder DEF handle_alarm, topvars
  <2>3. CASE \E s \in Signals : signal_stop(s)
    <3> PICK s \in Signals : signal_stop(s)
      BY <2>3
    <3>1. CASE force_shutdown
      BY <3>1, ForcedOrder
    <3>2. CASE UNCHANGED topvars
      BY <3>2 DEF topvars
    <3>3. CASE begin_stop(IF s = "PWR" THEN "poweroff" ELSE "reboot", kid, scrpid)
      BY <3>3 DEF begin_stop
    <3> QED BY <3>1, <3>2, <3>3 DEF signal_stop
  <2>4. CASE reap_done
    BY <2>4, ReapedOrder DEF reap_done
  <2>5. CASE \E p \in Pids : reap_one(p)
    BY <2>5, ReapState
  <2>6. CASE UNCHANGED state
    BY <2>6
  <2>7. HubStep \/ KernelStep \/ AllStopped \/ UNCHANGED vars
        => \/ handle_alarm \/ reap_done \/ UNCHANGED state
           \/ \E s \in Signals : signal_stop(s)
           \/ \E p \in Pids : reap_one(p)
    BY Zenon DEF HubStep, KernelStep, AllStopped, vars, topvars, check_children, process_proc, check_socket,
           KidDies, OrphanDies, Halt, KidWrites, Tick, AlarmFires
  <2>8. QED
    BY <2>1, <2>2, <2>3, <2>4, <2>5, <2>6, <2>7 DEF Next
<1>2. QED
  BY <1>1, Inductive, PTL DEF Spec, ShutdownOrder
=============================================================================
