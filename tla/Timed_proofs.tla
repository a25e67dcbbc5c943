----------------------------- MODULE Timed_proofs -----------------------------
(***************************************************************************)
(* timed, for any number of servers, attempts and delays: it polls only    *)
(* servers it has measured and not given up, sleeps only with a timeout,   *)
(* is idle only for want of servers, and an adjustment does not make the   *)
(* clock worse than half a round trip.                                     *)
(*                                                                         *)
(* The handlers are functions of a world.  Fine says what holds of a world *)
(* when a handler is done with it, for a clock that is off by O; the       *)
(* measurement a selection rests upon was made with this same clock,       *)
(* because nothing touches the clock while servers are pinged.             *)
(***************************************************************************)
EXTENDS Timed, WellFoundedInduction, TLAPS

Pinging == {"PING_SENT", "PING_WAIT"}
States == {"IDLE", "SELECT"} \cup Chosen
Flags == {"SET", "PING", "RTT", "KILL", "FAIL"}
Server == [addr : Addrs \cup {None}, flags : SUBSET Flags, rtt : Nat]
Top ==
  [state : States, current : {0} \cup Slots, failures : Nat, bestidx : {0} \cup Slots, bestrtt : Int,
   interval : Nat, tistate : {"NONE", "ARMED", "CLEAR"}, alarm : BOOLEAN, sock : BOOLEAN, ref : BOOLEAN,
   lo : Int, hi : Int, quit : BOOLEAN]
Packet == [srv : Addrs \cup {None}, new : BOOLEAN]
Worlds == [tm : Top, servs : [Slots -> Server], net : SUBSET Packet, dt : Int]

\* what was measured or given up has been pinged, and what was pinged is set
Marked(S) ==
  \A i \in Slots : /\ S[i].flags \cap {"RTT", "KILL", "FAIL"} # {} => "PING" \in S[i].flags
                   /\ S[i].flags # {} => "SET" \in S[i].flags

Measured(sv) == has(sv, {"SET", "RTT"}, {"KILL", "FAIL"})

Usable(w) ==
  w.tm.state \in Chosen =>
    /\ w.tm.current # 0
    /\ has(w.servs[w.tm.current], {"SET", "PING"}, {"KILL", "FAIL"})
    /\ w.tm.state \in {"POLL_SENT", "POLL_WAIT"} => "RTT" \in w.servs[w.tm.current].flags

Reason(w) == w.tm.state = "IDLE" => \A i \in Slots : ~Measured(w.servs[i])

Timeout(w) ==
  /\ w.tm.state # "IDLE" => w.tm.alarm \/ w.tm.tistate = "ARMED"
  /\ w.tm.state \in Pinging => w.tm.tistate # "ARMED"

\* the best so far was measured with the clock off by O
BestIs(w, O) ==
  w.tm.bestidx # 0 =>
    /\ Measured(w.servs[w.tm.bestidx])
    /\ w.tm.lo <= O /\ O <= w.tm.hi

Best(w, O) == w.tm.state \in Pinging => BestIs(w, O) /\ w.tm.bestidx # w.tm.current

\* an adjustment is for the better
Better(w, O) ==
  w.dt # 0 =>
    /\ w.tm.state = "POLL_WAIT"
    /\ \A d \in Int : (w.dt <= d /\ d <= 0) \/ (0 <= d /\ d <= w.dt)
         => abs(O + d) <= larger(abs(O), w.servs[w.tm.current].rtt \div 2)

Fine(w, O) ==
  /\ w \in Worlds
  /\ ~w.tm.quit => Marked(w.servs) /\ Usable(w) /\ Reason(w) /\ Timeout(w) /\ Best(w, O)
  /\ Better(w, O)

IInv == Fine(World, off) /\ off \in Int /\ sig \in BOOLEAN
-----------------------------------------------------------------------------
(* Sets of slots *)

LEMMA FirstIn ==
  ASSUME NEW S \in SUBSET Nat, S # {}
  PROVE  first(S) \in S /\ \A j \in S : first(S) <= j
  <1> DEFINE R == OpToRel(<, Nat)
  <1>1. IsWellFoundedOn(R, Nat)
    BY NatLessThanWellFounded, Zenon
  <1> HIDE DEF R
  <1>2. PICK x \in S : \A y \in S : ~(<<y, x>> \in R)
    BY <1>1, WFMin, Zenon
  <1>3. \A y \in S : x <= y
    <2> SUFFICES ASSUME NEW y \in S, y < x PROVE FALSE
      OBVIOUS
    <2> DEFINE yx == <<y, x>>
    <2>1. yx \in Nat \X Nat /\ yx[1] < yx[2]
      OBVIOUS
    <2> HIDE DEF yx
    <2>2. yx \in {st \in Nat \X Nat : st[1] < st[2]}
      BY <2>1
    <2>3. <<y, x>> \in R
      BY <2>2 DEF yx, R, OpToRel
    <2> QED BY <1>2, <2>3
  <1> QED BY <1>3, Zenon DEF first

LEMMA LastIn ==
  ASSUME NEW N \in Nat, NEW S \in SUBSET (1..N), S # {}
  PROVE  last(S) \in S
  <1> DEFINE T == {n \in 0..N : N - n \in S}
  <1>1. T \in SUBSET Nat /\ T # {}
    <2>1. PICK x \in S : TRUE
      OBVIOUS
    <2>2. N - x \in 0..N /\ N - (N - x) = x
      BY <2>1
    <2>3. N - x \in T
      BY <2>1, <2>2
    <2>4. T \subseteq Nat
      OBVIOUS
    <2> HIDE DEF T
    <2> QED BY <2>3, <2>4
  <1>2. first(T) \in T /\ \A n \in T : first(T) <= n
    BY <1>1, FirstIn
  <1> DEFINE m == N - first(T)
  <1>3. m \in S /\ first(T) \in 0..N
    BY <1>2
  <1>4. ASSUME NEW j \in S PROVE j <= m
    <2>1. N - j \in 0..N /\ N - (N - j) = j /\ j \in 1..N
      OBVIOUS
    <2>2. N - j \in T
      BY <2>1
    <2>3. first(T) <= N - j
      BY <1>2, <2>2
    <2> QED BY <1>3, <2>1, <2>3
  <1> HIDE DEF m
  <1> QED BY <1>3, <1>4, Zenon DEF last

-----------------------------------------------------------------------------
(* What the handlers are made of *)

\* what only the control of timed sees is left alone
Kept(u, w) ==
  /\ u.servs = w.servs /\ u.dt = w.dt
  /\ u.tm.bestidx = w.tm.bestidx /\ u.tm.lo = w.tm.lo /\ u.tm.hi = w.tm.hi /\ u.tm.quit = w.tm.quit

LEMMA TimedSet ==
  ASSUME NEW w \in Worlds, NEW state \in States, NEW long \in BOOLEAN
  PROVE  LET u == set_timed(w, state, long) IN
         /\ u \in Worlds /\ Kept(u, w) /\ u.tm.current = w.tm.current
         /\ u.tm.state = state /\ u.tm.alarm = ~long
         /\ u.tm.tistate = "ARMED" <=> long
  <1> DEFINE v(b, t) == [w EXCEPT !.tm.state = state, !.tm.alarm = b, !.tm.tistate = t]
             Set(u, b, t) == /\ u \in Worlds /\ Kept(u, w) /\ u.tm.current = w.tm.current
                             /\ u.tm.state = state /\ u.tm.alarm = b /\ u.tm.tistate = t
  <1>1. ASSUME NEW b \in BOOLEAN, NEW t \in {"NONE", "ARMED", "CLEAR"}
        PROVE  Set(v(b, t), b, t)
    BY DEF Worlds, Top, Kept
  <1> DEFINE b == ~long  t == IF long THEN "ARMED" ELSE IF w.tm.tistate = "ARMED" THEN "CLEAR" ELSE w.tm.tistate
  <1>2. b \in BOOLEAN /\ t \in {"NONE", "ARMED", "CLEAR"} /\ (t = "ARMED" <=> long)
    BY DEF Worlds, Top
  <1>3. set_timed(w, state, long) = v(b, t)
    BY DEF set_timed
  <1> HIDE DEF b, t, v, Set
  <1>4. Set(v(b, t), b, t)
    BY <1>1, <1>2, Zenon
  <1>5. Set(set_timed(w, state, long), b, t)
    BY <1>3, <1>4, Zenon
  <1> QED BY <1>2, <1>5, Zenon DEF b, Set

\* A wait for the timer, and one in ppoll.
LEMMA LongSet ==
  ASSUME NEW w \in Worlds, NEW state \in States
  PROVE  LET u == set_timed(w, state, TRUE) IN
         /\ u \in Worlds /\ Kept(u, w) /\ u.tm.current = w.tm.current
         /\ u.tm.state = state /\ u.tm.tistate = "ARMED"
  <1>1. TRUE \in BOOLEAN
    OBVIOUS
  <1> QED BY <1>1, TimedSet, ZenonT(40)

LEMMA ShortSet ==
  ASSUME NEW w \in Worlds, NEW state \in States
  PROVE  LET u == set_timed(w, state, FALSE) IN
         /\ u \in Worlds /\ Kept(u, w) /\ u.tm.current = w.tm.current
         /\ u.tm.state = state /\ u.tm.alarm /\ u.tm.tistate # "ARMED"
  <1>1. FALSE \in BOOLEAN
    OBVIOUS
  <1> QED BY <1>1, TimedSet, ZenonT(40)

LEMMA StateNames == "IDLE" \in States /\ "SELECT" \in States /\ Chosen \subseteq States /\ "POLL_WAIT" \in States
                    /\ "POLL_SENT" \in States /\ "PING_WAIT" \in States /\ "PING_SENT" \in States
  BY DEF States, Chosen

LEMMA Stopped ==
  ASSUME NEW w \in Worlds
  PROVE  LET u == stop_service(w) IN
         u \in Worlds /\ u.servs = w.servs /\ u.dt = w.dt /\ u.tm.state = "IDLE" /\ u.tm.quit = w.tm.quit
  BY ZenonT(40) DEF Worlds, Top, stop_service, States

\* current is set, or anything else that is a slot or none.
LEMMA CurrentSet ==
  ASSUME NEW w \in Worlds, NEW i \in {0} \cup Slots
  PROVE  LET u == [w EXCEPT !.tm.current = i] IN
         /\ u \in Worlds /\ Kept(u, w) /\ u.tm.current = i /\ u.tm.state = w.tm.state
         /\ u.tm.alarm = w.tm.alarm /\ u.tm.tistate = w.tm.tistate
  BY DEF Worlds, Top, Kept

LEMMA ServsSet ==
  ASSUME NEW w \in Worlds, NEW S \in [Slots -> Server]
  PROVE  LET u == [w EXCEPT !.servs = S] IN
         u \in Worlds /\ u.servs = S /\ u.tm = w.tm /\ u.dt = w.dt /\ u.net = w.net
  BY DEF Worlds

\* The server found is one that was measured and not given up, if there is one.
LEMMA BestFound ==
  ASSUME Setting, NEW w \in Worlds
  PROVE  LET i == find_next_best(w) IN
         \/ i = 0 /\ \A j \in Slots : ~Measured(w.servs[j])
         \/ i \in Slots /\ i # 0 /\ Measured(w.servs[i])
  <1> DEFINE S == {i \in Slots : has(w.servs[i], {"SET", "RTT"}, {"KILL", "FAIL"})}
             best == {i \in S : \A j \in S : w.servs[i].rtt <= w.servs[j].rtt}
  <1>1. find_next_best(w) = IF S = {} THEN 0 ELSE last(best)
    BY DEF find_next_best
  <1>2. CASE S = {}
    BY <1>1, <1>2 DEF Measured
  <1>3. CASE S # {}
    <2> DEFINE T == {w.servs[i].rtt : i \in S}
    <2>1. \A i \in S : w.servs[i].rtt \in Nat
      BY DEF Worlds, Server
    <2>2. T \in SUBSET Nat /\ T # {}
      BY <1>3, <2>1
    <2>3. first(T) \in T /\ \A n \in T : first(T) <= n
      BY <2>2, FirstIn
    <2>4. PICK x \in S : w.servs[x].rtt = first(T)
      BY <2>3, Zenon
    <2>5. x \in best
      BY <2>3, <2>4
    <2>6. NSERVS \in Nat /\ best \in SUBSET (1..NSERVS)
      BY DEF Setting, Slots
    <2> HIDE DEF T, best
    <2>7. last(best) \in best
      BY <2>5, <2>6, LastIn
    <2>8. last(best) \in S /\ S \subseteq Slots
      BY <2>7 DEF best
    <2> QED BY <1>1, <1>3, <2>8 DEF Measured, Slots
  <1> QED BY <1>2, <1>3

\* A server not pinged yet is picked: not one that was measured or given up.
LEMMA Picked ==
  ASSUME Setting, NEW w \in Worlds, Marked(w.servs)
  PROVE  LET u == select_unpinged(w)  i == u.tm.current IN
         /\ u \in Worlds /\ Marked(u.servs) /\ u.dt = w.dt
         /\ u.tm.bestidx = w.tm.bestidx /\ u.tm.lo = w.tm.lo /\ u.tm.hi = w.tm.hi /\ u.tm.quit = w.tm.quit
         /\ u.tm.state = w.tm.state /\ u.tm.alarm = w.tm.alarm /\ u.tm.tistate = w.tm.tistate
         /\ i # 0 => i \in Slots /\ has(u.servs[i], {"SET", "PING"}, {"KILL", "FAIL"}) /\ ~Measured(w.servs[i])
         /\ \A j \in Slots : j # i => u.servs[j] = w.servs[j]
  <1> DEFINE S == {i \in Slots : has(w.servs[i], {"SET"}, {"PING"})}  m == first(S)
  <1>1. CASE S = {}
    <2>1. select_unpinged(w) = [w EXCEPT !.tm.current = 0]
      BY <1>1 DEF select_unpinged
    <2> QED BY <2>1, CurrentSet DEF Kept
  <1>2. CASE S # {}
    <2>1. S \in SUBSET Nat
      BY DEF Slots
    <2>2. m \in S
      BY <1>2, <2>1, FirstIn
    <2> DEFINE x == [w EXCEPT !.tm.current = m]  F == w.servs[m].flags \cup {"PING"}
               sv == [w.servs[m] EXCEPT !.flags = F]  V == [w.servs EXCEPT ![m] = sv]
               u == [x EXCEPT !.servs = V]
    <2>3. select_unpinged(w) = u
      BY <1>2 DEF select_unpinged
    <2> HIDE DEF m
    <2>4. m \in Slots /\ has(w.servs[m], {"SET"}, {"PING"}) /\ w.servs \in [Slots -> Server] /\ w.servs[m] \in Server /\ m # 0
      <3>1. m \in Slots /\ has(w.servs[m], {"SET"}, {"PING"})
        BY <2>2
      <3>2. m # 0
        BY <3>1 DEF Slots
      <3> QED BY <3>1, <3>2 DEF Worlds
    <2>5. w.servs[m].flags \in SUBSET Flags /\ F \in SUBSET Flags
      BY <2>4 DEF Server, Flags
    <2> HIDE DEF F
    <2>6. sv \in Server /\ sv.flags = F
      BY <2>4, <2>5 DEF Server
    <2> HIDE DEF sv
    <2>7. V \in [Slots -> Server] /\ V[m] = sv /\ \A j \in Slots : j # m => V[j] = w.servs[j]
      BY <2>4, <2>6
    <2> HIDE DEF V
    <2>8. x \in Worlds /\ Kept(x, w) /\ x.tm.current = m /\ x.tm.state = w.tm.state
          /\ x.tm.alarm = w.tm.alarm /\ x.tm.tistate = w.tm.tistate
      BY <2>4, CurrentSet
    <2> HIDE DEF x
    <2>9. u \in Worlds /\ u.servs = V /\ u.tm = x.tm /\ u.dt = x.dt
      BY <2>7, <2>8, ServsSet
    <2> HIDE DEF u
    <2>10. w.servs[m].flags \cap {"RTT", "KILL", "FAIL"} = {} /\ "SET" \in w.servs[m].flags
      BY <2>4 DEF Marked, has
    <2>11. has(V[m], {"SET", "PING"}, {"KILL", "FAIL"}) /\ ~Measured(w.servs[m])
      BY <2>6, <2>7, <2>10 DEF has, Measured, F
    <2>12. Marked(V)
      BY <2>6, <2>7, <2>10 DEF Marked, F
    <2> QED BY <2>3, <2>4, <2>7, <2>8, <2>9, <2>11, <2>12 DEF Kept
  <1> QED BY <1>1, <1>2

-----------------------------------------------------------------------------
(* The clock *)

\* Between the clock as it is and the clock after the whole adjustment nothing is
\* worse than both the clock as it is and half the round trip.
LEMMA CorrectionBetter ==
  ASSUME NEW lo \in Int, NEW hi \in Int, NEW over \in Nat, NEW O \in Int, lo <= O, O <= hi
  PROVE  /\ correction(lo, hi, over) \in Int
         /\ \A d \in Int : LET dt == correction(lo, hi, over) IN
              (dt <= d /\ d <= 0) \/ (0 <= d /\ d <= dt) => abs(O + d) <= larger(abs(O), over)
  <1>1. CASE lo > 0
    <2>1. correction(lo, hi, over) = -(lo + over)
      BY <1>1 DEF correction
    <2> QED BY <1>1, <2>1 DEF abs, larger
  <1>2. CASE ~(lo > 0) /\ hi < 0
    <2>1. correction(lo, hi, over) = -(hi - over)
      BY <1>2 DEF correction
    <2> QED BY <1>2, <2>1 DEF abs, larger
  <1>3. CASE ~(lo > 0) /\ ~(hi < 0)
    <2>1. correction(lo, hi, over) = 0
      BY <1>3 DEF correction
    <2> QED BY <2>1 DEF abs, larger
  <1> QED BY <1>1, <1>2, <1>3

\* what consider_synching leaves alone
Still(u, w) ==
  /\ u.servs = w.servs /\ u.tm.state = w.tm.state /\ u.tm.current = w.tm.current
  /\ u.tm.quit = w.tm.quit

LEMMA Considered ==
  ASSUME Setting, NEW w \in Worlds, NEW O \in Int, w.dt = 0, w.tm.current \in Slots,
         w.tm.lo <= O, O <= w.tm.hi
  PROVE  LET u == consider_synching(w) IN
         /\ u \in Worlds /\ Still(u, w)
         /\ u.dt # 0 => \A d \in Int : (u.dt <= d /\ d <= 0) \/ (0 <= d /\ d <= u.dt)
              => abs(O + d) <= larger(abs(O), u.servs[u.tm.current].rtt \div 2)
  <1> DEFINE rtt == w.servs[w.tm.current].rtt  over == rtt \div 2  dt == correction(w.tm.lo, w.tm.hi, over)
             u == consider_synching(w)
  <1>1. w.tm.lo \in Int /\ w.tm.hi \in Int /\ rtt \in Nat /\ w.tm.interval \in Nat
    BY DEF Worlds, Top, Server
  <1>2. over \in Nat
    BY <1>1
  <1>3. /\ dt \in Int
        /\ \A d \in Int : (dt <= d /\ d <= 0) \/ (0 <= d /\ d <= dt) => abs(O + d) <= larger(abs(O), over)
    BY <1>1, <1>2, CorrectionBetter
  <1>4. u = increase_interval(w) \/ u = reset_interval([w EXCEPT !.dt = dt])
    BY DEF consider_synching
  <1> HIDE DEF dt
  <1>5. ASSUME NEW x \in Worlds, NEW n \in Nat
        PROVE  LET y == [x EXCEPT !.tm.interval = n] IN y \in Worlds /\ Still(y, x) /\ y.dt = x.dt
    BY DEF Worlds, Top, Still
  <1>6. CASE u = increase_interval(w)
    <2> DEFINE n == IF w.tm.interval < MAXEXP THEN w.tm.interval + 1 ELSE w.tm.interval
    <2>1. n \in Nat
      BY <1>1 DEF MAXEXP
    <2>2. u = [w EXCEPT !.tm.interval = n]
      BY <1>6 DEF increase_interval
    <2> HIDE DEF n, u
    <2> QED BY <1>5, <2>1, <2>2 DEF u
  <1>7. CASE u = reset_interval([w EXCEPT !.dt = dt])
    <2> DEFINE x == [w EXCEPT !.dt = dt]
    <2>1. x \in Worlds /\ Still(x, w) /\ x.dt = dt
      BY <1>3 DEF Worlds, Still
    <2>2. u = [x EXCEPT !.tm.interval = 1]
      BY <1>7 DEF reset_interval
    <2> HIDE DEF x, u
    <2>3. u \in Worlds /\ Still(u, x) /\ u.dt = x.dt
      BY <1>5, <2>1, <2>2
    <2>4. Still(u, w) /\ u.servs[u.tm.current].rtt = rtt
      BY <2>1, <2>3 DEF Still
    <2> QED BY <1>3, <2>1, <2>3, <2>4 DEF u
  <1> QED BY <1>4, <1>6, <1>7

-----------------------------------------------------------------------------
(* Servers *)

\* A world in which a measured server is to be polled.
LEMMA PollFine ==
  ASSUME NEW w \in Worlds, Marked(w.servs), w.tm.current \in Slots, w.tm.current # 0,
         Measured(w.servs[w.tm.current]), w.dt = 0, NEW O, NEW long \in BOOLEAN, NEW st \in {"POLL_WAIT", "POLL_SENT"}
  PROVE  Fine(set_timed(w, st, long), O)
  <1> DEFINE u == set_timed(w, st, long)
  <1>1. st \in States
    BY DEF States, Chosen
  <1>2. /\ u \in Worlds /\ Kept(u, w) /\ u.tm.current = w.tm.current
        /\ u.tm.state = st /\ u.tm.alarm = ~long
        /\ u.tm.tistate = "ARMED" <=> long
    BY <1>1, TimedSet
  <1> HIDE DEF u
  <1>3. "PING" \in w.servs[w.tm.current].flags
    BY DEF Marked, Measured, has
  <1>4. Usable(u)
    BY <1>2, <1>3 DEF Usable, Kept, Measured, has
  <1>5. Timeout(u)
    <2>1. u.tm.alarm \/ u.tm.tistate = "ARMED"
      BY <1>2, Zenon
    <2> QED BY <1>2, <2>1 DEF Timeout, Pinging
  <1>6. Reason(u) /\ Best(u, O) /\ Better(u, O)
    BY <1>2 DEF Reason, Best, Pinging, Better, Kept
  <1>7. Marked(u.servs)
    BY <1>2 DEF Kept
  <1> QED BY <1>2, <1>4, <1>5, <1>6, <1>7 DEF Fine, u

LEMMA StopFine ==
  ASSUME NEW w \in Worlds, Marked(w.servs), w.dt = 0, NEW O, \A j \in Slots : ~Measured(w.servs[j])
  PROVE  Fine(stop_service(w), O)
  <1> DEFINE u == stop_service(w)
  <1>1. u \in Worlds /\ u.servs = w.servs /\ u.dt = w.dt /\ u.tm.state = "IDLE" /\ u.tm.quit = w.tm.quit
    BY Stopped
  <1> HIDE DEF u
  <1>2. Usable(u) /\ Reason(u) /\ Timeout(u) /\ Best(u, O) /\ Better(u, O)
    BY <1>1 DEF Usable, Chosen, Reason, Timeout, Pinging, Best, Better
  <1> QED BY <1>1, <1>2 DEF Fine, u

\* The best of the pass is forgotten when the pass is over.
LEMMA ForgetBest ==
  ASSUME NEW w, NEW O, Fine(w, O), w.tm.state \notin Pinging
  PROVE  Fine([w EXCEPT !.tm.bestidx = 0, !.tm.bestrtt = 0], O)
  <1> DEFINE u == [w EXCEPT !.tm.bestidx = 0, !.tm.bestrtt = 0]
  <1>1. /\ u \in Worlds /\ u.servs = w.servs /\ u.dt = w.dt /\ u.tm.state = w.tm.state /\ u.tm.current = w.tm.current
        /\ u.tm.quit = w.tm.quit /\ u.tm.alarm = w.tm.alarm /\ u.tm.tistate = w.tm.tistate
    <2>1. w \in Worlds
      BY DEF Fine
    <2>2. ASSUME NEW i \in {0} \cup Slots, NEW n \in Int
          PROVE  LET z == [w EXCEPT !.tm.bestidx = i, !.tm.bestrtt = n] IN
                 /\ z \in Worlds /\ z.servs = w.servs /\ z.dt = w.dt /\ z.tm.state = w.tm.state
                 /\ z.tm.current = w.tm.current
                 /\ z.tm.quit = w.tm.quit /\ z.tm.alarm = w.tm.alarm /\ z.tm.tistate = w.tm.tistate
      BY <2>1 DEF Worlds, Top
    <2>3. 0 \in {0} \cup Slots /\ 0 \in Int
      OBVIOUS
    <2> QED BY <2>2, <2>3, Zenon
  <1> HIDE DEF u
  <1>2. Better(u, O)
    BY <1>1 DEF Fine, Better
  <1>3. ~u.tm.quit => Marked(u.servs) /\ Usable(u) /\ Reason(u) /\ Timeout(u) /\ Best(u, O)
    BY <1>1 DEF Fine, Usable, Reason, Timeout, Best
  <1> QED BY <1>1, <1>2, <1>3 DEF Fine, u

\* A measured server is to be polled again after its answer was considered.
LEMMA SyncFine ==
  ASSUME Setting, NEW v \in Worlds, Marked(v.servs), v.dt = 0, NEW O \in Int,
         v.tm.current \in Slots, v.tm.current # 0, Measured(v.servs[v.tm.current]),
         v.tm.lo <= O, O <= v.tm.hi
  PROVE  LET u == set_timed(consider_synching(v), "POLL_WAIT", TRUE) IN
         Fine(u, O) /\ u.tm.state = "POLL_WAIT"
  <1> DEFINE y == consider_synching(v)  u == set_timed(y, "POLL_WAIT", TRUE)
  <1>1. /\ y \in Worlds /\ Still(y, v)
        /\ y.dt # 0 => \A d \in Int : (y.dt <= d /\ d <= 0) \/ (0 <= d /\ d <= y.dt)
             => abs(O + d) <= larger(abs(O), y.servs[y.tm.current].rtt \div 2)
    BY Considered
  <1> HIDE DEF y
  <1>2. /\ u \in Worlds /\ Kept(u, y) /\ u.tm.current = y.tm.current
        /\ u.tm.state = "POLL_WAIT" /\ u.tm.tistate = "ARMED"
    BY <1>1, LongSet, StateNames
  <1> HIDE DEF u
  <1>3. "PING" \in v.servs[v.tm.current].flags
    BY DEF Marked, Measured, has
  <1>4. Usable(u)
    BY <1>1, <1>2, <1>3 DEF Usable, Kept, Still, Measured, has
  <1>5. Reason(u) /\ Timeout(u) /\ Best(u, O) /\ Marked(u.servs)
    BY <1>1, <1>2 DEF Reason, Timeout, Best, Pinging, Kept, Still
  <1>6. Better(u, O)
    BY <1>1, <1>2 DEF Better, Kept
  <1> QED BY <1>2, <1>4, <1>5, <1>6 DEF Fine, u, y

\* A pass ends with the best server, whose answer sets the clock, or with another
\* one that is better known, or with none.
LEMMA PassFine ==
  ASSUME Setting, NEW w \in Worlds, Marked(w.servs), w.dt = 0, NEW O \in Int, BestIs(w, O)
  PROVE  Fine(ping_pass_complete(w), O)
  <1> DEFINE ai == find_next_best(w)  v == [w EXCEPT !.tm.current = ai]  y == consider_synching(v)
             u == CASE ai = 0 -> stop_service(v)
                    [] ai # 0 /\ ai = w.tm.bestidx -> set_timed(y, "POLL_WAIT", TRUE)
                    [] OTHER -> set_timed(v, "POLL_WAIT", FALSE)
  <1>1. ping_pass_complete(w) = [u EXCEPT !.tm.bestidx = 0, !.tm.bestrtt = 0]
    BY Zenon DEF ping_pass_complete
  <1>2. \/ ai = 0 /\ \A j \in Slots : ~Measured(w.servs[j])
        \/ ai \in Slots /\ ai # 0 /\ Measured(w.servs[ai])
    BY BestFound
  <1> HIDE DEF ai
  <1>3. /\ v \in Worlds /\ Kept(v, w) /\ v.tm.current = ai
    BY <1>2, CurrentSet
  <1> HIDE DEF v
  <1>4. Fine(u, O) /\ u.tm.state \notin Pinging
    <2>1. CASE ai = 0
      <3>1. u = stop_service(v)
        BY <2>1
      <3> HIDE DEF u
      <3>2. v.dt = 0 /\ Marked(v.servs) /\ \A j \in Slots : ~Measured(v.servs[j])
        BY <1>2, <1>3, <2>1 DEF Kept, Slots
      <3>3. Fine(u, O) /\ u.tm.state = "IDLE"
        BY <1>3, <3>1, <3>2, StopFine, Stopped
      <3> QED BY <3>3 DEF Pinging
    <2>2. CASE ai # 0 /\ ai # w.tm.bestidx
      <3>1. u = set_timed(v, "POLL_WAIT", FALSE)
        BY <2>2
      <3> HIDE DEF u
      <3>2. v.dt = 0 /\ Marked(v.servs) /\ v.tm.current \in Slots /\ v.tm.current # 0 /\ Measured(v.servs[v.tm.current])
        BY <1>2, <1>3, <2>2 DEF Kept
      <3>3. Fine(u, O)
        BY <1>3, <3>1, <3>2, PollFine
      <3>4. u.tm.state = "POLL_WAIT"
        BY <1>3, <3>1, ShortSet, StateNames
      <3> QED BY <3>3, <3>4 DEF Pinging
    <2>3. CASE ai # 0 /\ ai = w.tm.bestidx
      <3>1. u = set_timed(y, "POLL_WAIT", TRUE)
        BY <2>3
      <3>2. /\ v.dt = 0 /\ v.tm.current \in Slots /\ v.tm.lo <= O /\ O <= v.tm.hi
            /\ Marked(v.servs) /\ Measured(v.servs[v.tm.current]) /\ v.tm.current # 0
        BY <1>2, <1>3, <2>3 DEF Kept, BestIs
      <3> HIDE DEF y, u
      <3>3. Fine(u, O) /\ u.tm.state = "POLL_WAIT"
        BY <1>3, <3>1, <3>2, SyncFine DEF y
      <3> QED BY <3>3 DEF Pinging
    <2> QED BY <2>1, <2>2, <2>3
  <1> HIDE DEF u
  <1> QED BY <1>1, <1>4, ForgetBest

\* Another server is polled, or none.
LEMMA BackupFine ==
  ASSUME Setting, NEW w \in Worlds, Marked(w.servs), w.dt = 0, NEW O
  PROVE  Fine(switch_to_backup(w), O)
  <1> DEFINE i == find_next_best(w)
  <1>1. switch_to_backup(w) = IF i = 0 THEN stop_service([w EXCEPT !.tm.current = 0])
                              ELSE set_timed([w EXCEPT !.tm.current = i], "POLL_WAIT", FALSE)
    BY DEF switch_to_backup, find_backup
  <1>2. \/ i = 0 /\ \A j \in Slots : ~Measured(w.servs[j])
        \/ i \in Slots /\ i # 0 /\ Measured(w.servs[i])
    BY BestFound
  <1> HIDE DEF i
  <1> DEFINE v == [w EXCEPT !.tm.current = i]
  <1>3. v \in Worlds /\ Kept(v, w) /\ v.tm.current = i
    BY <1>2, CurrentSet
  <1>4. CASE i = 0
    <2>1. switch_to_backup(w) = stop_service(v)
      BY <1>1, <1>4
    <2> HIDE DEF v
    <2>2. v.dt = 0 /\ Marked(v.servs) /\ \A j \in Slots : ~Measured(v.servs[j])
      BY <1>2, <1>3, <1>4 DEF Kept, Slots
    <2> QED BY <1>3, <2>1, <2>2, StopFine
  <1>5. CASE i # 0
    <2>1. switch_to_backup(w) = set_timed(v, "POLL_WAIT", FALSE)
      BY <1>1, <1>5
    <2> HIDE DEF v
    <2>2. v.dt = 0 /\ Marked(v.servs) /\ v.tm.current \in Slots /\ v.tm.current # 0 /\ Measured(v.servs[v.tm.current])
      BY <1>2, <1>3, <1>5 DEF Kept
    <2> QED BY <1>3, <2>1, <2>2, PollFine
  <1> QED BY <1>4, <1>5

\* A server is to be pinged.
Pingable(w, O) ==
  /\ w \in Worlds /\ Marked(w.servs) /\ w.dt = 0 /\ BestIs(w, O)
  /\ w.tm.current \in Slots /\ w.tm.current # 0 /\ w.tm.current # w.tm.bestidx
  /\ has(w.servs[w.tm.current], {"SET", "PING"}, {"KILL", "FAIL"})

LEMMA PingFine ==
  ASSUME NEW w, NEW O, Pingable(w, O), NEW st \in Pinging
  PROVE  Fine(set_timed(w, st, FALSE), O)
  <1> DEFINE u == set_timed(w, st, FALSE)
  <1>1. st \in States
    BY DEF States, Chosen, Pinging
  <1>2. /\ u \in Worlds /\ Kept(u, w) /\ u.tm.current = w.tm.current
        /\ u.tm.state = st /\ u.tm.alarm /\ u.tm.tistate # "ARMED"
    BY <1>1, ShortSet DEF Pingable
  <1> HIDE DEF u
  <1>3. Usable(u)
    BY <1>2 DEF Usable, Kept, Pingable, Pinging
  <1>4. Reason(u) /\ Timeout(u)
    BY <1>2 DEF Reason, Timeout, Pinging
  <1>5. Best(u, O)
    BY <1>2 DEF Best, BestIs, Kept, Pingable
  <1>6. Better(u, O) /\ Marked(u.servs)
    BY <1>2 DEF Better, Kept, Pingable
  <1> QED BY <1>2, <1>3, <1>4, <1>5, <1>6 DEF Fine, u

\* What select_unpinged picks can be pinged; if there is nothing the pass is over.
LEMMA PickedPingable ==
  ASSUME Setting, NEW w \in Worlds, Marked(w.servs), w.dt = 0, NEW O \in Int, BestIs(w, O)
  PROVE  LET u == select_unpinged(w) IN
         /\ u \in Worlds /\ Marked(u.servs) /\ u.dt = 0 /\ BestIs(u, O)
         /\ u.tm.quit = w.tm.quit
         /\ u.tm.state = w.tm.state /\ u.tm.alarm = w.tm.alarm /\ u.tm.tistate = w.tm.tistate
         /\ u.tm.current # 0 => Pingable(u, O)
  <1> DEFINE u == select_unpinged(w)  i == u.tm.current
  <1>1. /\ u \in Worlds /\ Marked(u.servs) /\ u.dt = w.dt
        /\ u.tm.bestidx = w.tm.bestidx /\ u.tm.lo = w.tm.lo /\ u.tm.hi = w.tm.hi /\ u.tm.quit = w.tm.quit
        /\ u.tm.state = w.tm.state /\ u.tm.alarm = w.tm.alarm /\ u.tm.tistate = w.tm.tistate
        /\ i # 0 => i \in Slots /\ has(u.servs[i], {"SET", "PING"}, {"KILL", "FAIL"}) /\ ~Measured(w.servs[i])
        /\ \A j \in Slots : j # i => u.servs[j] = w.servs[j]
    BY Picked
  <1> HIDE DEF u
  <1>2. w.tm.bestidx \in {0} \cup Slots /\ 0 \notin Slots
    BY DEF Worlds, Top, Slots
  <1>3. w.tm.bestidx # 0 => w.tm.bestidx # i
    BY <1>1 DEF BestIs
  <1>4. BestIs(u, O)
    BY <1>1, <1>2, <1>3 DEF BestIs
  <1> QED BY <1>1, <1>3, <1>4 DEF Pingable, u

LEMMA NextFine ==
  ASSUME Setting, NEW w \in Worlds, Marked(w.servs), w.dt = 0, NEW O \in Int, BestIs(w, O)
  PROVE  Fine(next_or_complete(w), O)
  <1> DEFINE v == select_unpinged(w)
  <1>1. /\ v \in Worlds /\ Marked(v.servs) /\ v.dt = 0 /\ BestIs(v, O)
        /\ v.tm.current # 0 => Pingable(v, O)
    BY PickedPingable
  <1>2. next_or_complete(w) = IF v.tm.current # 0 THEN set_timed(v, "PING_WAIT", FALSE) ELSE ping_pass_complete(v)
    BY DEF next_or_complete
  <1> HIDE DEF v
  <1>3. CASE v.tm.current # 0
    BY <1>1, <1>2, <1>3, PingFine DEF Pinging
  <1>4. CASE v.tm.current = 0
    BY <1>1, <1>2, <1>4, PassFine
  <1> QED BY <1>3, <1>4

\* The current server is given up.
LEMMA MarkGood ==
  ASSUME NEW w \in Worlds, Marked(w.servs), w.tm.current \in Slots, NEW O, NEW flag \in {"KILL", "FAIL"}
  PROVE  LET u == mark_current(w, flag) IN
         /\ u \in Worlds /\ u.dt = w.dt /\ u.tm.quit = w.tm.quit
         /\ has(w.servs[w.tm.current], {"SET", "PING"}, {}) => Marked(u.servs)
         /\ BestIs(w, O) /\ w.tm.bestidx # w.tm.current => BestIs(u, O)
  <1> DEFINE m == w.tm.current  F == w.servs[m].flags \cup {flag}  sv == [w.servs[m] EXCEPT !.flags = F]
             V == [w.servs EXCEPT ![m] = sv]  x == [w EXCEPT !.servs = V]
             u == [x EXCEPT !.tm.current = 0]
  <1>1. mark_current(w, flag) = u
    BY DEF mark_current
  <1>2. m \in Slots /\ w.servs \in [Slots -> Server] /\ w.servs[m] \in Server /\ w.tm.bestidx \in {0} \cup Slots
    BY DEF Worlds, Top
  <1> HIDE DEF m
  <1>3. F \in SUBSET Flags
    BY <1>2 DEF Server, Flags
  <1> HIDE DEF F
  <1>4. sv \in Server /\ sv.flags = F
    BY <1>2, <1>3 DEF Server
  <1> HIDE DEF sv
  <1>5. V \in [Slots -> Server] /\ V[m] = sv /\ \A j \in Slots : j # m => V[j] = w.servs[j]
    BY <1>2, <1>4
  <1> HIDE DEF V
  <1>6. x \in Worlds /\ x.servs = V /\ x.tm = w.tm /\ x.dt = w.dt
    BY <1>5, ServsSet
  <1> HIDE DEF x
  <1>7. u \in Worlds /\ Kept(u, x) /\ u.tm.current = 0
    BY <1>6, CurrentSet
  <1> HIDE DEF u
  <1>8. has(w.servs[m], {"SET", "PING"}, {}) => Marked(V)
    BY <1>4, <1>5 DEF Marked, has, F, m
  <1>9. BestIs(w, O) /\ w.tm.bestidx # m => BestIs(u, O)
    BY <1>2, <1>5, <1>6, <1>7 DEF BestIs, Kept
  <1> QED BY <1>1, <1>6, <1>7, <1>8, <1>9 DEF Kept, m

\* quit leaves nothing to hold but types
LEMMA QuitFine ==
  ASSUME NEW w \in Worlds, w.dt = 0, NEW O
  PROVE  Fine(quit(w), O)
  <1> DEFINE u == quit(w)
  <1>1. u \in Worlds /\ u.servs = w.servs /\ u.dt = w.dt /\ u.tm.quit = TRUE
    BY ZenonT(40) DEF quit, Worlds, Top
  <1> HIDE DEF u
  <1>2. Better(u, O)
    BY <1>1 DEF Better
  <1> QED BY <1>1, <1>2 DEF Fine, u

LEMMA DropFine ==
  ASSUME Setting, NEW w, NEW O \in Int, Fine(w, O), ~w.tm.quit, w.dt = 0, w.tm.current # 0,
         NEW flag \in {"KILL", "FAIL"}
  PROVE  Fine(drop_server(w, flag), O)
  <1> DEFINE v == mark_current(w, flag)
  <1>1. /\ w \in Worlds /\ Marked(w.servs) /\ w.tm.current \in Slots /\ Best(w, O)
        /\ w.tm.state \in Chosen => has(w.servs[w.tm.current], {"SET", "PING"}, {})
    BY DEF Fine, Worlds, Top, Usable, has
  <1>2. /\ v \in Worlds /\ (w.tm.state \in Chosen => Marked(v.servs)) /\ v.dt = w.dt /\ v.tm.quit = w.tm.quit
        /\ BestIs(w, O) /\ w.tm.bestidx # w.tm.current => BestIs(v, O)
    BY <1>1, MarkGood
  <1> HIDE DEF v
  <1>3. CASE w.tm.state = "PING_SENT"
    <2>1. drop_server(w, flag) = next_or_complete(v)
      BY <1>3 DEF drop_server, v
    <2>2. BestIs(v, O) /\ Marked(v.servs)
      BY <1>1, <1>2, <1>3 DEF Best, Pinging, Chosen
    <2> QED BY <1>2, <2>1, <2>2, NextFine
  <1>4. CASE w.tm.state = "POLL_SENT"
    <2>1. drop_server(w, flag) = switch_to_backup(v)
      BY <1>4 DEF drop_server, v
    <2>2. Marked(v.servs)
      BY <1>2, <1>4 DEF Chosen
    <2> QED BY <1>2, <2>1, <2>2, BackupFine
  <1>5. CASE w.tm.state # "PING_SENT" /\ w.tm.state # "POLL_SENT"
    <2>1. drop_server(w, flag) = quit(v)
      BY <1>5 DEF drop_server, v
    <2> QED BY <1>2, <2>1, QuitFine
  <1> QED BY <1>3, <1>4, <1>5

-----------------------------------------------------------------------------
(* Packets *)

\* what the handlers of packets and timeouts start from
Begun(w, O) == Fine(w, O) /\ ~w.tm.quit /\ w.dt = 0

\* A round trip is recorded.
Measure(w, m, n, F) == [w EXCEPT !.servs[m].rtt = n, !.servs[m].flags = F]

\* It stays one of a server that was marked.
LEMMA RttSet ==
  ASSUME NEW w \in Worlds, Marked(w.servs), NEW m \in Slots, NEW F \in SUBSET Flags, NEW n \in Nat,
         {"SET", "PING"} \subseteq F
  PROVE  LET u == Measure(w, m, n, F)
         IN  /\ u \in Worlds /\ Marked(u.servs) /\ u.tm = w.tm /\ u.dt = w.dt
             /\ u.servs[m].rtt = n /\ u.servs[m].flags = F
             /\ \A j \in Slots : j # m => u.servs[j] = w.servs[j]
  <1> DEFINE sv == [w.servs[m] EXCEPT !.rtt = n, !.flags = F]
             V == [w.servs EXCEPT ![m] = sv]  u == [w EXCEPT !.servs = V]
  <1>1. m \in Slots /\ w.servs \in [Slots -> Server] /\ w.servs[m] \in Server
    BY DEF Worlds
  <1>2. Measure(w, m, n, F) = u
    BY <1>1 DEF Worlds, Server, Measure
  <1>3. sv \in Server /\ sv.rtt = n /\ sv.flags = F
    BY <1>1 DEF Server
  <1> HIDE DEF sv
  <1>4. V \in [Slots -> Server] /\ V[m] = sv /\ \A j \in Slots : j # m => V[j] = w.servs[j]
    BY <1>1, <1>3
  <1> HIDE DEF V
  <1>5. u \in Worlds /\ u.servs = V /\ u.tm = w.tm /\ u.dt = w.dt
    BY <1>4, ServsSet
  <1> HIDE DEF u
  <1>6. Marked(V)
    BY <1>3, <1>4 DEF Marked
  <1> QED BY <1>2, <1>3, <1>4, <1>5, <1>6

LEMMA PingPointFine ==
  ASSUME Setting, NEW w, NEW O \in Int, Begun(w, O), w.tm.state = "PING_SENT",
         NEW lo \in Int, NEW hi \in Int, lo <= O, O <= hi
  PROVE  Fine(add_ping_point(w, lo, hi), O)
  <1> DEFINE m == w.tm.current  rtt == hi - lo  F == w.servs[m].flags \cup {"RTT"}
             v == Measure(w, m, rtt, F)
             u == [v EXCEPT !.tm.lo = lo, !.tm.hi = hi, !.tm.interval = 0,
                            !.tm.bestidx = m, !.tm.bestrtt = rtt]
             x == CASE rtt < 0 -> w
                    [] rtt >= 0 /\ w.tm.bestidx # 0 /\ w.tm.bestrtt < rtt -> v
                    [] OTHER -> u
             y == select_unpinged(x)
  <1>1. /\ w \in Worlds /\ Marked(w.servs) /\ w.dt = 0 /\ BestIs(w, O) /\ ~w.tm.quit
        /\ m \in Slots /\ m # 0 /\ m # w.tm.bestidx /\ has(w.servs[m], {"SET", "PING"}, {"KILL", "FAIL"})
        /\ w.tm.alarm /\ w.tm.tistate # "ARMED"
    BY DEF Begun, Fine, Usable, Timeout, Best, Chosen, Pinging, Worlds, Top
  <1>2. rtt \in Nat
    OBVIOUS
  <1>3. /\ add_ping_point(w, lo, hi) = IF y.tm.current # 0 THEN [y EXCEPT !.tm.state = "PING_WAIT"]
                                        ELSE ping_pass_complete(y)
    <2>1. [w EXCEPT !.servs[w.tm.current].rtt = hi - lo, !.servs[w.tm.current].flags = @ \cup {"RTT"}] = v
      BY <1>1 DEF Worlds, Server, Measure
    <2> QED BY <2>1, Zenon DEF add_ping_point, Measure
  <1> HIDE DEF rtt
  <1>4. F \in SUBSET Flags /\ {"SET", "PING", "RTT"} \subseteq F /\ F \cap {"KILL", "FAIL"} = {}
    BY <1>1 DEF Worlds, Server, Flags, has
  <1> HIDE DEF F
  <1>5. /\ v \in Worlds /\ Marked(v.servs) /\ v.tm = w.tm /\ v.dt = w.dt
        /\ v.servs[m].flags = F
        /\ \A j \in Slots : j # m => v.servs[j] = w.servs[j]
    <2>1. {"SET", "PING"} \subseteq F
      BY <1>4
    <2> QED BY <1>1, <1>2, <1>4, <2>1, RttSet
  <1> HIDE DEF v
  <1>6. BestIs(v, O)
    <2>1. w.tm.bestidx \in {0} \cup Slots
      BY <1>1 DEF Worlds, Top
    <2> QED BY <1>1, <1>5, <2>1 DEF BestIs
  <1>7. /\ u \in Worlds /\ u.servs = v.servs /\ u.dt = v.dt /\ u.tm.quit = w.tm.quit
        /\ u.tm.alarm = w.tm.alarm /\ u.tm.tistate = w.tm.tistate /\ u.tm.state = w.tm.state
        /\ u.tm.lo = lo /\ u.tm.hi = hi /\ u.tm.bestidx = m
    <2>1. ASSUME NEW n \in Nat, NEW b \in {0} \cup Slots, NEW r \in Int
          PROVE  LET z == [v EXCEPT !.tm.lo = lo, !.tm.hi = hi, !.tm.interval = n,
                                    !.tm.bestidx = b, !.tm.bestrtt = r] IN
                 /\ z \in Worlds /\ z.servs = v.servs /\ z.dt = v.dt /\ z.tm.quit = v.tm.quit
                 /\ z.tm.alarm = v.tm.alarm /\ z.tm.tistate = v.tm.tistate /\ z.tm.state = v.tm.state
                 /\ z.tm.lo = lo /\ z.tm.hi = hi /\ z.tm.bestidx = b
      <3> DEFINE t == [v.tm EXCEPT !.lo = lo, !.hi = hi, !.interval = n, !.bestidx = b, !.bestrtt = r]
      <3>1. v \in Worlds /\ v.tm \in Top
        BY <1>5 DEF Worlds
      <3>2. /\ t \in Top /\ t.quit = v.tm.quit /\ t.alarm = v.tm.alarm /\ t.tistate = v.tm.tistate
            /\ t.state = v.tm.state /\ t.lo = lo /\ t.hi = hi /\ t.bestidx = b
        BY <3>1 DEF Top
      <3>3. [v EXCEPT !.tm.lo = lo, !.tm.hi = hi, !.tm.interval = n,
                      !.tm.bestidx = b, !.tm.bestrtt = r] = [v EXCEPT !.tm = t]
        BY <3>1 DEF Worlds, Top
      <3> HIDE DEF t
      <3>4. LET z == [v EXCEPT !.tm = t] IN z \in Worlds /\ z.servs = v.servs /\ z.dt = v.dt /\ z.tm = t
        BY <3>1, <3>2 DEF Worlds
      <3> QED BY <3>2, <3>3, <3>4
    <2>2. 0 \in Nat /\ m \in {0} \cup Slots /\ rtt \in Int
      BY <1>1, <1>2
    <2>3. /\ u \in Worlds /\ u.servs = v.servs /\ u.dt = v.dt /\ u.tm.quit = v.tm.quit
          /\ u.tm.alarm = v.tm.alarm /\ u.tm.tistate = v.tm.tistate /\ u.tm.state = v.tm.state
          /\ u.tm.lo = lo /\ u.tm.hi = hi /\ u.tm.bestidx = m
      BY <2>1, <2>2, ZenonT(40)
    <2> HIDE DEF u
    <2> QED BY <1>5, <2>3
  <1> HIDE DEF u
  <1>8. BestIs(u, O)
    <2>1. Measured(u.servs[m])
      BY <1>4, <1>5, <1>7 DEF Measured, has
    <2> QED BY <1>7, <2>1 DEF BestIs
  <1>9. x = v \/ x = u
    BY <1>2
  <1> HIDE DEF x
  <1>10. /\ x \in Worlds /\ Marked(x.servs) /\ x.dt = 0 /\ BestIs(x, O)
         /\ x.tm.alarm /\ x.tm.tistate # "ARMED" /\ ~x.tm.quit
    BY <1>1, <1>5, <1>6, <1>7, <1>8, <1>9
  <1>11. /\ y \in Worlds /\ Marked(y.servs) /\ y.dt = 0 /\ BestIs(y, O)
         /\ y.tm.alarm = x.tm.alarm /\ y.tm.tistate = x.tm.tistate
         /\ y.tm.current # 0 => Pingable(y, O)
    BY <1>10, PickedPingable
  <1> HIDE DEF y
  <1>12. CASE y.tm.current = 0
    BY <1>3, <1>11, <1>12, PassFine
  <1>13. CASE y.tm.current # 0
    <2> DEFINE z == [y EXCEPT !.tm.state = "PING_WAIT"]
    <2>1. /\ z \in Worlds /\ Kept(z, y) /\ z.tm.current = y.tm.current /\ z.tm.state = "PING_WAIT"
          /\ z.tm.alarm = y.tm.alarm /\ z.tm.tistate = y.tm.tistate
      BY <1>11, StateNames DEF Worlds, Top, Kept
    <2>2. add_ping_point(w, lo, hi) = z
      BY <1>3, <1>13
    <2> HIDE DEF z
    <2>3. Pingable(y, O)
      BY <1>11, <1>13
    <2>4. Usable(z) /\ Marked(z.servs) /\ Better(z, O)
      BY <2>1, <2>3 DEF Usable, Kept, Pingable, Better
    <2>5. Best(z, O)
      BY <2>1, <2>3 DEF Best, BestIs, Kept, Pingable
    <2>6. Reason(z) /\ Timeout(z)
      BY <1>10, <1>11, <2>1 DEF Reason, Timeout
    <2> QED BY <2>1, <2>2, <2>4, <2>5, <2>6 DEF Fine
  <1> QED BY <1>12, <1>13

LEMMA PollPointFine ==
  ASSUME Setting, NEW w, NEW O \in Int, Begun(w, O), w.tm.state = "POLL_SENT",
         NEW lo \in Int, NEW hi \in Int, lo <= O, O <= hi
  PROVE  Fine(add_poll_point(w, lo, hi), O)
  <1> DEFINE m == w.tm.current  rtt == larger(hi - lo, 0)  n == smaller(w.servs[m].rtt, rtt)
             F == w.servs[m].flags
             x == Measure(w, m, n, F)
             v == [x EXCEPT !.tm.lo = lo, !.tm.hi = hi]
  <1>1. /\ w \in Worlds /\ Marked(w.servs) /\ w.dt = 0
        /\ m \in Slots /\ m # 0 /\ has(w.servs[m], {"SET", "PING", "RTT"}, {"KILL", "FAIL"})
        /\ w.servs[m] \in Server
    BY DEF Begun, Fine, Usable, Chosen, Worlds, Top, has
  <1>2. n \in Nat
    BY <1>1 DEF Server, smaller, larger
  <1>3. add_poll_point(w, lo, hi) = set_timed(consider_synching(v), "POLL_WAIT", TRUE)
    <2>1. [w EXCEPT !.servs[w.tm.current].rtt = smaller(@, larger(hi - lo, 0)), !.tm.lo = lo, !.tm.hi = hi] = v
      BY <1>1, ZenonT(40) DEF Worlds, Server, Measure
    <2> QED BY <2>1, Zenon DEF add_poll_point
  <1> HIDE DEF n
  <1>4. F \in SUBSET Flags /\ {"SET", "PING", "RTT"} \subseteq F /\ F \cap {"KILL", "FAIL"} = {}
    BY <1>1 DEF Server, has
  <1> HIDE DEF F
  <1>5. /\ x \in Worlds /\ Marked(x.servs) /\ x.tm = w.tm /\ x.dt = w.dt
        /\ x.servs[m].flags = F
    <2>1. {"SET", "PING"} \subseteq F
      BY <1>4
    <2> QED BY <1>1, <1>2, <1>4, <2>1, RttSet
  <1> HIDE DEF x
  <1>6. v \in Worlds /\ v.servs = x.servs /\ v.dt = x.dt /\ v.tm.current = m /\ v.tm.lo = lo /\ v.tm.hi = hi
    <2>1. v \in Worlds /\ v.servs = x.servs /\ v.dt = x.dt /\ v.tm.current = x.tm.current /\ v.tm.lo = lo /\ v.tm.hi = hi
      BY <1>5 DEF Worlds, Top
    <2> HIDE DEF v
    <2> QED BY <1>5, <2>1
  <1> HIDE DEF v
  <1>7. Measured(v.servs[v.tm.current])
    BY <1>4, <1>5, <1>6 DEF Measured, has
  <1> QED BY <1>1, <1>3, <1>5, <1>6, <1>7, SyncFine

\* An answer is handled: the clock was off by as much when it was measured.
LEMMA PacketFine ==
  ASSUME Setting, NEW w, NEW O \in Int, Begun(w, O), w.tm.current # 0,
         NEW kind \in {"time", "kiss", "unsync"},
         NEW lo \in Int, NEW hi \in Int, lo <= O, O <= hi
  PROVE  Fine(handle_packet(w, kind, lo, hi), O)
  <1> DEFINE v == [w EXCEPT !.tm.failures = 0]
  <1>1. w \in Worlds
    BY DEF Begun, Fine
  <1>2. /\ v \in Worlds /\ Kept(v, w) /\ v.tm.state = w.tm.state /\ v.tm.current = w.tm.current
        /\ v.tm.alarm = w.tm.alarm /\ v.tm.tistate = w.tm.tistate
    BY <1>1 DEF Worlds, Top, Kept
  <1>3. handle_packet(w, kind, lo, hi) =
          CASE kind = "kiss" -> drop_server(w, "KILL")
            [] kind = "unsync" -> drop_server(w, "FAIL")
            [] kind = "time" /\ w.tm.state = "PING_SENT" -> add_ping_point(v, lo, hi)
            [] kind = "time" /\ w.tm.state = "POLL_SENT" -> add_poll_point(v, lo, hi)
            [] OTHER -> v
    BY Zenon DEF handle_packet
  <1> HIDE DEF v
  <1>4. Begun(v, O)
    BY <1>2 DEF Begun, Fine, Kept, Usable, Reason, Timeout, Best, BestIs, Better
  <1>5. CASE kind = "kiss"
    BY <1>3, <1>5, DropFine DEF Begun
  <1>6. CASE kind = "unsync"
    BY <1>3, <1>6, DropFine DEF Begun
  <1>7. CASE kind = "time" /\ w.tm.state = "PING_SENT"
    BY <1>2, <1>3, <1>4, <1>7, PingPointFine
  <1>8. CASE kind = "time" /\ w.tm.state = "POLL_SENT"
    BY <1>2, <1>3, <1>4, <1>8, PollPointFine
  <1>9. CASE kind = "time" /\ w.tm.state # "PING_SENT" /\ w.tm.state # "POLL_SENT"
    BY <1>3, <1>4, <1>9 DEF Begun
  <1> QED BY <1>5, <1>6, <1>7, <1>8, <1>9

\* Closing the socket concerns nothing else.
LEMMA CloseFine ==
  ASSUME NEW w, NEW O, Fine(w, O)
  PROVE  Fine(maybe_close_socket(w), O)
  <1> DEFINE u == [w EXCEPT !.tm.sock = FALSE, !.net = {}]
  <1>1. w \in Worlds
    BY DEF Fine
  <1>2. ASSUME NEW b \in BOOLEAN, NEW N \in SUBSET Packet
        PROVE  LET z == [w EXCEPT !.tm.sock = b, !.net = N] IN
               /\ z \in Worlds /\ Kept(z, w) /\ z.tm.state = w.tm.state /\ z.tm.current = w.tm.current
               /\ z.tm.alarm = w.tm.alarm /\ z.tm.tistate = w.tm.tistate
    BY <1>1 DEF Worlds, Top, Kept
  <1>3. FALSE \in BOOLEAN /\ {} \in SUBSET Packet
    OBVIOUS
  <1>4. /\ u \in Worlds /\ Kept(u, w) /\ u.tm.state = w.tm.state /\ u.tm.current = w.tm.current
        /\ u.tm.alarm = w.tm.alarm /\ u.tm.tistate = w.tm.tistate
    BY <1>2, <1>3, Zenon
  <1>5. maybe_close_socket(w) = IF w.tm.state \in {"IDLE", "POLL_WAIT"} THEN u ELSE w
    BY DEF maybe_close_socket
  <1> HIDE DEF u
  <1>6. Fine(u, O)
    BY <1>4 DEF Fine, Kept, Usable, Reason, Timeout, Best, BestIs, Better
  <1> QED BY <1>5, <1>6
-----------------------------------------------------------------------------
(* Timeouts *)

LEMMA Sent ==
  ASSUME NEW w \in Worlds, w.tm.current \in Slots
  PROVE  LET u == send_packet(w) IN u \in Worlds /\ Kept(u, w) /\ u.tm.current = w.tm.current
  <1> DEFINE N == {[m EXCEPT !.new = FALSE] : m \in w.net}
                    \cup {[srv |-> w.servs[w.tm.current].addr, new |-> TRUE]}
  <1>1. N \in SUBSET Packet
    <2>1. ASSUME NEW m \in w.net PROVE [m EXCEPT !.new = FALSE] \in Packet
      BY DEF Worlds, Packet
    <2>2. [srv |-> w.servs[w.tm.current].addr, new |-> TRUE] \in Packet
      <3>1. w.servs[w.tm.current] \in Server
        BY DEF Worlds
      <3> QED BY <3>1 DEF Server, Packet
    <2> QED BY <2>1, <2>2
  <1>2. send_packet(w) = [w EXCEPT !.tm.sock = TRUE, !.tm.ref = TRUE, !.net = N]
    BY DEF send_packet
  <1> HIDE DEF N
  <1>3. ASSUME NEW a \in BOOLEAN, NEW b \in BOOLEAN
        PROVE  LET z == [w EXCEPT !.tm.sock = a, !.tm.ref = b, !.net = N] IN
               z \in Worlds /\ Kept(z, w) /\ z.tm.current = w.tm.current
    BY <1>1 DEF Worlds, Top, Kept
  <1>4. TRUE \in BOOLEAN
    OBVIOUS
  <1> QED BY <1>2, <1>3, <1>4, Zenon

LEMMA FailuresSet ==
  ASSUME NEW w \in Worlds
  PROVE  LET u == [w EXCEPT !.tm.failures = @ + 1] IN
         u \in Worlds /\ Kept(u, w) /\ u.tm.current = w.tm.current
  <1>1. w.tm.failures + 1 \in Nat
    BY DEF Worlds, Top
  <1>2. ASSUME NEW n \in Nat
        PROVE  LET u == [w EXCEPT !.tm.failures = n] IN
               u \in Worlds /\ Kept(u, w) /\ u.tm.current = w.tm.current
    BY DEF Worlds, Top, Kept
  <1> QED BY <1>1, <1>2, Zenon

LEMMA KeptPingable ==
  ASSUME NEW w, NEW u \in Worlds, NEW O, Pingable(w, O), Kept(u, w), u.tm.current = w.tm.current
  PROVE  Pingable(u, O)
  BY DEF Pingable, Kept, BestIs

LEMMA SendPingFine ==
  ASSUME Setting, NEW w, NEW O \in Int, Pingable(w, O), NEW sent \in BOOLEAN
  PROVE  Fine(send_ping_request(w, sent), O)
  <1>1. w \in Worlds /\ w.tm.current \in Slots /\ Marked(w.servs) /\ w.dt = 0 /\ BestIs(w, O)
    BY DEF Pingable, Worlds, Top
  <1>2. CASE sent
    <2>1. send_ping_request(w, sent) = set_timed(send_packet(w), "PING_SENT", FALSE)
      BY <1>2 DEF send_ping_request
    <2>2. Pingable(send_packet(w), O)
      BY <1>1, Sent, KeptPingable
    <2> QED BY <2>1, <2>2, PingFine DEF Pinging
  <1>3. CASE ~sent /\ w.tm.failures < PINGS
    <2> DEFINE v == [w EXCEPT !.tm.failures = @ + 1]
    <2>1. send_ping_request(w, sent) = set_timed(v, "PING_WAIT", FALSE)
      BY <1>3 DEF send_ping_request
    <2>2. Pingable(v, O)
      BY <1>1, FailuresSet, KeptPingable
    <2> HIDE DEF v
    <2> QED BY <2>1, <2>2, PingFine DEF Pinging
  <1>4. CASE ~sent /\ ~(w.tm.failures < PINGS)
    <2>1. send_ping_request(w, sent) = next_or_complete(w)
      BY <1>4 DEF send_ping_request
    <2> QED BY <1>1, <2>1, NextFine
  <1> QED BY <1>2, <1>3, <1>4

\* what the handler of a timeout starts from
Due(w, O) ==
  /\ w \in Worlds /\ ~w.tm.quit /\ w.dt = 0
  /\ Marked(w.servs) /\ Usable(w) /\ Reason(w) /\ Best(w, O)

LEMMA DuePingable ==
  ASSUME NEW w, NEW O, Due(w, O), w.tm.state \in Pinging
  PROVE  Pingable(w, O)
  BY DEF Due, Pingable, Usable, Best, Pinging, Chosen, Worlds, Top

LEMMA PingTimeoutFine ==
  ASSUME Setting, NEW w, NEW O \in Int, Pingable(w, O), NEW sent \in BOOLEAN
  PROVE  Fine(handle_ping_timeout(w, sent), O)
  <1> DEFINE v == select_unpinged(w)  y == [w EXCEPT !.tm.failures = @ + 1]
  <1>1. w \in Worlds /\ Marked(w.servs) /\ w.dt = 0 /\ BestIs(w, O) /\ w.tm.failures \in Nat /\ PINGS \in Nat
    BY DEF Pingable, Worlds, Top, Setting
  <1>2. handle_ping_timeout(w, sent) =
          CASE w.tm.failures < PINGS -> send_ping_request(y, sent)
            [] w.tm.failures >= PINGS /\ v.tm.current # 0 -> send_ping_request(v, sent)
            [] OTHER -> ping_pass_complete(v)
    BY Zenon DEF handle_ping_timeout
  <1>3. Pingable(y, O)
    BY <1>1, FailuresSet, KeptPingable
  <1>4. /\ v \in Worlds /\ Marked(v.servs) /\ v.dt = 0 /\ BestIs(v, O)
        /\ v.tm.current # 0 => Pingable(v, O)
    BY <1>1, PickedPingable
  <1> HIDE DEF v, y
  <1>5. CASE w.tm.failures < PINGS
    <2>1. handle_ping_timeout(w, sent) = send_ping_request(y, sent)
      BY <1>1, <1>2, <1>5
    <2> QED BY <1>3, <2>1, SendPingFine
  <1>6. CASE w.tm.failures >= PINGS /\ v.tm.current # 0
    <2>1. handle_ping_timeout(w, sent) = send_ping_request(v, sent)
      BY <1>1, <1>2, <1>6
    <2> QED BY <1>4, <1>6, <2>1, SendPingFine
  <1>7. CASE w.tm.failures >= PINGS /\ v.tm.current = 0
    BY <1>1, <1>2, <1>4, <1>7, PassFine
  <1> QED BY <1>1, <1>5, <1>6, <1>7

\* A selection may begin whenever no measurement waits to be applied.
LEMMA SelectFine ==
  ASSUME NEW w \in Worlds, Marked(w.servs), w.dt = 0, NEW O
  PROVE  Fine(set_timed(w, "SELECT", FALSE), O)
  <1> DEFINE u == set_timed(w, "SELECT", FALSE)
  <1>1. /\ u \in Worlds /\ Kept(u, w) /\ u.tm.state = "SELECT" /\ u.tm.alarm
    BY ShortSet, StateNames
  <1> HIDE DEF u
  <1>2. Usable(u) /\ Reason(u) /\ Timeout(u) /\ Best(u, O) /\ Better(u, O) /\ Marked(u.servs)
    BY <1>1 DEF Usable, Chosen, Reason, Timeout, Pinging, Best, Better, Kept
  <1> QED BY <1>1, <1>2 DEF Fine, u

\* what is polled
Pollable(w) ==
  /\ w \in Worlds /\ Marked(w.servs) /\ w.dt = 0
  /\ w.tm.current \in Slots /\ w.tm.current # 0 /\ Measured(w.servs[w.tm.current])

LEMMA DuePollable ==
  ASSUME NEW w, NEW O, Due(w, O), w.tm.state \in {"POLL_SENT", "POLL_WAIT"}
  PROVE  Pollable(w) /\ has(w.servs[w.tm.current], {"SET", "PING"}, {})
  BY DEF Due, Pollable, Usable, Chosen, Worlds, Top, Measured, has

LEMMA PollAgain ==
  ASSUME NEW w \in Worlds, Pollable(w), NEW O
  PROVE  Fine(set_timed([w EXCEPT !.tm.failures = @ + 1], "POLL_WAIT", FALSE), O)
  <1> DEFINE v == [w EXCEPT !.tm.failures = @ + 1]
  <1>1. v \in Worlds /\ Kept(v, w) /\ v.tm.current = w.tm.current
    BY FailuresSet
  <1> HIDE DEF v
  <1>2. Pollable(v)
    BY <1>1 DEF Pollable, Kept
  <1>3. FALSE \in BOOLEAN /\ "POLL_WAIT" \in {"POLL_WAIT", "POLL_SENT"}
    OBVIOUS
  <1>4. Fine(set_timed(v, "POLL_WAIT", FALSE), O)
    BY <1>2, <1>3, PollFine DEF Pollable
  <1> QED BY <1>4 DEF v

LEMMA SendPollFine ==
  ASSUME Setting, NEW w \in Worlds, NEW O \in Int, Pollable(w), NEW sent \in BOOLEAN,
         has(w.servs[w.tm.current], {"SET", "PING"}, {})
  PROVE  Fine(send_poll_request(w, sent), O)
  <1>1. CASE sent
    <2> DEFINE v == send_packet(w)
    <2>1. send_poll_request(w, sent) = set_timed(v, "POLL_SENT", FALSE)
      BY <1>1 DEF send_poll_request
    <2>2. v \in Worlds /\ Kept(v, w) /\ v.tm.current = w.tm.current
      BY Sent DEF Pollable
    <2> HIDE DEF v
    <2>3. Pollable(v)
      BY <2>2 DEF Pollable, Kept
    <2>4. FALSE \in BOOLEAN /\ "POLL_SENT" \in {"POLL_WAIT", "POLL_SENT"}
      OBVIOUS
    <2> QED BY <2>1, <2>3, <2>4, PollFine DEF Pollable
  <1>2. CASE ~sent /\ w.tm.failures < POLLS
    <2>1. send_poll_request(w, sent) = set_timed([w EXCEPT !.tm.failures = @ + 1], "POLL_WAIT", FALSE)
      BY <1>2 DEF send_poll_request
    <2> QED BY <2>1, PollAgain, Zenon
  <1>3. CASE ~sent /\ ~(w.tm.failures < POLLS)
    <2> DEFINE v == mark_current(w, "FAIL")
    <2>1. send_poll_request(w, sent) = switch_to_backup(v)
      BY <1>3 DEF send_poll_request
    <2>2. v \in Worlds /\ Marked(v.servs) /\ v.dt = 0
      BY MarkGood DEF Pollable
    <2> HIDE DEF v
    <2> QED BY <2>1, <2>2, BackupFine
  <1> QED BY <1>1, <1>2, <1>3

LEMMA PollTimeoutFine ==
  ASSUME Setting, NEW w \in Worlds, NEW O \in Int, Pollable(w), has(w.servs[w.tm.current], {"SET", "PING"}, {})
  PROVE  Fine(handle_poll_timeout(w), O)
  <1>1. CASE w.tm.failures < POLLS
    <2>1. handle_poll_timeout(w) = set_timed([w EXCEPT !.tm.failures = @ + 1], "POLL_WAIT", FALSE)
      BY <1>1 DEF handle_poll_timeout
    <2> QED BY <2>1, PollAgain, Zenon
  <1>2. CASE ~(w.tm.failures < POLLS)
    <2> DEFINE v == mark_current(w, "FAIL")
    <2>1. handle_poll_timeout(w) = set_timed(v, "SELECT", FALSE)
      BY <1>2 DEF handle_poll_timeout
    <2>2. v \in Worlds /\ Marked(v.servs) /\ v.dt = 0
      BY MarkGood DEF Pollable
    <2> HIDE DEF v
    <2> QED BY <2>1, <2>2, SelectFine
  <1> QED BY <1>1, <1>2

LEMMA StartFine ==
  ASSUME Setting, NEW w \in Worlds, Marked(w.servs), w.dt = 0, NEW O \in Int, NEW sent \in BOOLEAN
  PROVE  Fine(start_selection(w, sent), O)
  <1> DEFINE x == [w EXCEPT !.tm.bestidx = 0, !.tm.bestrtt = 0]  v == select_unpinged(x)
  <1>1. x \in Worlds /\ x.servs = w.servs /\ x.dt = w.dt /\ x.tm.bestidx = 0
    BY DEF Worlds, Top
  <1>2. start_selection(w, sent) = IF v.tm.current # 0 THEN send_ping_request(v, sent) ELSE ping_pass_complete(v)
    BY Zenon DEF start_selection
  <1> HIDE DEF x
  <1>3. BestIs(x, O)
    BY <1>1 DEF BestIs
  <1>4. /\ v \in Worlds /\ Marked(v.servs) /\ v.dt = 0 /\ BestIs(v, O)
        /\ v.tm.current # 0 => Pingable(v, O)
    BY <1>1, <1>3, PickedPingable
  <1> HIDE DEF v
  <1>5. CASE v.tm.current # 0
    BY <1>2, <1>4, <1>5, SendPingFine
  <1>6. CASE v.tm.current = 0
    BY <1>2, <1>4, <1>6, PassFine
  <1> QED BY <1>5, <1>6

\* A timeout is handled, in any state.
LEMMA TimeoutFine ==
  ASSUME Setting, NEW w, NEW O \in Int, Due(w, O), NEW sent \in BOOLEAN
  PROVE  Fine(handle_timeout(w, sent), O)
  <1> DEFINE u == CASE w.tm.state = "SELECT" -> start_selection(w, sent)
                    [] w.tm.state = "PING_SENT" -> handle_ping_timeout(w, sent)
                    [] w.tm.state = "POLL_SENT" -> handle_poll_timeout(w)
                    [] w.tm.state = "PING_WAIT" -> send_ping_request(w, sent)
                    [] w.tm.state = "POLL_WAIT" -> send_poll_request(w, sent)
                    [] OTHER -> w
  <1>1. handle_timeout(w, sent) = maybe_close_socket(u)
    BY Zenon DEF handle_timeout
  <1> SUFFICES Fine(u, O)
    BY <1>1, CloseFine
  <1>2. w \in Worlds /\ Marked(w.servs) /\ w.dt = 0 /\ ~w.tm.quit
    BY DEF Due
  <1>3. CASE w.tm.state = "SELECT"
    <2>1. u = start_selection(w, sent)
      BY <1>3
    <2> QED BY <1>2, <2>1, StartFine
  <1>4. CASE w.tm.state = "PING_SENT"
    <2>1. u = handle_ping_timeout(w, sent)
      BY <1>4
    <2> QED BY <1>4, <2>1, DuePingable, PingTimeoutFine DEF Pinging
  <1>5. CASE w.tm.state = "POLL_SENT"
    <2>1. u = handle_poll_timeout(w)
      BY <1>5
    <2> QED BY <1>2, <1>5, <2>1, DuePollable, PollTimeoutFine
  <1>6. CASE w.tm.state = "PING_WAIT"
    <2>1. u = send_ping_request(w, sent)
      BY <1>6
    <2> QED BY <1>6, <2>1, DuePingable, SendPingFine DEF Pinging
  <1>7. CASE w.tm.state = "POLL_WAIT"
    <2>1. u = send_poll_request(w, sent)
      BY <1>7
    <2> QED BY <1>2, <1>7, <2>1, DuePollable, SendPollFine
  <1>8. CASE w.tm.state = "IDLE"
    <2>1. u = w
      BY <1>8
    <2>2. Timeout(w) /\ Better(w, O)
      BY <1>2, <1>8 DEF Timeout, Pinging, Better
    <2> QED BY <1>2, <2>1, <2>2 DEF Fine, Due
  <1>9. w.tm.state \in {"IDLE", "SELECT", "PING_SENT", "PING_WAIT", "POLL_SENT", "POLL_WAIT"}
    BY <1>2 DEF Worlds, Top, States, Chosen
  <1> HIDE DEF u
  <1> QED BY <1>3, <1>4, <1>5, <1>6, <1>7, <1>8, <1>9, Zenon
-----------------------------------------------------------------------------
(* Commands *)

LEMMA NoServIn == NoServ \in Server
  BY DEF NoServ, Server

\* What is in use is left as it is when V replaces the table.
Spares(S, V) ==
  \A i \in Slots : has(S[i], {"SET"}, {"KILL", "FAIL"}) => V[i].flags = S[i].flags

LEMMA SparedFine ==
  ASSUME NEW w, NEW O, Begun(w, O), NEW V \in [Slots -> Server], Marked(V), Spares(w.servs, V)
  PROVE  LET u == [w EXCEPT !.servs = V] IN
         /\ u \in Worlds /\ u.servs = V /\ u.tm = w.tm /\ u.dt = 0 /\ ~u.tm.quit
         /\ Usable(u) /\ Timeout(u) /\ Best(u, O)
         /\ Reason(u) => Begun(u, O)
  <1> DEFINE u == [w EXCEPT !.servs = V]
  <1>1. /\ w \in Worlds /\ w.dt = 0 /\ ~w.tm.quit /\ Usable(w) /\ Timeout(w) /\ Best(w, O)
        /\ w.tm.current \in {0} \cup Slots /\ w.tm.bestidx \in {0} \cup Slots
    BY DEF Begun, Fine, Worlds, Top
  <1>2. u \in Worlds /\ u.servs = V /\ u.tm = w.tm /\ u.dt = w.dt
    BY <1>1, ServsSet
  <1> HIDE DEF u
  <1>3. Usable(u)
    <2> SUFFICES ASSUME w.tm.state \in Chosen
                 PROVE  /\ w.tm.current # 0 /\ has(V[w.tm.current], {"SET", "PING"}, {"KILL", "FAIL"})
                        /\ w.tm.state \in {"POLL_SENT", "POLL_WAIT"} => "RTT" \in V[w.tm.current].flags
      BY <1>2 DEF Usable
    <2> DEFINE m == w.tm.current
    <2>1. /\ m \in Slots /\ m # 0 /\ has(w.servs[m], {"SET", "PING"}, {"KILL", "FAIL"})
          /\ w.tm.state \in {"POLL_SENT", "POLL_WAIT"} => "RTT" \in w.servs[m].flags
      BY <1>1 DEF Usable
    <2> HIDE DEF m
    <2>2. has(w.servs[m], {"SET"}, {"KILL", "FAIL"})
      BY <2>1 DEF has
    <2>3. V[m].flags = w.servs[m].flags
      BY <2>1, <2>2 DEF Spares
    <2> QED BY <2>1, <2>3 DEF m, has
  <1>4. Best(u, O)
    <2> SUFFICES ASSUME w.tm.state \in Pinging, w.tm.bestidx # 0 PROVE Measured(V[w.tm.bestidx])
      BY <1>1, <1>2 DEF Best, BestIs
    <2> DEFINE m == w.tm.bestidx
    <2>1. m \in Slots /\ Measured(w.servs[m])
      BY <1>1 DEF Best, BestIs
    <2> HIDE DEF m
    <2>2. has(w.servs[m], {"SET"}, {"KILL", "FAIL"})
      BY <2>1 DEF has, Measured
    <2>3. V[m].flags = w.servs[m].flags
      BY <2>1, <2>2 DEF Spares
    <2> QED BY <2>1, <2>3 DEF m, has, Measured
  <1>5. Timeout(u) /\ Better(u, O)
    BY <1>1, <1>2 DEF Timeout, Better
  <1> QED BY <1>1, <1>2, <1>3, <1>4, <1>5 DEF Begun, Fine, u

LEMMA WipeBegun ==
  ASSUME NEW w, NEW O, Begun(w, O)
  PROVE  Begun(wipe_failed(w), O) /\ wipe_failed(w).tm = w.tm
  <1> DEFINE V == [i \in Slots |->
                IF i # w.tm.current /\ "SET" \in w.servs[i].flags /\ {"KILL", "FAIL"} \cap w.servs[i].flags # {}
                THEN NoServ ELSE w.servs[i]]
             u == [w EXCEPT !.servs = V]
  <1>1. wipe_failed(w) = u
    BY Zenon DEF wipe_failed
  <1>2. w \in Worlds /\ w.servs \in [Slots -> Server] /\ Marked(w.servs) /\ Reason(w)
    BY DEF Begun, Fine, Worlds
  <1>3. V \in [Slots -> Server]
    BY <1>2, NoServIn
  <1>4. \A i \in Slots : \/ V[i] = w.servs[i]
                         \/ V[i] = NoServ /\ {"KILL", "FAIL"} \cap w.servs[i].flags # {}
    OBVIOUS
  <1> HIDE DEF V
  <1>5. Marked(V)
    <2> SUFFICES ASSUME NEW i \in Slots
                 PROVE  /\ V[i].flags \cap {"RTT", "KILL", "FAIL"} # {} => "PING" \in V[i].flags
                        /\ V[i].flags # {} => "SET" \in V[i].flags
      BY DEF Marked
    <2>1. CASE V[i] = w.servs[i]
      BY <1>2, <2>1 DEF Marked
    <2>2. CASE V[i] = NoServ
      BY <2>2 DEF NoServ
    <2> QED BY <1>4, <2>1, <2>2
  <1>6. Spares(w.servs, V)
    BY <1>4 DEF Spares, has
  <1>7. u \in Worlds /\ u.servs = V /\ u.tm = w.tm /\ (Reason(u) => Begun(u, O))
    BY <1>3, <1>5, <1>6, SparedFine
  <1> HIDE DEF u
  <1>8. Reason(u)
    <2> SUFFICES ASSUME w.tm.state = "IDLE", NEW i \in Slots, Measured(V[i]) PROVE FALSE
      BY <1>7 DEF Reason
    <2>1. CASE V[i] = w.servs[i]
      BY <1>2, <2>1 DEF Reason
    <2>2. CASE V[i] = NoServ
      BY <2>2 DEF NoServ, Measured, has
    <2> QED BY <1>4, <2>1, <2>2
  <1> QED BY <1>1, <1>7, <1>8

\* A server is added, or tried again.
LEMMA CheckFine ==
  ASSUME Setting, NEW w, NEW O, Begun(w, O), NEW a \in Addrs
  PROVE  LET u == check_server(w, a) IN
         /\ u \in Worlds /\ u.tm = w.tm /\ u.dt = 0 /\ ~u.tm.quit
         /\ Marked(u.servs) /\ Usable(u) /\ Timeout(u) /\ Best(u, O)
         /\ Reason(u) => Begun(u, O)
  <1> DEFINE known == {i \in Slots : w.servs[i].addr = a}
             free  == {i \in Slots : "SET" \notin w.servs[i].flags}
             k == first(known)  f == first(free)
  <1>1. w \in Worlds /\ w.servs \in [Slots -> Server] /\ Marked(w.servs) /\ Usable(w) /\ Timeout(w) /\ Best(w, O)
        /\ w.dt = 0 /\ ~w.tm.quit
    BY DEF Begun, Fine, Worlds
  <1>2. check_server(w, a) =
          CASE known # {} -> [w EXCEPT !.servs[k].flags = @ \ {"FAIL"}]
            [] known = {} /\ free # {} -> [w EXCEPT !.servs[f] = [addr |-> a, flags |-> {"SET"}, rtt |-> 0]]
            [] OTHER -> w
    BY Zenon DEF check_server
  <1>3. Slots \subseteq Nat
    BY DEF Slots, Setting
  <1>4. CASE known # {}
    <2> DEFINE F == w.servs[k].flags \ {"FAIL"}  sv == [w.servs[k] EXCEPT !.flags = F]
               V == [w.servs EXCEPT ![k] = sv]  u == [w EXCEPT !.servs = V]
    <2>1. k \in Slots
      <3>1. known \in SUBSET Nat /\ known \subseteq Slots
        BY <1>3
      <3> HIDE DEF known
      <3> QED BY <1>4, <3>1, FirstIn
    <2>2. check_server(w, a) = u
      BY <1>2, <1>4
    <2> HIDE DEF k
    <2>3. sv \in Server /\ sv.flags = F
      BY <1>1, <2>1 DEF Server
    <2>4. F \subseteq w.servs[k].flags /\ F \cup {"FAIL"} = w.servs[k].flags \cup {"FAIL"}
      OBVIOUS
    <2> HIDE DEF F, sv
    <2>5. V \in [Slots -> Server] /\ V[k] = sv /\ \A j \in Slots : j # k => V[j] = w.servs[j]
      BY <1>1, <2>1, <2>3
    <2> HIDE DEF V
    <2>6. Marked(V)
      <3> SUFFICES ASSUME NEW i \in Slots
                   PROVE  /\ V[i].flags \cap {"RTT", "KILL", "FAIL"} # {} => "PING" \in V[i].flags
                          /\ V[i].flags # {} => "SET" \in V[i].flags
        BY DEF Marked
      <3>1. CASE i # k
        BY <1>1, <2>5, <3>1 DEF Marked
      <3>2. CASE i = k
        BY <1>1, <2>1, <2>3, <2>4, <2>5, <3>2 DEF Marked
      <3> QED BY <3>1, <3>2
    <2>7. Spares(w.servs, V)
      <3> SUFFICES ASSUME NEW i \in Slots, has(w.servs[i], {"SET"}, {"KILL", "FAIL"}) PROVE V[i].flags = w.servs[i].flags
        BY DEF Spares
      <3>1. CASE i # k
        BY <2>5, <3>1
      <3>2. CASE i = k
        <4>1. "FAIL" \notin w.servs[k].flags
          BY <3>2 DEF has
        <4> QED BY <2>3, <2>5, <3>2, <4>1 DEF F
      <3> QED BY <3>1, <3>2
    <2> QED BY <2>2, <2>5, <2>6, <2>7, SparedFine
  <1>5. CASE known = {} /\ free # {}
    <2> DEFINE sv == [addr |-> a, flags |-> {"SET"}, rtt |-> 0]
               V == [w.servs EXCEPT ![f] = sv]  u == [w EXCEPT !.servs = V]
    <2>1. f \in Slots /\ "SET" \notin w.servs[f].flags
      <3>1. free \in SUBSET Nat /\ \A i \in free : i \in Slots /\ "SET" \notin w.servs[i].flags
        BY <1>3
      <3> HIDE DEF free
      <3> QED BY <1>5, <3>1, FirstIn
    <2>2. check_server(w, a) = u
      BY <1>2, <1>5
    <2> HIDE DEF f
    <2>3. sv \in Server /\ sv.flags = {"SET"}
      BY DEF Server, Flags
    <2> HIDE DEF sv
    <2>5. V \in [Slots -> Server] /\ V[f] = sv /\ \A j \in Slots : j # f => V[j] = w.servs[j]
      BY <1>1, <2>1, <2>3
    <2> HIDE DEF V
    <2>6. Marked(V)
      <3> SUFFICES ASSUME NEW i \in Slots
                   PROVE  /\ V[i].flags \cap {"RTT", "KILL", "FAIL"} # {} => "PING" \in V[i].flags
                          /\ V[i].flags # {} => "SET" \in V[i].flags
        BY DEF Marked
      <3>1. CASE i # f
        BY <1>1, <2>5, <3>1 DEF Marked
      <3>2. CASE i = f
        BY <2>3, <2>5, <3>2
      <3> QED BY <3>1, <3>2
    <2>7. Spares(w.servs, V)
      <3> SUFFICES ASSUME NEW i \in Slots, has(w.servs[i], {"SET"}, {"KILL", "FAIL"}) PROVE V[i].flags = w.servs[i].flags
        BY DEF Spares
      <3>1. i # f
        BY <2>1 DEF has
      <3> QED BY <2>5, <3>1
    <2> QED BY <2>2, <2>5, <2>6, <2>7, SparedFine
  <1>6. CASE known = {} /\ free = {}
    BY <1>1, <1>2, <1>6, Zenon
  <1> QED BY <1>4, <1>5, <1>6

LEMMA ServerFine ==
  ASSUME Setting, NEW w, NEW O, Begun(w, O), NEW a \in Addrs
  PROVE  Fine(cmd_server(w, a), O)
  <1> DEFINE x == wipe_failed(w)  v == check_server(x, a)
  <1>1. Begun(x, O)
    BY WipeBegun
  <1> HIDE DEF x
  <1>2. /\ v \in Worlds /\ v.dt = 0 /\ Marked(v.servs)
        /\ Reason(v) => Begun(v, O)
    BY <1>1, CheckFine
  <1>3. cmd_server(w, a) = IF v.tm.state = "IDLE" /\ got_usable_servers(v) THEN set_timed(v, "SELECT", FALSE) ELSE v
    BY Zenon DEF cmd_server, x
  <1> HIDE DEF v
  <1>4. CASE v.tm.state = "IDLE" /\ got_usable_servers(v)
    BY <1>2, <1>3, <1>4, SelectFine
  <1>5. CASE ~(v.tm.state = "IDLE" /\ got_usable_servers(v))
    <2>1. Reason(v)
      BY <1>5 DEF Reason, got_usable_servers, Measured, has
    <2> QED BY <1>2, <1>3, <1>5, <2>1 DEF Begun
  <1> QED BY <1>4, <1>5

LEMMA RetryFine ==
  ASSUME NEW w, NEW O, Begun(w, O)
  PROVE  Fine(cmd_retry(w), O)
  <1> DEFINE S == {i \in Slots : has(w.servs[i], {"SET"}, {"KILL"})}
             V == [i \in Slots |-> IF i \in S THEN [w.servs[i] EXCEPT !.flags = @ \ {"FAIL"}] ELSE w.servs[i]]
             u == [w EXCEPT !.servs = V]
  <1>1. w \in Worlds /\ w.servs \in [Slots -> Server] /\ Marked(w.servs) /\ w.dt = 0
    BY DEF Begun, Fine, Worlds
  <1>2. cmd_retry(w) = IF S = {} THEN w ELSE set_timed(u, "SELECT", FALSE)
    BY Zenon DEF cmd_retry
  <1> HIDE DEF S
  <1>3. \A i \in Slots : /\ V[i] \in Server
                         /\ V[i].flags = w.servs[i].flags \/ V[i].flags = w.servs[i].flags \ {"FAIL"}
    <2> SUFFICES ASSUME NEW i \in Slots
                 PROVE  /\ V[i] \in Server
                        /\ V[i].flags = w.servs[i].flags \/ V[i].flags = w.servs[i].flags \ {"FAIL"}
      BY Zenon
    <2>1. w.servs[i] \in Server
      BY <1>1
    <2>2. ASSUME NEW sv \in Server
          PROVE  LET z == [sv EXCEPT !.flags = @ \ {"FAIL"}] IN z \in Server /\ z.flags = sv.flags \ {"FAIL"}
      BY DEF Server
    <2> QED BY <2>1, <2>2
  <1>4. V \in [Slots -> Server]
    BY <1>3
  <1> HIDE DEF V
  <1>5. Marked(V)
    <2> SUFFICES ASSUME NEW i \in Slots
                 PROVE  /\ V[i].flags \cap {"RTT", "KILL", "FAIL"} # {} => "PING" \in V[i].flags
                        /\ V[i].flags # {} => "SET" \in V[i].flags
      BY DEF Marked
    <2>1. CASE V[i].flags = w.servs[i].flags
      BY <1>1, <2>1 DEF Marked
    <2>2. CASE V[i].flags = w.servs[i].flags \ {"FAIL"}
      BY <1>1, <2>2 DEF Marked
    <2> QED BY <1>3, <2>1, <2>2
  <1>6. u \in Worlds /\ u.servs = V /\ u.dt = w.dt
    BY <1>1, <1>4, ServsSet
  <1> HIDE DEF u
  <1>7. CASE S = {}
    BY <1>2, <1>7 DEF Begun
  <1>8. CASE S # {}
    BY <1>1, <1>2, <1>5, <1>6, <1>8, SelectFine
  <1> QED BY <1>7, <1>8

LEMMA ResetFine ==
  ASSUME NEW w, NEW O, Begun(w, O)
  PROVE  Fine(cmd_reset(w), O)
  <1> DEFINE V == [i \in Slots |-> NoServ]  u == [w EXCEPT !.servs = V]
  <1>1. w \in Worlds /\ w.dt = 0
    BY DEF Begun, Fine
  <1>2. V \in [Slots -> Server] /\ \A i \in Slots : V[i].flags = {}
    BY NoServIn DEF NoServ
  <1>3. cmd_reset(w) = stop_service(u)
    BY DEF cmd_reset
  <1> HIDE DEF V
  <1>4. u \in Worlds /\ u.servs = V /\ u.dt = w.dt
    BY <1>1, <1>2, ServsSet
  <1> HIDE DEF u
  <1>5. Marked(V) /\ \A i \in Slots : ~Measured(V[i])
    BY <1>2 DEF Marked, Measured, has
  <1> QED BY <1>1, <1>3, <1>4, <1>5, StopFine

LEMMA ForceFine ==
  ASSUME NEW w, NEW O, Begun(w, O)
  PROVE  Fine(cmd_force(w), O)
  <1>1. CASE w.tm.state # "POLL_WAIT"
    BY <1>1 DEF cmd_force, Begun
  <1>2. CASE w.tm.state = "POLL_WAIT"
    <2>1. w \in Worlds /\ Pollable(w)
      BY <1>2 DEF Begun, Fine, Pollable, Usable, Chosen, Worlds, Top, Measured, has
    <2>2. FALSE \in BOOLEAN /\ "POLL_WAIT" \in {"POLL_WAIT", "POLL_SENT"}
      OBVIOUS
    <2>3. Fine(set_timed(w, "POLL_WAIT", FALSE), O)
      BY <2>1, <2>2, PollFine DEF Pollable
    <2> QED BY <1>2, <2>3 DEF cmd_force
  <1> QED BY <1>1, <1>2
-----------------------------------------------------------------------------
(* Steps *)

\* what a handler leaves, once the kernel has adjusted the clock
Done == Fine(World, off)' /\ off' \in Int /\ SyncStep

LEMMA WorldIs ==
  ASSUME IInv
  PROVE  /\ Fine(World, off) /\ World \in Worlds /\ World.dt = 0 /\ World.tm = tm /\ World.servs = servs
         /\ World.net = net /\ off \in Int
  BY DEF IInv, Fine, World

LEMMA Applied ==
  ASSUME Setting, IInv, NEW v, Fine(v, off), Apply(v)
  PROVE  Done
  <1> DEFINE z == [tm |-> v.tm, servs |-> v.servs, net |-> v.net, dt |-> 0]
  <1>1. tm' = v.tm /\ servs' = v.servs /\ net' = v.net /\ off' \in adjusted(v.dt)
    BY DEF Apply
  <1>2. v \in Worlds /\ v.dt \in Int /\ Better(v, off)
    BY DEF Fine, Worlds
  <1>3. off \in Int
    BY DEF IInv
  <1>4. PICK d \in Int : off' = off + d /\ ((v.dt <= d /\ d <= 0) \/ (0 <= d /\ d <= v.dt))
    <2>1. CASE abs(v.dt) >= STEP
      BY <1>1, <1>2, <1>3, <2>1 DEF adjusted
    <2>2. CASE ~(abs(v.dt) >= STEP) /\ v.dt < 0
      <3>1. PICK d \in v.dt..0 : off' = off + d
        BY <1>1, <2>2 DEF adjusted
      <3> QED BY <1>2, <3>1
    <2>3. CASE ~(abs(v.dt) >= STEP) /\ ~(v.dt < 0)
      <3>1. PICK d \in 0..v.dt : off' = off + d
        BY <1>1, <2>3 DEF adjusted
      <3> QED BY <1>2, <3>1
    <2> QED BY <2>1, <2>2, <2>3
  <1>5. World' = z
    BY <1>1 DEF World
  <1>6. z \in Worlds /\ z.tm = v.tm /\ z.servs = v.servs /\ z.dt = 0
    BY <1>2 DEF Worlds
  <1> HIDE DEF z
  <1>7. off' # off => v.dt # 0
    BY <1>2, <1>3, <1>4
  <1>8. ~v.tm.quit => Best(z, off')
    <2>1. CASE v.dt = 0
      BY <1>6, <1>7, <2>1 DEF Fine, Best, BestIs
    <2>2. CASE v.dt # 0
      BY <1>2, <1>6, <2>2 DEF Better, Best, Pinging
    <2> QED BY <2>1, <2>2
  <1>9. Fine(z, off')
    BY <1>6, <1>8 DEF Fine, Usable, Reason, Timeout, Better
  <1>10. SyncStep
    BY <1>1, <1>2, <1>3, <1>4, <1>7 DEF SyncStep, Better
  <1> QED BY <1>3, <1>4, <1>5, <1>9, <1>10 DEF Done

LEMMA PacketStep ==
  ASSUME Setting, IInv, check_packet
  PROVE  Done
  <1> DEFINE w == [World EXCEPT !.tm.ref = FALSE]
  <1>1. PICK m \in net, kind \in {"time", "kiss", "unsync"}, t1 \in 0..DELAY, t2 \in 0..DELAY :
          /\ Alive /\ recv_packet(World, m) /\ valid_packet(World, m)
          /\ Apply(LET lo == off - t1 + IF m.new THEN 0 ELSE LATE
                       hi == off + t2
                   IN  maybe_close_socket(handle_packet(w, kind, lo, hi)))
    BY Zenon DEF check_packet
  <1> DEFINE lo == off - t1 + 0  hi == off + t2
             v == maybe_close_socket(handle_packet(w, kind, lo, hi))
  <1>2. Apply(v)
    <2>1. m.new
      BY <1>1 DEF valid_packet
    <2>2. (off - t1 + IF m.new THEN 0 ELSE LATE) = lo
      BY <2>1
    <2> QED BY <1>1, <2>2, Zenon
  <1>3. off \in Int /\ World \in Worlds /\ Fine(World, off) /\ World.dt = 0 /\ ~World.tm.quit /\ World.tm.current # 0
    BY <1>1, WorldIs DEF Alive, recv_packet
  <1>4. lo \in Int /\ hi \in Int /\ lo <= off /\ off <= hi
    BY <1>3 DEF Setting
  <1>5. /\ w \in Worlds /\ Kept(w, World) /\ w.tm.state = World.tm.state /\ w.tm.current = World.tm.current
        /\ w.tm.alarm = World.tm.alarm /\ w.tm.tistate = World.tm.tistate
    <2>1. ASSUME NEW x \in Worlds, NEW b \in BOOLEAN
          PROVE  LET z == [x EXCEPT !.tm.ref = b] IN
                 /\ z \in Worlds /\ Kept(z, x) /\ z.tm.state = x.tm.state /\ z.tm.current = x.tm.current
                 /\ z.tm.alarm = x.tm.alarm /\ z.tm.tistate = x.tm.tistate
      BY DEF Worlds, Top, Kept
    <2>2. FALSE \in BOOLEAN
      OBVIOUS
    <2> QED BY <1>3, <2>1, <2>2, Zenon
  <1> HIDE DEF w, lo, hi
  <1>6. Begun(w, off) /\ w.tm.current # 0
    BY <1>3, <1>5 DEF Begun, Fine, Kept, Usable, Reason, Timeout, Best, BestIs, Better
  <1>7. Fine(handle_packet(w, kind, lo, hi), off)
    BY <1>3, <1>4, <1>6, PacketFine
  <1>8. Fine(v, off)
    BY <1>7, CloseFine
  <1> HIDE DEF v
  <1> QED BY <1>2, <1>8, Applied

LEMMA TimeoutStep ==
  ASSUME Setting, IInv, timed_out_waiting
  PROVE  Done
  <1> DEFINE w == [World EXCEPT !.tm.alarm = FALSE]
  <1>1. PICK sent \in BOOLEAN : Alive /\ Apply(handle_timeout(w, sent))
    BY Zenon DEF timed_out_waiting
  <1>2. off \in Int /\ World \in Worlds /\ Fine(World, off) /\ World.dt = 0 /\ ~World.tm.quit
    BY <1>1, WorldIs DEF Alive
  <1>3. w \in Worlds /\ Kept(w, World) /\ w.tm.state = World.tm.state /\ w.tm.current = World.tm.current
    <2>1. ASSUME NEW x \in Worlds, NEW b \in BOOLEAN
          PROVE  LET z == [x EXCEPT !.tm.alarm = b] IN
                 z \in Worlds /\ Kept(z, x) /\ z.tm.state = x.tm.state /\ z.tm.current = x.tm.current
      BY DEF Worlds, Top, Kept
    <2>2. FALSE \in BOOLEAN
      OBVIOUS
    <2> QED BY <1>2, <2>1, <2>2, Zenon
  <1> HIDE DEF w
  <1>4. Due(w, off)
    BY <1>2, <1>3 DEF Due, Fine, Kept, Usable, Reason, Best, BestIs
  <1> QED BY <1>1, <1>2, <1>4, TimeoutFine, Applied

LEMMA TimerStep ==
  ASSUME Setting, IInv, sleep_timer_expired
  PROVE  Done
  <1> DEFINE w == [World EXCEPT !.tm.tistate = "CLEAR"]
  <1>1. Alive
    BY DEF sleep_timer_expired
  <1>2. off \in Int /\ World \in Worlds /\ Fine(World, off) /\ World.dt = 0 /\ ~World.tm.quit
    BY <1>1, WorldIs DEF Alive
  <1>3. CASE tm.tistate = "ARMED"
    <2>1. PICK sent \in BOOLEAN : Apply(handle_timeout(w, sent))
      BY <1>3, Zenon DEF sleep_timer_expired
    <2>2. w \in Worlds /\ Kept(w, World) /\ w.tm.state = World.tm.state /\ w.tm.current = World.tm.current
      <3>1. ASSUME NEW x \in Worlds, NEW t \in {"NONE", "ARMED", "CLEAR"}
            PROVE  LET z == [x EXCEPT !.tm.tistate = t] IN
                   z \in Worlds /\ Kept(z, x) /\ z.tm.state = x.tm.state /\ z.tm.current = x.tm.current
        BY DEF Worlds, Top, Kept
      <3>2. "CLEAR" \in {"NONE", "ARMED", "CLEAR"}
        OBVIOUS
      <3> QED BY <1>2, <3>1, <3>2, Zenon
    <2> HIDE DEF w
    <2>3. Due(w, off)
      BY <1>2, <2>2 DEF Due, Fine, Kept, Usable, Reason, Best, BestIs
    <2> QED BY <1>2, <2>1, <2>3, TimeoutFine, Applied
  <1>4. CASE tm.tistate # "ARMED"
    <2>1. tm' = tm /\ servs' = servs /\ net' = net /\ off' = off
      BY <1>4 DEF sleep_timer_expired
    <2> QED BY <1>2, <2>1 DEF Done, World, SyncStep
  <1> QED BY <1>3, <1>4

LEMMA CommandStep ==
  ASSUME Setting, IInv, NEW cmd \in Commands, dispatch_cmd(cmd)
  PROVE  Done
  <1> DEFINE v(a) == CASE cmd = "server" -> cmd_server(World, a)
                       [] cmd = "retry" -> cmd_retry(World)
                       [] cmd = "reset" -> cmd_reset(World)
                       [] cmd = "force" -> cmd_force(World)
  <1>1. PICK a \in Addrs : Alive /\ Apply(v(a))
    BY Zenon DEF dispatch_cmd
  <1>2. off \in Int /\ Begun(World, off)
    BY <1>1, WorldIs DEF Alive, Begun
  <1>3. cmd \in {"server", "retry", "reset", "force"}
    BY DEF Setting
  <1>4. Fine(v(a), off)
    <2>1. CASE cmd = "server"
      BY <1>2, <2>1, ServerFine
    <2>2. CASE cmd = "retry"
      BY <1>2, <2>2, RetryFine
    <2>3. CASE cmd = "reset"
      BY <1>2, <2>3, ResetFine
    <2>4. CASE cmd = "force"
      BY <1>2, <2>4, ForceFine
    <2> QED BY <1>3, <2>1, <2>2, <2>3, <2>4
  <1> HIDE DEF v
  <1> QED BY <1>1, <1>4, Applied

\* While the timer runs no measurement is waiting, so the drift spoils none.
LEMMA DriftStep ==
  ASSUME Setting, IInv, drift
  PROVE  Done
  <1>1. tm' = tm /\ servs' = servs /\ net' = net /\ off' \in Int /\ Alive /\ tm.tistate = "ARMED"
    BY DEF drift, IInv
  <1>2. Fine(World, off) /\ World.tm = tm /\ World.servs = servs /\ World.dt = 0 /\ ~tm.quit
    BY <1>1, WorldIs DEF Alive
  <1>3. World' = World
    BY <1>1 DEF World
  <1>4. tm.state \notin Pinging
    BY <1>1, <1>2 DEF Fine, Timeout
  <1>5. Fine(World, off')
    BY <1>2, <1>4 DEF Fine, Best, Better
  <1> QED BY <1>1, <1>3, <1>5 DEF Done, SyncStep

LEMMA IInvInit ==
  ASSUME Setting, Init
  PROVE  IInv
  <1>1. tm \in Top
    BY DEF Init, Top, States
  <1>2. servs \in [Slots -> Server] /\ \A i \in Slots : servs[i].flags = {}
    BY NoServIn DEF Init, NoServ
  <1>3. off \in Int /\ net = {} /\ sig \in BOOLEAN /\ tm.state = "IDLE" /\ tm.quit = FALSE
    <2>1. off \in Int
      <3>1. off \in -OFF..OFF /\ OFF \in Int
        BY DEF Init, Setting
      <3> QED BY <3>1
    <2>2. net = {} /\ tm.state = "IDLE"
      BY DEF Init
    <2>3. sig \in BOOLEAN /\ tm.quit = FALSE
      BY Zenon DEF Init
    <2> QED BY <2>1, <2>2, <2>3
  <1>4. World \in Worlds /\ World.tm = tm /\ World.servs = servs /\ World.dt = 0
    BY <1>1, <1>2, <1>3 DEF World, Worlds
  <1>5. Marked(World.servs) /\ Reason(World)
    BY <1>2, <1>4 DEF Marked, Reason, Measured, has
  <1>6. Usable(World) /\ Timeout(World) /\ Best(World, off) /\ Better(World, off)
    BY <1>3, <1>4 DEF Usable, Timeout, Best, Better, Chosen, Pinging
  <1> QED BY <1>3, <1>4, <1>5, <1>6 DEF IInv, Fine

LEMMA IInvNext ==
  ASSUME Setting, IInv, [Next]_time_vars
  PROVE  IInv' /\ (SyncStep \/ UNCHANGED time_vars)
  <1>1. CASE check_packet
    <2>1. sig' = sig
      BY <1>1 DEF check_packet
    <2> QED BY <1>1, <2>1, PacketStep DEF Done, IInv
  <1>2. CASE timed_out_waiting
    <2>1. sig' = sig
      BY <1>2 DEF timed_out_waiting
    <2> QED BY <1>2, <2>1, TimeoutStep DEF Done, IInv
  <1>3. CASE sleep_timer_expired
    <2>1. sig' \in BOOLEAN
      BY <1>3 DEF sleep_timer_expired
    <2> QED BY <1>3, <2>1, TimerStep DEF Done, IInv
  <1>4. ASSUME NEW cmd \in Commands, dispatch_cmd(cmd)
        PROVE  IInv' /\ (SyncStep \/ UNCHANGED time_vars)
    <2>1. sig' = sig
      BY <1>4 DEF dispatch_cmd
    <2> QED BY <1>4, <2>1, CommandStep DEF Done, IInv
  <1>5. CASE expire
    BY <1>5 DEF expire, IInv, World, SyncStep
  <1>6. CASE drift
    <2>1. sig' = sig
      BY <1>6 DEF drift
    <2> QED BY <1>6, <2>1, DriftStep DEF Done, IInv
  <1>7. CASE UNCHANGED time_vars
    BY <1>7 DEF time_vars, IInv, World
  <1> QED BY <1>1, <1>2, <1>3, <1>4, <1>5, <1>6, <1>7 DEF Next

\* timed pings or polls no server it has given up, never sleeps without a
\* timeout and is idle only when no measured server is left: for any number of
\* servers and attempts, any delays of the network, any sequence of commands
\* and any drift of the clock.
THEOREM TimedCorrect ==
  ASSUME Setting
  PROVE  Spec => []TimeGoesOn
  <1>1. Init => IInv
    BY IInvInit
  <1>2. IInv /\ [Next]_time_vars => IInv'
    BY IInvNext
  <1>3. IInv => TimeGoesOn
    <2> SUFFICES ASSUME IInv PROVE TimeGoesOn
      OBVIOUS
    <2>1. ~tm.quit => Usable(World) /\ Reason(World) /\ Timeout(World)
      BY WorldIs DEF Fine
    <2>2. World.tm = tm /\ World.servs = servs
      BY WorldIs
    <2>3. CurrentUsable
      BY <2>1, <2>2 DEF CurrentUsable, Alive, Usable, has
    <2>4. Awake
      BY <2>1, <2>2 DEF Awake, Alive, Timeout
    <2>5. IdleForReason
      BY <2>1, <2>2 DEF IdleForReason, Alive, Reason, Measured
    <2> QED BY <2>3, <2>4, <2>5 DEF TimeGoesOn
  <1> QED BY <1>1, <1>2, <1>3, PTL DEF Spec

\* No adjustment of the clock, a step or any part of a slew, leaves it further
\* off than it was or than half the round trip to the server.
THEOREM SyncCorrect ==
  ASSUME Setting
  PROVE  Spec => TimeSyncSound
  <1>1. Init => IInv
    BY IInvInit
  <1>2. IInv /\ [Next]_time_vars => IInv' /\ [SyncStep]_time_vars
    BY IInvNext
  <1> QED BY <1>1, <1>2, PTL DEF Spec, TimeSyncSound

=============================================================================
