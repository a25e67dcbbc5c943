--------------------------- MODULE SvcCtl_proofs ----------------------------
(***************************************************************************)
(* Proofs about SvcHub, continued, and about SvcCtl.                       *)
(*                                                                         *)
(* What a step may do to an entry of the service table, and from it that   *)
(* names stay unique, that epoll keys belong to the entries they were made *)
(* for, that no client waits for a notification nobody will send, and that *)
(* what was stopped stays down.  Then: svchub with any number of svcctl at *)
(* its socket is svchub as SvcHub describes it, so that what is proved     *)
(* there holds here; and svcctl gets the packets it waits for in the order *)
(* it expects them.                                                        *)
(***************************************************************************)
EXTENDS SvcCtl, SvcHub_proofs

\* the entry has a process which was told to stop
Stopping(pc) == Alive(pc) /\ P_KILLED \in pc.flags

\* An open connection waits for the pid the history says.
WaitsOpen ==
  \A c \in Conns : waiting[c] # 0 =>
     c \in 1..nconns /\ conns[c].fd = OPEN /\ conns[c].pid = waiting[c]

\* Someone is there to wait for.
Awaited ==
  forced = 0 =>
  \A c \in Conns : waiting[c] # 0 =>
     \E i \in Slots : Stopping(procs[i]) /\ procs[i].pid = waiting[c]

TabInv == NamesUnique /\ KeysValid /\ WaitsOpen /\ Awaited

-----------------------------------------------------------------------------
(* The two things a step may do to the table *)

\* Entry a becomes b without its process, or its name, being touched.
Kept(a, b) ==
  /\ b.pid = a.pid /\ b.name = a.name
  /\ b.flags = a.flags \/ (a.flags # {} /\ b.flags = a.flags \cup {P_KILLED})
  /\ b.fd = a.fd \/ b.fd = CLOSED

AllKept ==
  /\ \A i \in Slots : Kept(procs[i], procs'[i])
  /\ UNCHANGED <<leaked, forced>>

\* Entry i is rewritten: its name is kept, cleared or new; an open fd comes with
\* a process unless it was there before without one; a process that was told to
\* stop leaves no pid.
Rewrote(i, r) ==
  /\ procs' = [procs EXCEPT ![i] = r]
  /\ r.name \in {procs[i].name, ""} \/ \A j \in Slots : procs[j].name # r.name
  /\ r.fd = OPEN => Alive(r) \/ (procs[i].fd = OPEN /\ ~Alive(procs[i]))
  /\ Stopping(procs[i]) => r.pid = 0
  /\ leaked' = leaked \/ (procs[i].fd = OPEN /\ ~Alive(procs[i]))
  /\ forced' = forced

\* force_shutdown takes the pid of every entry with a process.
Forgot ==
  /\ procs' = [i \in Slots |-> IF i \in LiveIn(procs) THEN [procs[i] EXCEPT !.pid = 0] ELSE procs[i]]
  /\ forced' = forced + Cardinality(LiveIn(procs))
  /\ leaked' = leaked

TableStep == AllKept \/ (\E i \in Slots, r \in ProcType : Rewrote(i, r)) \/ Forgot

\* What a client can have done to the table: no process is touched.
CalmStep == AllKept \/ \E i \in Slots, r \in ProcType : ~Alive(procs[i]) /\ Rewrote(i, r)

\* Unless the shutdown is forced, what was told to stop is still stopping.
Still ==
  forced' = 0 =>
     /\ forced = 0
     /\ \A i \in Slots : Stopping(procs[i]) => Stopping(procs'[i]) /\ procs'[i].pid = procs[i].pid

\* The part of StoppedStaysDown that is about one step.
StayDown ==
  \A i \in Slots : Stopping(procs[i]) /\ procs'[i].pid # procs[i].pid => procs'[i].pid = 0

\* A process that is kept is kept with its mark.
LEMMA KeptStopping ==
  \A a, b : Kept(a, b) => (Alive(a) <=> Alive(b)) /\ (Stopping(a) => Stopping(b))
  BY DEF Kept, Alive, Stopping, P_KILLED, P_STATUS

\* force_shutdown with no process left changes nothing.
LEMMA ForgotNone ==
  ASSUME procs \in [Slots -> ProcType], forced \in Nat, Forgot, forced' = 0
  PROVE  forced = 0 /\ procs' = procs /\ leaked' = leaked /\ LiveIn(procs) = {}
<1>1. Cardinality(LiveIn(procs)) \in Nat /\ IsFiniteSet(LiveIn(procs))
  BY LiveFinite, Sizes
<1>2. forced = 0 /\ Cardinality(LiveIn(procs)) = 0
  BY <1>1 DEF Forgot
<1>3. LiveIn(procs) = {}
  BY <1>1, <1>2, FS_EmptySet
<1>4. procs' = [i \in Slots |-> procs[i]]
  BY <1>3 DEF Forgot
<1>5. QED
  BY <1>2, <1>3, <1>4 DEF Forgot

\* A step that touches no process leaves what was told to stop stopping.
LEMMA CalmStill ==
  ASSUME procs \in [Slots -> ProcType], CalmStep
  PROVE  TableStep /\ Still
<1>1. CASE AllKept
  BY <1>1, KeptStopping DEF AllKept, Kept, TableStep, Still
<1>2. ASSUME NEW i \in Slots, NEW r \in ProcType, ~Alive(procs[i]), Rewrote(i, r)
      PROVE  TableStep /\ Still
  <2>1. \A j \in Slots : Stopping(procs[j]) => procs'[j] = procs[j]
    BY <1>2, Zenon DEF Rewrote, Stopping
  <2> QED BY <1>2, <2>1, Zenon DEF TableStep, Still, Rewrote
<1>3. QED
  BY <1>1, <1>2 DEF CalmStep

\* So does one that forces the shutdown when no process is left.
LEMMA ForgotStill ==
  ASSUME procs \in [Slots -> ProcType], forced \in Nat, Forgot
  PROVE  TableStep /\ Still
  BY ForgotNone DEF TableStep, Still

\* No step of the table gives two entries the same name.
LEMMA NamesStep ==
  ASSUME procs \in [Slots -> ProcType], NamesUnique, TableStep
  PROVE  NamesUnique'
<1>1. CASE AllKept
  BY <1>1, ZenonT(40) DEF AllKept, Kept, NamesUnique
<1>2. ASSUME NEW i \in Slots, NEW r \in ProcType, Rewrote(i, r)
      PROVE  NamesUnique'
  <2>1. procs'[i] = r /\ \A j \in Slots : j # i => procs'[j] = procs[j]
    BY <1>2, Zenon DEF Rewrote
  <2>2. ASSUME NEW j \in Slots, j # i, r.name # ""
        PROVE  procs[j].name # r.name
    <3>1. r.name = procs[i].name \/ \A h \in Slots : procs[h].name # r.name
      BY <1>2, <2>2, Zenon DEF Rewrote
    <3> QED BY <2>2, <3>1, Zenon DEF NamesUnique
  <2>3. ASSUME NEW j \in Slots, NEW h \in Slots, procs'[j].name # "", procs'[j].name = procs'[h].name
        PROVE  j = h
    BY <2>1, <2>2, <2>3, Zenon DEF NamesUnique
  <2> QED BY <2>3, Zenon DEF NamesUnique
<1>3. CASE Forgot
  <2>1. \A j \in Slots : procs'[j].name = procs[j].name
    BY <1>3, Zenon DEF Forgot, ProcType
  <2> QED BY <2>1, Zenon DEF NamesUnique
<1>4. QED
  BY <1>1, <1>2, <1>3 DEF TableStep

\* No step of the table leaves a pipe without its entry, before shutdown is forced.
LEMMA KeysStep ==
  ASSUME procs \in [Slots -> ProcType], forced \in Nat, KeysValid, TableStep
  PROVE  KeysValid'
<1> SUFFICES ASSUME forced' = 0
             PROVE  leaked' = {} /\ \A j \in Slots : procs'[j].fd = OPEN => Alive(procs'[j])
  BY DEF KeysValid
<1>1. CASE AllKept
  <2>1. forced = 0 /\ leaked' = leaked
    BY <1>1 DEF AllKept
  <2>2. \A j \in Slots : procs'[j].fd = OPEN => procs[j].fd = OPEN
    BY <1>1 DEF AllKept, Kept, OPEN, CLOSED
  <2>3. \A j \in Slots : Alive(procs[j]) <=> Alive(procs'[j])
    BY <1>1, KeptStopping DEF AllKept
  <2> QED BY <2>1, <2>2, <2>3 DEF KeysValid
<1>2. ASSUME NEW i \in Slots, NEW r \in ProcType, Rewrote(i, r)
      PROVE  leaked' = {} /\ \A j \in Slots : procs'[j].fd = OPEN => Alive(procs'[j])
  <2>1. procs'[i] = r /\ \A j \in Slots : j # i => procs'[j] = procs[j]
    BY <1>2, Zenon DEF Rewrote
  <2>2. forced = 0 /\ ~(procs[i].fd = OPEN /\ ~Alive(procs[i])) /\ leaked = {}
    BY <1>2, Zenon DEF Rewrote, KeysValid
  <2>3. leaked' = {} /\ (r.fd = OPEN => Alive(r))
    BY <1>2, <2>2, Zenon DEF Rewrote
  <2> QED BY <2>1, <2>2, <2>3 DEF KeysValid
<1>3. CASE Forgot
  <2>1. forced = 0 /\ procs' = procs /\ leaked' = leaked
    BY <1>3, ForgotNone
  <2> QED BY <2>1 DEF KeysValid
<1>4. QED
  BY <1>1, <1>2, <1>3 DEF TableStep

\* Whatever a step of the table does to a process told to stop, it is not
\* replaced by another.
LEMMA DownStep ==
  ASSUME procs \in [Slots -> ProcType], TableStep
  PROVE  StayDown
<1>1. CASE AllKept
  BY <1>1 DEF AllKept, Kept, StayDown
<1>2. ASSUME NEW i \in Slots, NEW r \in ProcType, Rewrote(i, r)
      PROVE  StayDown
  <2>1. procs'[i] = r /\ \A j \in Slots : j # i => procs'[j] = procs[j]
    BY <1>2, Zenon DEF Rewrote
  <2> QED BY <1>2, <2>1, Zenon DEF Rewrote, StayDown
<1>3. CASE Forgot
  <2>1. \A j \in Slots : procs'[j].pid = procs[j].pid \/ procs'[j].pid = 0
    BY <1>3, Zenon DEF Forgot, ProcType
  <2> QED BY <2>1 DEF StayDown
<1>4. QED
  BY <1>1, <1>2, <1>3 DEF TableStep

-----------------------------------------------------------------------------
(* Every handler takes a step of the table *)

\* A step that leaves the table alone.
LEMMA SameTable ==
  UNCHANGED <<procs, leaked, forced>> => AllKept
  BY DEF AllKept, Kept

\* One entry is touched and keeps its process.
LEMMA TouchOne ==
  ASSUME procs \in [Slots -> ProcType], NEW i \in Slots, NEW r, Kept(procs[i], r),
         procs' = [procs EXCEPT ![i] = r], UNCHANGED <<leaked, forced>>
  PROVE  AllKept
<1>1. procs'[i] = r /\ \A j \in Slots : j # i => procs'[j] = procs[j]
  OBVIOUS
<1>2. \A j \in Slots : j # i => Kept(procs[j], procs'[j])
  BY <1>1 DEF Kept
<1>3. QED
  BY <1>1, <1>2 DEF AllKept

\* spawn_path leaves the entry as the caller had it, or gives it a process.
LEMMA SpawnWrites ==
  ASSUME ForkWorks, NEW i \in Slots, NEW rec \in ProcType, NEW bad \in ProcType,
         P_STATUS \notin rec.flags, rec.flags # {},
         NEW k, NEW n, NEW ret, spawn_path(i, rec, bad, k, n, ret)
  PROVE  \E r \in ProcType :
            /\ procs' = [procs EXCEPT ![i] = r]
            /\ r = bad \/ (Alive(r) /\ r.name = rec.name)
            /\ leaked' = leaked \/ rec.fd = OPEN
<1>1. CASE procs' = [procs EXCEPT ![i] = bad] /\ UNCHANGED <<pipe, leaked>>
  BY <1>1, Zenon
<1>2. ASSUME NEW p \in Pids,
             \/ procs' = [procs EXCEPT ![i] = [rec EXCEPT !.pid = p]] /\ UNCHANGED <<pipe, leaked>>
             \/ /\ procs' = [procs EXCEPT ![i] = [rec EXCEPT !.pid = p, !.fd = OPEN]]
                /\ leaked' = IF rec.fd = OPEN THEN leaked \cup {i} ELSE leaked
      PROVE  \E r \in ProcType :
                /\ procs' = [procs EXCEPT ![i] = r]
                /\ Alive(r) /\ r.name = rec.name
                /\ leaked' = leaked \/ rec.fd = OPEN
  <2> DEFINE a == [rec EXCEPT !.pid = p]
             b == [rec EXCEPT !.pid = p, !.fd = OPEN]
  <2>1. a \in ProcType /\ a.flags = rec.flags /\ a.pid = p /\ a.name = rec.name
    BY Zenon DEF ProcType
  <2>2. b \in ProcType /\ b.flags = rec.flags /\ b.pid = p /\ b.name = rec.name
    BY Zenon DEF ProcType
  <2> HIDE DEF a, b
  <2>3. Alive(a) /\ Alive(b)
    BY <2>1, <2>2, Values, Zenon DEF Alive
  <2>4. procs' = [procs EXCEPT ![i] = a] \/ procs' = [procs EXCEPT ![i] = b]
    BY <1>2 DEF a, b
  <2>5. leaked' = leaked \/ rec.fd = OPEN
    BY <1>2
  <2> QED BY <2>1, <2>2, <2>3, <2>4, <2>5
<1>3. QED
  BY <1>1, <1>2, Zenon DEF spawn_path, ForkWorks

\* restart_proc takes an entry without a process.
LEMMA RestartTable ==
  ASSUME ForkWorks, AgreeNow, NEW n \in Names, NEW fl, NEW ret, find_by_name(n) # {},
         restart_proc(First(find_by_name(n)), fl, ret), forced' = forced
  PROVE  CalmStep
<1> DEFINE i == First(find_by_name(n))
           pc == procs[i]
           idle == IF P_STATUS \in pc.flags
                   THEN [pc EXCEPT !.flags = @ \ {P_STATUS, P_KILLED}, !.pid = 0]
                   ELSE pc
           rec == [idle EXCEPT !.buf = FALSE]
           new == [rec EXCEPT !.old = FALSE]
<1>1. i \in Slots /\ pc.name = n
  BY Found
<1>2. procs \in [Slots -> ProcType] /\ Shape(procs, nprocs)
  BY DEF AgreeNow, Agree, Typed
<1>3. pc \in ProcType /\ P_IN_USE \in pc.flags
  BY <1>1, <1>2, Values, Zenon DEF Shape
<1>4. CASE UNCHANGED <<tabvars, kid, pipe, leaked, lost>>
  BY <1>4, SameTable DEF CalmStep, tabvars
<1>5. CASE idle.pid = 0 /\ spawn_path(i, new, rec, kid, nalive, ret)
  <2> HIDE DEF i, pc
  <2>1. /\ idle \in ProcType /\ P_IN_USE \in idle.flags /\ P_STATUS \notin idle.flags
        /\ ~Alive(pc) /\ idle.name = pc.name /\ idle.fd = pc.fd
    BY <1>3, <1>5, Values, Zenon DEF ProcType, Alive, P_STATUS, P_KILLED, P_IN_USE
  <2> HIDE DEF idle
  <2>2. rec \in ProcType /\ rec.flags = idle.flags /\ rec.name = pc.name /\ rec.fd = pc.fd
    BY <2>1, Zenon DEF ProcType
  <2> HIDE DEF rec
  <2>3. new \in ProcType /\ new.flags = rec.flags /\ new.name = pc.name /\ new.fd = pc.fd
    BY <2>2, Zenon DEF ProcType
  <2> HIDE DEF new
  <2>4. PICK r \in ProcType :
           /\ procs' = [procs EXCEPT ![i] = r]
           /\ r = rec \/ (Alive(r) /\ r.name = new.name)
           /\ leaked' = leaked \/ new.fd = OPEN
    BY <1>1, <1>5, <2>1, <2>2, <2>3, SpawnWrites
  <2>5. Rewrote(i, r)
    BY <2>1, <2>2, <2>3, <2>4, Zenon DEF Rewrote, Stopping, pc
  <2> QED BY <1>1, <2>1, <2>5 DEF CalmStep, pc
<1>6. QED
  BY <1>4, <1>5 DEF restart_proc

\* start_proc takes one too, or a slot not in use under a name that is not there.
LEMMA StartTable ==
  ASSUME ForkWorks, IInv, NEW n \in Names, NEW fl \in Kinds, NEW ret, cmd_start(n, fl, ret)
  PROVE  CalmStep
<1>1. AgreeNow /\ forced' = forced
  BY DEF IInv, cmd_start
<1>2. CASE find_by_name(n) # {}
  BY <1>1, <1>2, RestartTable DEF cmd_start, start_proc
<1>3. CASE find_by_name(n) = {}
  <2> DEFINE i == grab_proc_slot
             rec == [Empty EXCEPT !.name = n, !.flags = {P_IN_USE} \cup fl, !.fd = CLOSED]
  <2>1. CASE UNCHANGED <<tabvars, kid, pipe, leaked, lost>>
    BY <1>1, <2>1, SameTable DEF CalmStep, tabvars
  <2>2. CASE i # 0 /\ spawn_path(i, rec, Empty, kid, nalive, ret)
    <3>1. i \in Slots /\ procs[i].flags = {}
      BY <1>1, <2>2, Grabbed
    <3> HIDE DEF i
    <3>2. fl \subseteq {P_PASS, P_ONCE}
      BY KindFlags
    <3>3. rec \in ProcType /\ P_IN_USE \in rec.flags /\ P_STATUS \notin rec.flags
      BY <3>2, Values, Zenon DEF ProcType, Empty, P_IN_USE, P_STATUS, P_PASS, P_ONCE, P_KILLED, OPEN, CLOSED
    <3>4. rec.name = n /\ rec.fd # OPEN
      BY DEF Empty, OPEN, CLOSED
    <3> HIDE DEF rec
    <3>5. Empty.name = "" /\ Empty.fd # OPEN
      BY DEF Empty, OPEN
    <3>6. PICK r \in ProcType :
             /\ procs' = [procs EXCEPT ![i] = r]
             /\ r = Empty \/ (Alive(r) /\ r.name = n)
             /\ leaked' = leaked \/ rec.fd = OPEN
      <4>1. rec.flags # {} /\ Empty \in ProcType
        BY <3>3, Records
      <4>2. PICK r \in ProcType :
               /\ procs' = [procs EXCEPT ![i] = r]
               /\ r = Empty \/ (Alive(r) /\ r.name = rec.name)
               /\ leaked' = leaked \/ rec.fd = OPEN
        BY <2>2, <3>1, <3>3, <4>1, SpawnWrites
      <4> QED BY <3>4, <4>2, Zenon
    <3>7. \A j \in Slots : procs[j].name # n
      <4>1. nprocs \in 0..NPROCS /\ Shape(procs, nprocs)
        BY <1>1 DEF AgreeNow, Agree, Typed
      <4>2. \A j \in Slots : j \notin 1..nprocs => j > nprocs
        BY <4>1, Sizes DEF Slots
      <4>3. \A j \in Slots : j \notin 1..nprocs => procs[j].name = ""
        BY <4>1, <4>2, Zenon DEF Shape
      <4> QED BY <1>3, <4>3, Values, Zenon DEF find_by_name
    <3>8. Rewrote(i, r)
      BY <1>1, <3>1, <3>4, <3>5, <3>6, <3>7, Zenon DEF Rewrote, Stopping, Alive
    <3> QED BY <3>1, <3>8 DEF CalmStep, Alive
  <2> QED BY <1>3, <2>1, <2>2 DEF cmd_start, start_proc
<1>4. QED
  BY <1>2, <1>3

\* stop_proc marks the process the connection is going to wait for.
LEMMA StopTable ==
  ASSUME IInv, NEW n \in Names, NEW ret, NEW pid, cmd_stop(n, ret, pid)
  PROVE  /\ AllKept
         /\ pid # 0 => \E i \in Slots : Stopping(procs'[i]) /\ procs'[i].pid = pid
<1> DEFINE i == First(find_by_name(n))
           pc == procs[i]
           r == [pc EXCEPT !.flags = @ \cup {P_KILLED}]
<1>1. AgreeNow /\ procs \in [Slots -> ProcType] /\ UNCHANGED <<leaked, forced>>
  BY DEF IInv, AgreeNow, Agree, Typed, cmd_stop, kernvars
<1>2. CASE procs' = procs /\ pid = 0
  BY <1>1, <1>2, SameTable
<1>3. CASE /\ find_by_name(n) # {} /\ Alive(pc)
           /\ procs' = [procs EXCEPT ![i].flags = @ \cup {P_KILLED}]
           /\ pid = 0 \/ pid = pc.pid
  <2>1. i \in Slots
    BY <1>1, <1>3, Found
  <2> HIDE DEF i
  <2>2. r.pid = pc.pid /\ r.name = pc.name /\ r.fd = pc.fd /\ r.flags = pc.flags \cup {P_KILLED}
    BY <1>1, <2>1, Zenon DEF ProcType
  <2>3. procs' = [procs EXCEPT ![i] = r]
    BY <1>1, <1>3, <2>1
  <2> HIDE DEF r
  <2>4. Kept(pc, r) /\ Stopping(r)
    BY <1>3, <2>2 DEF Kept, Stopping, Alive, P_KILLED, P_STATUS
  <2>5. AllKept
    BY <1>1, <2>1, <2>3, <2>4, TouchOne, Zenon
  <2>6. procs'[i] = r
    BY <1>1, <2>1, <2>3
  <2> QED BY <1>3, <2>1, <2>2, <2>4, <2>5, <2>6, Zenon
<1>4. QED
  BY <1>2, <1>3 DEF cmd_stop

\* flush_proc touches a buffer.
LEMMA FlushTable ==
  ASSUME IInv, NEW n \in Names, NEW ret, cmd_flush(n, ret)
  PROVE  AllKept
<1> DEFINE i == First(find_by_name(n))
           r == [procs[i] EXCEPT !.buf = FALSE]
<1>1. AgreeNow /\ procs \in [Slots -> ProcType] /\ UNCHANGED <<leaked, forced>>
  BY DEF IInv, AgreeNow, Agree, Typed, cmd_flush, kernvars
<1>2. CASE procs' = procs
  BY <1>1, <1>2, SameTable
<1>3. CASE find_by_name(n) # {} /\ procs' = [procs EXCEPT ![i].buf = FALSE]
  <2>1. i \in Slots
    BY <1>1, <1>3, Found
  <2> HIDE DEF i
  <2>2. Kept(procs[i], r)
    BY <1>1, <2>1, Zenon DEF ProcType, Kept
  <2>3. procs' = [procs EXCEPT ![i] = r]
    BY <1>1, <1>3, <2>1
  <2> HIDE DEF r
  <2> QED BY <1>1, <2>1, <2>2, <2>3, TouchOne, Zenon
<1>4. QED
  BY <1>2, <1>3 DEF cmd_flush

\* remove_proc wipes an entry that has no process.
LEMMA RemoveTable ==
  ASSUME IInv, NEW n \in Names, NEW ret, cmd_remove(n, ret)
  PROVE  CalmStep
<1> DEFINE i == First(find_by_name(n))
           pc == procs[i]
<1>1. AgreeNow /\ procs \in [Slots -> ProcType] /\ forced' = forced
  BY DEF IInv, AgreeNow, Agree, Typed, cmd_remove
<1>2. CASE UNCHANGED <<procs, leaked>>
  BY <1>1, <1>2, SameTable DEF CalmStep
<1>3. CASE /\ find_by_name(n) # {} /\ (pc.pid = 0 \/ P_STATUS \in pc.flags)
           /\ procs' = [procs EXCEPT ![i] = Empty]
           /\ leaked' = IF pc.fd = OPEN THEN leaked \cup {i} ELSE leaked
  <2>1. i \in Slots
    BY <1>1, <1>3, Found
  <2> HIDE DEF i
  <2>2. ~Alive(pc)
    BY <1>3 DEF Alive
  <2>3. Empty.name = "" /\ Empty.fd # OPEN
    BY DEF Empty, OPEN
  <2>4. Rewrote(i, Empty)
    BY <1>1, <1>3, <2>2, <2>3, Zenon DEF Rewrote, Stopping
  <2> QED BY <2>1, <2>2, <2>4, Records DEF CalmStep
<1>4. QED
  BY <1>2, <1>3 DEF cmd_remove

\* stop_all_procs marks entries.
LEMMA BeginTable ==
  ASSUME procs \in [Slots -> ProcType], NEW mode, NEW k, NEW scr, begin_stop(mode, k, scr),
         UNCHANGED <<leaked, forced>>
  PROVE  AllKept
<1>1. ASSUME NEW i \in Slots PROVE Kept(procs[i], procs'[i])
  <2>1. procs[i] \in ProcType
    OBVIOUS
  <2>2. CASE procs'[i] = procs[i]
    BY <2>2 DEF Kept
  <2>3. CASE procs[i].flags # {} /\ procs'[i] = [procs[i] EXCEPT !.flags = @ \cup {P_KILLED}]
    <3> DEFINE r == [procs[i] EXCEPT !.flags = @ \cup {P_KILLED}]
    <3>1. /\ r.pid = procs[i].pid /\ r.name = procs[i].name /\ r.fd = procs[i].fd
          /\ r.flags = procs[i].flags \cup {P_KILLED}
      BY <2>1, Zenon DEF ProcType
    <3> HIDE DEF r
    <3>2. procs'[i] = r
      BY <2>3 DEF r
    <3> QED BY <2>3, <3>1, <3>2 DEF Kept
  <2>4. \/ procs'[i] = procs[i]
        \/ procs[i].flags # {} /\ procs'[i] = [procs[i] EXCEPT !.flags = @ \cup {P_KILLED}]
    BY DEF begin_stop, stop_all_procs, Alive
  <2> QED BY <2>2, <2>3, <2>4
<1>2. QED
  BY <1>1 DEF AllKept

\* The entries force_shutdown goes through are those with a process.
LEMMA ForceTable ==
  ASSUME IInv, force_shutdown
  PROVE  Forgot
<1> DEFINE hit == {i \in 1..nprocs : Alive(procs[i])}
<1>1. nprocs \in 0..NPROCS /\ Shape(procs, nprocs)
  BY DEF IInv, AgreeNow, Agree, Typed
<1>2. \A i \in 1..nprocs : i \in Slots
  BY <1>1, Sizes DEF Slots
<1>3. \A i \in Slots : i \in 1..nprocs \/ i > nprocs
  BY <1>1, Sizes DEF Slots
<1>4. hit = LiveIn(procs)
  BY <1>1, <1>2, <1>3, Zenon DEF LiveIn, Shape, Alive
<1>5. /\ procs' = [i \in Slots |-> IF i \in hit THEN [procs[i] EXCEPT !.pid = 0] ELSE procs[i]]
      /\ forced' = forced + Cardinality(hit) /\ leaked' = leaked
  BY DEF force_shutdown
<1> HIDE DEF hit
<1>6. QED
  BY <1>4, <1>5 DEF Forgot

\* proc_died rewrites the entry of the process; if it was told to stop, whoever
\* waits for it is notified.
LEMMA DiedTable ==
  ASSUME ForkWorks, IInv, NEW p \in Pids, find_by_pid(p) # {}, NEW s \in Statuses,
         proc_died(First(find_by_pid(p)), p, s)
  PROVE  \E i \in Slots, r \in ProcType :
            /\ Rewrote(i, r) /\ Alive(procs[i]) /\ procs[i].pid = p
            /\ Stopping(procs[i]) => notify_dead(p)
<1> DEFINE i == First(find_by_pid(p))
           pc == procs[i]
           k == [kid EXCEPT ![p] = NoKid]
           end == death(pc, s)
           now == [close_proc(pc) EXCEPT !.old = FALSE]
           left == CASE end = "stopped" -> [now EXCEPT !.flags = @ \ {P_KILLED}, !.pid = 0]
                     [] end = "gone"    -> Empty
                     [] OTHER           -> mark_died(now, s)
<1>1. AgreeNow
  BY DEF IInv
<1>2. /\ procs \in [Slots -> ProcType] /\ Shape(procs, nprocs)
      /\ i \in Slots /\ pc.pid = p /\ P_STATUS \notin pc.flags
  BY <1>1, Found DEF AgreeNow, Agree, Typed
<1>3. pc \in ProcType /\ P_IN_USE \in pc.flags /\ Alive(pc)
  BY <1>2, Values, Zenon DEF Shape, Alive
<1>4. /\ \/ /\ end = "respawn"
            /\ \E ret \in {"0", "EACCES"} : spawn_path(i, now, left, k, nalive - 1, ret)
         \/ /\ end # "respawn"
            /\ procs' = [procs EXCEPT ![i] = left]
            /\ leaked' = leaked
      /\ end = "stopped" => notify_dead(p)
      /\ forced' = forced
  BY DEF proc_died
<1>5. Stopping(pc) <=> end = "stopped"
  BY <1>3 DEF Stopping, death
<1> HIDE DEF i, pc, k, end
<1>6. now \in ProcType /\ now.flags = pc.flags /\ now.pid = p /\ now.fd = CLOSED /\ now.name = pc.name
  BY <1>2, <1>3, Zenon DEF close_proc, ProcType
<1> HIDE DEF now
<1>7. /\ left \in ProcType /\ left.fd # OPEN /\ left.name \in {pc.name, ""}
      /\ end = "stopped" => left.pid = 0
  <2>1. CASE end = "stopped"
    <3> DEFINE r == [now EXCEPT !.flags = @ \ {P_KILLED}, !.pid = 0]
    <3>1. left = r
      BY <2>1
    <3>2. r \in ProcType /\ r.pid = 0 /\ r.fd = CLOSED /\ r.name = pc.name
      BY <1>6, Values, Zenon DEF ProcType
    <3> HIDE DEF r, left
    <3> QED BY <2>1, <3>1, <3>2 DEF OPEN, CLOSED
  <2>2. CASE end = "gone"
    <3>1. left = Empty
      BY <2>2
    <3>2. Empty.fd # OPEN /\ Empty.name = ""
      BY DEF Empty, OPEN
    <3> QED BY <2>2, <3>1, <3>2, Records, Zenon
  <2>3. CASE end # "stopped" /\ end # "gone"
    <3> DEFINE r == mark_died(now, s)
    <3>1. left = r
      BY <2>3
    <3>2. r \in ProcType /\ r.fd = CLOSED /\ r.name = pc.name
      BY <1>6, Zenon DEF mark_died, ProcType
    <3> HIDE DEF r, left
    <3> QED BY <2>3, <3>1, <3>2 DEF OPEN, CLOSED
  <2>4. QED
    BY <2>1, <2>2, <2>3, Zenon
<1> HIDE DEF left
<1>8. \E r \in ProcType : Rewrote(i, r)
  <2>1. CASE end = "respawn"
    <3>1. PICK ret \in {"0", "EACCES"} : spawn_path(i, now, left, k, nalive - 1, ret)
      BY <1>4, <2>1
    <3>2. P_STATUS \notin now.flags /\ now.flags # {}
      BY <1>2, <1>3, <1>6
    <3>3. PICK r \in ProcType :
             /\ procs' = [procs EXCEPT ![i] = r]
             /\ r = left \/ (Alive(r) /\ r.name = now.name)
             /\ leaked' = leaked \/ now.fd = OPEN
      BY <1>2, <1>6, <1>7, <3>1, <3>2, SpawnWrites, Zenon
    <3>4. leaked' = leaked
      BY <1>6, <3>3 DEF OPEN, CLOSED
    <3>5. ~Stopping(pc)
      BY <1>5, <2>1
    <3>6. Rewrote(i, r)
      BY <1>4, <1>6, <1>7, <3>3, <3>4, <3>5, Zenon DEF Rewrote, pc
    <3> QED BY <3>6
  <2>2. CASE end # "respawn"
    <3>1. Rewrote(i, left)
      BY <1>4, <1>5, <1>7, <2>2, Zenon DEF Rewrote, pc
    <3> QED BY <1>7, <3>1, Zenon
  <2>3. QED
    BY <2>1, <2>2
<1>9. QED
  BY <1>2, <1>3, <1>4, <1>5, <1>8 DEF pc

\* process_proc may close the descriptor of an entry.
LEMMA OutputTable ==
  ASSUME IInv, NEW i \in Slots, process_proc(i)
  PROVE  AllKept
<1> DEFINE pc == procs[i]
           own == IF pc.fd = OPEN THEN pipe[i] ELSE NoPipe
<1>1. procs \in [Slots -> ProcType] /\ pc \in ProcType /\ UNCHANGED <<leaked, forced>>
  BY DEF IInv, AgreeNow, Agree, Typed, process_proc
<1>2. PICK b, drop : procs' = [procs EXCEPT ![i].buf = b, ![i].fd = IF drop THEN CLOSED ELSE @]
  BY Zenon DEF process_proc
<1> DEFINE r == [pc EXCEPT !.buf = b, !.fd = IF drop THEN CLOSED ELSE @]
<1>3. procs' = [procs EXCEPT ![i] = r]
  BY <1>1, <1>2, Zenon
<1>4. r.pid = pc.pid /\ r.name = pc.name /\ r.flags = pc.flags /\ (r.fd = pc.fd \/ r.fd = CLOSED)
  BY <1>1, Zenon DEF ProcType
<1> HIDE DEF r
<1>5. Kept(pc, r)
  BY <1>4 DEF Kept
<1>6. QED
  BY <1>1, <1>3, <1>5, TouchOne, Zenon

\* Time ages an entry.
LEMMA TickTable ==
  ASSUME IInv, NEW i \in Slots, Tick(i)
  PROVE  AllKept
<1> DEFINE r == [procs[i] EXCEPT !.old = TRUE]
<1>1. procs \in [Slots -> ProcType] /\ UNCHANGED <<leaked, forced>>
  BY DEF IInv, AgreeNow, Agree, Typed, Tick, kernvars
<1>2. procs' = [procs EXCEPT ![i] = r]
  BY DEF Tick
<1>3. Kept(procs[i], r)
  BY <1>1, Zenon DEF Kept, ProcType
<1> HIDE DEF r
<1>4. QED
  BY <1>1, <1>2, <1>3, TouchOne, Zenon

\* The end of a script may begin the stop.
LEMMA ScriptExitTable ==
  ASSUME IInv, NEW p, NEW s, script_exit(p, s)
  PROVE  AllKept
<1>1. procs \in [Slots -> ProcType] /\ UNCHANGED <<leaked, forced>>
  BY DEF IInv, AgreeNow, Agree, Typed, script_exit
<1>2. CASE UNCHANGED procs
  BY <1>1, <1>2, SameTable
<1>3. CASE begin_stop("none", [kid EXCEPT ![p] = NoKid], 0)
  BY <1>1, <1>3, BeginTable
<1>4. QED
  BY <1>2, <1>3 DEF script_exit

-----------------------------------------------------------------------------
(* Connections *)

\* A connection stops waiting, or goes on waiting for what it waited for.
FewerWait == \A c \in Conns : waiting'[c] \in {0, waiting[c]}

\* A reply leaves the connection waiting for the pid of cmd_stop, if there is one.
LEMMA ReplyWaits ==
  ASSUME ConnType, WaitsOpen, NEW c \in Conns, may_send(c), NEW pid \in Pids \cup {0}, reply(c, pid)
  PROVE  /\ WaitsOpen'
         /\ \A d \in Conns : waiting'[d] \in {0, waiting[d], pid}
<1>1. /\ nconns \in 0..NCONNS /\ NCONNS \in Nat /\ c \in 1..nconns /\ conns[c].fd = OPEN
      /\ nconns' = nconns
  BY Sizes DEF ConnType, may_send, Conns, reply, drop_conn
<1>2. conns \in [Conns -> [fd : {OPEN, CLOSED, 0}, pid : Pids \cup {0}]] /\ waiting \in [Conns -> Pids \cup {0}]
  BY DEF ConnType
<1>3. CASE UNCHANGED <<conns, waiting>>
  BY <1>1, <1>3 DEF WaitsOpen
<1>4. CASE pid # 0 /\ conns' = [conns EXCEPT ![c].pid = pid] /\ waiting' = [waiting EXCEPT ![c] = pid]
  <2>1. conns'[c].fd = OPEN /\ conns'[c].pid = pid /\ waiting'[c] = pid
    BY <1>1, <1>2, <1>4
  <2>2. \A d \in Conns : d # c => conns'[d] = conns[d] /\ waiting'[d] = waiting[d]
    BY <1>2, <1>4
  <2> QED BY <1>1, <2>1, <2>2 DEF WaitsOpen
<1>5. CASE drop_conn(c)
  <2>1. waiting'[c] = 0 /\ \A d \in Conns : d # c => conns'[d] = conns[d] /\ waiting'[d] = waiting[d]
    BY <1>2, <1>5 DEF drop_conn
  <2> QED BY <1>1, <2>1 DEF WaitsOpen
<1>6. QED
  BY <1>3, <1>4, <1>5 DEF reply

\* A connection closed waits for nothing.
LEMMA CloseWaits ==
  ASSUME ConnType, WaitsOpen, NEW c \in Conns, drop_conn(c)
  PROVE  WaitsOpen' /\ FewerWait
<1>1. /\ waiting'[c] = 0 /\ nconns' = nconns
      /\ \A d \in Conns : d # c => conns'[d] = conns[d] /\ waiting'[d] = waiting[d]
  BY DEF drop_conn, ConnType
<1>2. QED
  BY <1>1 DEF WaitsOpen, FewerWait

\* A step that leaves the connections alone.
LEMMA SameWaits ==
  ASSUME WaitsOpen, UNCHANGED connvars
  PROVE  WaitsOpen' /\ FewerWait
  BY DEF WaitsOpen, FewerWait, connvars

\* A new connection takes a slot that was not open, or the next one.
LEMMA SocketWaits ==
  ASSUME ConnType, WaitsOpen, check_socket
  PROVE  WaitsOpen' /\ FewerWait
<1> DEFINE unused == {c \in 1..nconns : conns[c].fd = CLOSED}
           d == grab_conn_slot
<1>1. nconns \in 0..NCONNS /\ NCONNS \in Nat
  BY Sizes DEF ConnType
<1>2. d \in Nat /\ (d \in unused \/ d = nconns + 1)
  <2>1. CASE unused # {}
    <3>1. unused \in SUBSET Nat
      BY <1>1
    <3>2. First(unused) \in unused
      BY <2>1, <3>1, FirstIn
    <3> QED BY <2>1, <3>1, <3>2 DEF grab_conn_slot
  <2>2. CASE unused = {}
    BY <1>1, <2>2 DEF grab_conn_slot
  <2> QED BY <2>1, <2>2
<1>3. /\ conns' = [conns EXCEPT ![d].fd = OPEN] /\ waiting' = waiting
      /\ nconns' = IF d > nconns THEN d ELSE nconns
  BY DEF check_socket
<1> HIDE DEF d
<1>4. \A c \in Conns : c # d => conns'[c] = conns[c]
  BY <1>3 DEF ConnType
<1>5. \A c \in 1..nconns : c \in 1..nconns'
  BY <1>1, <1>2, <1>3
<1>6. d \in Conns => waiting[d] = 0
  <2>1. CASE d \in unused
    BY <2>1 DEF WaitsOpen, OPEN, CLOSED
  <2>2. CASE d = nconns + 1
    BY <1>1, <2>2 DEF WaitsOpen
  <2> QED BY <1>2, <2>1, <2>2
<1>7. QED
  BY <1>3, <1>4, <1>5, <1>6 DEF WaitsOpen, FewerWait

\* notify_dead releases every connection that waits for the process.
LEMMA NotifyWaits ==
  ASSUME ConnType, WaitsOpen, NEW p \in Pids, notify_dead(p), nconns' = nconns
  PROVE  WaitsOpen' /\ FewerWait /\ \A c \in Conns : waiting'[c] # p
<1>1. PICK gone \in SUBSET told(p) :
         /\ conns' = [c \in Conns |-> IF c \in gone THEN [fd |-> CLOSED, pid |-> 0] ELSE conns[c]]
         /\ waiting' = [c \in Conns |-> IF c \in told(p) THEN 0 ELSE waiting[c]]
  BY DEF notify_dead
<1>2. \A c \in Conns : waiting'[c] = IF c \in told(p) THEN 0 ELSE waiting[c]
  BY <1>1
<1>3. \A c \in Conns : c \notin told(p) => conns'[c] = conns[c]
  BY <1>1
<1>4. \A c \in Conns : waiting[c] = p => c \in told(p)
  BY Values, Zenon DEF WaitsOpen, told
<1>5. QED
  BY <1>2, <1>3, <1>4, Values, Zenon DEF WaitsOpen, FewerWait

-----------------------------------------------------------------------------
(* The invariant *)

\* What a step has to do for the invariant, and what it shows about the step.
Good == TabInv' /\ StayDown

\* Nobody starts to wait, and what was waited for still is stopping.
LEMMA KeepTab ==
  ASSUME IInv, TabInv, TableStep, Still, WaitsOpen', FewerWait
  PROVE  Good
<1>1. procs \in [Slots -> ProcType] /\ forced \in Nat
  BY DEF IInv, AgreeNow, Agree, Typed
<1>2. NamesUnique' /\ KeysValid' /\ StayDown
  BY <1>1, NamesStep, KeysStep, DownStep DEF TabInv
<1>3. Awaited'
  <2> SUFFICES ASSUME forced' = 0, NEW c \in Conns, waiting'[c] # 0
               PROVE  \E i \in Slots : Stopping(procs'[i]) /\ procs'[i].pid = waiting'[c]
    BY DEF Awaited
  <2>1. waiting'[c] = waiting[c] /\ forced = 0
    BY DEF FewerWait, Still
  <2>2. PICK i \in Slots : Stopping(procs[i]) /\ procs[i].pid = waiting[c]
    BY <2>1 DEF TabInv, Awaited
  <2> QED BY <2>1, <2>2 DEF Still
<1>4. QED
  BY <1>2, <1>3 DEF Good, TabInv

\* The common case: no process is touched.
LEMMA CalmTab ==
  ASSUME IInv, TabInv, CalmStep, WaitsOpen', FewerWait
  PROVE  Good
<1>1. procs \in [Slots -> ProcType]
  BY DEF IInv, AgreeNow, Agree, Typed
<1>2. QED
  BY <1>1, CalmStill, KeepTab

\* A reply that does not make the client wait.
LEMMA ReplyTab ==
  ASSUME IInv, TabInv, CalmStep, NEW c \in Conns, may_send(c), reply(c, 0)
  PROVE  Good
<1>1. ConnType /\ WaitsOpen
  BY DEF IInv, TabInv
<1>2. WaitsOpen' /\ \A d \in Conns : waiting'[d] \in {0, waiting[d], 0}
  BY <1>1, ReplyWaits
<1>3. FewerWait
  BY <1>2 DEF FewerWait
<1>4. QED
  BY <1>2, <1>3, CalmTab

\* cmd_stop makes the client wait for a process it has just marked.
LEMMA StopTab ==
  ASSUME IInv, TabInv, NEW c \in Conns, Stop(c)
  PROVE  Good
<1>1. PICK n \in Names, r \in {"0", "ENOENT", "EAGAIN", "ESRCH"}, p \in Pids \cup {0} :
         cmd_stop(n, r, p) /\ reply(c, p)
  BY DEF Stop
<1>2. may_send(c) /\ ConnType /\ WaitsOpen
  BY DEF Stop, IInv, TabInv
<1>3. AllKept /\ (p # 0 => \E i \in Slots : Stopping(procs'[i]) /\ procs'[i].pid = p)
  BY <1>1, StopTable
<1>4. WaitsOpen' /\ \A d \in Conns : waiting'[d] \in {0, waiting[d], p}
  BY <1>1, <1>2, ReplyWaits
<1>5. procs \in [Slots -> ProcType] /\ forced \in Nat
  BY DEF IInv, AgreeNow, Agree, Typed
<1>6. TableStep /\ Still
  BY <1>3, <1>5, CalmStill DEF CalmStep
<1>7. NamesUnique' /\ KeysValid' /\ StayDown
  BY <1>5, <1>6, NamesStep, KeysStep, DownStep DEF TabInv
<1>8. Awaited'
  <2> SUFFICES ASSUME forced' = 0, NEW d \in Conns, waiting'[d] # 0
               PROVE  \E i \in Slots : Stopping(procs'[i]) /\ procs'[i].pid = waiting'[d]
    BY DEF Awaited
  <2>1. CASE waiting'[d] = p
    BY <1>3, <2>1
  <2>2. CASE waiting'[d] = waiting[d]
    <3>1. PICK i \in Slots : Stopping(procs[i]) /\ procs[i].pid = waiting[d]
      BY <1>6, <2>2 DEF TabInv, Awaited, Still
    <3> QED BY <1>6, <2>2, <3>1 DEF Still
  <2> QED BY <1>4, <2>1, <2>2
<1>9. QED
  BY <1>4, <1>7, <1>8 DEF Good, TabInv

\* The other commands, and a client that goes away.
LEMMA ClientTab ==
  ASSUME ForkWorks, IInv, TabInv, NEW c \in Conns, ClientStep(c)
  PROVE  Good
<1>1. CASE Start(c)
  <2>1. PICK n \in Names, fl \in Kinds, r \in StartErrors : cmd_start(n, fl, r) /\ reply(c, 0)
    BY <1>1 DEF Start
  <2>2. CalmStep
    BY <2>1, StartTable
  <2> QED BY <1>1, <2>1, <2>2, ReplyTab DEF Start
<1>2. CASE Stop(c)
  BY <1>2, StopTab
<1>3. CASE Flush(c)
  <2>1. PICK n \in Names, r \in {"0", "ENOENT", "ENODATA"} : cmd_flush(n, r) /\ reply(c, 0)
    BY <1>3 DEF Flush
  <2>2. CalmStep
    BY <2>1, FlushTable DEF CalmStep
  <2> QED BY <1>3, <2>1, <2>2, ReplyTab DEF Flush
<1>4. CASE Remove(c)
  <2>1. PICK n \in Names, r \in {"0", "ENOENT", "EBUSY", "ENODATA"} : cmd_remove(n, r) /\ reply(c, 0)
    BY <1>4 DEF Remove
  <2>2. CalmStep
    BY <2>1, RemoveTable
  <2> QED BY <1>4, <2>1, <2>2, ReplyTab DEF Remove
<1>5. CASE Reboot(c)
  <2>1. PICK m \in Modes, r \in {"0", "EALREADY"} : cmd_reboot(m, r) /\ reply(c, 0)
    BY <1>5 DEF Reboot
  <2>2. procs \in [Slots -> ProcType] /\ UNCHANGED <<leaked, forced>>
    BY <2>1 DEF cmd_reboot, IInv, AgreeNow, Agree, Typed
  <2>3. UNCHANGED procs \/ begin_stop(m, kid, scrpid)
    BY <2>1 DEF cmd_reboot
  <2>4. CalmStep
    BY <2>2, <2>3, SameTable, BeginTable DEF CalmStep
  <2> QED BY <1>5, <2>1, <2>4, ReplyTab DEF Reboot
<1>6. CASE close_conn(c)
  <2>1. UNCHANGED <<procs, leaked, forced>> /\ drop_conn(c)
    BY <1>6 DEF close_conn, tabvars, kernvars
  <2>2. CalmStep
    BY <2>1, SameTable DEF CalmStep
  <2>3. WaitsOpen' /\ FewerWait
    BY <2>1, CloseWaits DEF IInv, TabInv
  <2> QED BY <2>2, <2>3, CalmTab
<1>7. QED
  BY <1>1, <1>2, <1>3, <1>4, <1>5, <1>6 DEF ClientStep

\* The death of a process: if it was told to stop nobody waits for it any more.
LEMMA DiedTab ==
  ASSUME ForkWorks, IInv, TabInv, NEW p \in Pids, find_by_pid(p) # {}, NEW s \in Statuses,
         proc_died(First(find_by_pid(p)), p, s)
  PROVE  Good
<1>1. PICK i \in Slots, r \in ProcType :
         /\ Rewrote(i, r) /\ Alive(procs[i]) /\ procs[i].pid = p
         /\ Stopping(procs[i]) => notify_dead(p)
  BY DiedTable
<1>2. nconns' = nconns /\ (notify_dead(p) \/ UNCHANGED connvars)
  BY DEF proc_died, connvars
<1>3. WaitsOpen' /\ FewerWait /\ (Stopping(procs[i]) => \A c \in Conns : waiting'[c] # p)
  <2>1. ConnType /\ WaitsOpen
    BY DEF IInv, TabInv
  <2>2. CASE notify_dead(p)
    BY <1>2, <2>1, <2>2, NotifyWaits
  <2>3. CASE UNCHANGED connvars /\ ~Stopping(procs[i])
    BY <2>1, <2>3, SameWaits
  <2> QED BY <1>1, <1>2, <2>2, <2>3
<1>4. procs \in [Slots -> ProcType] /\ forced \in Nat
  BY DEF IInv, AgreeNow, Agree, Typed
<1>5. TableStep /\ forced' = forced /\ \A j \in Slots : j # i => procs'[j] = procs[j]
  <2>1. TableStep
    BY <1>1 DEF TableStep
  <2>2. procs' = [procs EXCEPT ![i] = r] /\ forced' = forced
    BY <1>1, Zenon DEF Rewrote
  <2> QED BY <1>4, <2>1, <2>2
<1>6. NamesUnique' /\ KeysValid' /\ StayDown
  BY <1>4, <1>5, NamesStep, KeysStep, DownStep DEF TabInv
<1>7. Awaited'
  <2> SUFFICES ASSUME forced' = 0, NEW c \in Conns, waiting'[c] # 0
               PROVE  \E j \in Slots : Stopping(procs'[j]) /\ procs'[j].pid = waiting'[c]
    BY DEF Awaited
  <2>1. waiting'[c] = waiting[c] /\ forced = 0
    BY <1>3, <1>5 DEF FewerWait
  <2>2. PICK j \in Slots : Stopping(procs[j]) /\ procs[j].pid = waiting[c]
    BY <2>1 DEF TabInv, Awaited
  <2>3. j # i
    BY <1>1, <1>3, <2>1, <2>2
  <2> QED BY <1>5, <2>1, <2>2, <2>3
<1>8. QED
  BY <1>3, <1>6, <1>7 DEF Good, TabInv

\* force_shutdown: who waits is not told, and the count of the given up says so.
LEMMA ForceTab ==
  ASSUME IInv, TabInv, force_shutdown
  PROVE  Good
<1>1. procs \in [Slots -> ProcType] /\ forced \in Nat /\ UNCHANGED connvars
  BY DEF IInv, AgreeNow, Agree, Typed, force_shutdown
<1>2. TableStep /\ Still
  BY <1>1, ForceTable, ForgotStill
<1>3. WaitsOpen' /\ FewerWait
  BY <1>1, SameWaits DEF TabInv
<1>4. QED
  BY <1>2, <1>3, KeepTab

\* A step that marks or touches entries and leaves the connections alone.
LEMMA QuietTab ==
  ASSUME IInv, TabInv, AllKept, UNCHANGED connvars
  PROVE  Good
<1>1. CalmStep /\ WaitsOpen' /\ FewerWait
  BY SameWaits DEF CalmStep, TabInv
<1>2. QED
  BY <1>1, CalmTab

LEMMA ReapTab ==
  ASSUME ForkWorks, IInv, TabInv, NEW p \in Pids, reap_one(p)
  PROVE  Good
<1>1. CASE script_exit(p, kid[p].status)
  <2>1. UNCHANGED connvars
    BY <1>1 DEF script_exit
  <2> QED BY <1>1, <2>1, ScriptExitTable, QuietTab
<1>2. CASE find_by_pid(p) # {} /\ proc_died(First(find_by_pid(p)), p, kid[p].status)
  <2>1. kid[p].status \in Statuses
    BY DEF IInv, AgreeNow, Agree, Typed, KidType
  <2> QED BY <1>2, <2>1, DiedTab
<1>3. CASE UNCHANGED <<tabvars, connvars, leaked, forced>>
  BY <1>3, SameTable, QuietTab DEF tabvars
<1>4. QED
  BY <1>1, <1>2, <1>3 DEF reap_one

LEMMA HubTab ==
  ASSUME ForkWorks, IInv, TabInv, HubStep
  PROVE  Good
<1>1. ASSUME UNCHANGED <<tabvars, connvars, leaked, forced>> PROVE Good
  BY <1>1, SameTable, QuietTab DEF tabvars
<1>2. CASE check_children
  BY <1>1, <1>2 DEF check_children
<1>3. CASE \E p \in Pids : reap_one(p)
  BY <1>3, ReapTab
<1>4. CASE reap_done
  BY <1>1, <1>4 DEF reap_done
<1>5. CASE handle_alarm
  BY <1>1, <1>5, ForceTab DEF handle_alarm
<1>6. ASSUME NEW s \in Signals, signal_stop(s) PROVE Good
  <2>1. CASE force_shutdown
    BY <2>1, ForceTab
  <2>2. CASE UNCHANGED <<tabvars, connvars, leaked, forced>>
    BY <1>1, <2>2
  <2>3. CASE /\ begin_stop(IF s = "PWR" THEN "poweroff" ELSE "reboot", kid, scrpid)
             /\ UNCHANGED <<connvars, leaked, forced>>
    <3>1. procs \in [Slots -> ProcType]
      BY DEF IInv, AgreeNow, Agree, Typed
    <3>2. AllKept
      BY <2>3, <3>1, BeginTable
    <3> QED BY <2>3, <3>2, QuietTab
  <2> QED BY <1>6, <2>1, <2>2, <2>3 DEF signal_stop
<1>7. ASSUME NEW i \in Slots, process_proc(i) PROVE Good
  <2>1. AllKept
    BY <1>7, OutputTable
  <2> QED BY <1>7, <2>1, QuietTab DEF process_proc
<1>8. CASE check_socket
  <2>1. CalmStep
    BY <1>8, SameTable DEF check_socket, CalmStep, tabvars, kernvars
  <2>2. WaitsOpen' /\ FewerWait
    BY <1>8, SocketWaits DEF IInv, TabInv
  <2> QED BY <2>1, <2>2, CalmTab
<1>9. QED
  BY <1>2, <1>3, <1>4, <1>5, <1>6, <1>7, <1>8, SMTT(30) DEF HubStep

LEMMA KernelTab ==
  ASSUME IInv, TabInv, KernelStep
  PROVE  Good
<1>1. ASSUME UNCHANGED <<tabvars, connvars, leaked, forced>> PROVE Good
  BY <1>1, SameTable, QuietTab DEF tabvars
<1>2. ASSUME NEW i \in Slots, Tick(i) PROVE Good
  <2>1. AllKept
    BY <1>2, TickTable
  <2> QED BY <1>2, <2>1, QuietTab DEF Tick
<1>3. ASSUME NEW i \in Slots, KidWrites(i) PROVE Good
  BY <1>1, <1>3 DEF KidWrites
<1>4. ASSUME NEW p \in Pids, KidDies(p) \/ OrphanDies(p) \/ Halt(p) PROVE Good
  BY <1>1, <1>4, Zenon DEF KidDies, OrphanDies, Halt, kernvars
<1>5. CASE AlarmFires
  BY <1>1, <1>5 DEF AlarmFires
<1>6. QED
  BY <1>2, <1>3, <1>4, <1>5 DEF KernelStep

\* The invariant is kept by every step, together with IInv.
LEMMA NextTab == ForkWorks /\ IInv /\ TabInv /\ [Next]_vars => Good
<1> SUFFICES ASSUME ForkWorks, IInv, TabInv, [Next]_vars PROVE Good
  OBVIOUS
<1>1. CASE \E c \in Conns : ClientStep(c)
  BY <1>1, ClientTab
<1>2. CASE HubStep
  BY <1>2, HubTab
<1>3. CASE KernelStep
  BY <1>3, KernelTab
<1>4. CASE AllStopped \/ UNCHANGED vars
  BY <1>4, SameTable, QuietTab DEF AllStopped, vars, tabvars, kernvars
<1>5. QED
  BY <1>1, <1>2, <1>3, <1>4 DEF Next

LEMMA InitTab == Init => TabInv
<1> SUFFICES ASSUME Init PROVE TabInv
  OBVIOUS
<1>1. \A i \in Slots : procs[i] = Empty
  BY DEF Init
<1>2. Empty.name = "" /\ Empty.fd # OPEN
  BY DEF Empty, OPEN
<1>3. NamesUnique /\ KeysValid
  BY <1>1, <1>2, Zenon DEF NamesUnique, KeysValid, Init
<1>4. WaitsOpen /\ Awaited
  BY DEF WaitsOpen, Awaited, Init
<1>5. QED
  BY <1>3, <1>4 DEF TabInv

LEMMA TabInductive == ForkWorks /\ Spec => [](IInv /\ TabInv)
<1>1. CASE ~ForkWorks
  BY <1>1
<1>2. CASE ForkWorks
  <2>1. IInv /\ TabInv /\ [Next]_vars => (IInv /\ TabInv)'
    BY <1>2, NextIInv, NextTab DEF Good
  <2>2. Init => IInv /\ TabInv
    BY InitIInv, InitTab
  <2>3. QED
    BY <2>1, <2>2, PTL DEF Spec
<1>3. QED
  BY <1>1, <1>2

\* As long as fork() does not fail, start_proc never makes a second entry of the
\* same name, even though slots are wiped and reused in any order.
THEOREM NamesCorrect == ForkWorks /\ Spec => []NamesUnique
  BY TabInductive, PTL DEF TabInv

\* As long as fork() does not fail and the shutdown is not forced, every epoll
\* key belongs to the entry it was made for, and an unused slot holds no pipe.
THEOREM KeysCorrect == ForkWorks /\ Spec => []KeysValid
  BY TabInductive, PTL DEF TabInv

\* As long as fork() does not fail, no wakeup of a client that stopped a service
\* is lost: until it is told, or the shutdown is forced, the entry has the
\* process and the mark that makes proc_died notify.
THEOREM WaitCorrect == ForkWorks /\ Spec => []StopWait
<1>1. TabInv => StopWait
  BY DEF TabInv, StopWait, WaitsOpen, Awaited, AliveSlots, Stopping
<1>2. QED
  BY <1>1, TabInductive, PTL

\* As long as fork() does not fail, a service that was told to stop is not
\* respawned, nor its entry given another process, by the step that reaps it.
THEOREM DownCorrect == ForkWorks /\ Spec => StoppedStaysDown
<1> DEFINE A == \A i \in Slots :
                  Alive(procs[i]) /\ P_KILLED \in procs[i].flags /\ procs'[i].pid # procs[i].pid
                  => procs'[i].pid = 0
<1>1. CASE ~ForkWorks
  BY <1>1
<1>2. CASE ForkWorks
  <2>1. IInv /\ TabInv /\ [Next]_vars => A
    BY <1>2, NextTab DEF Good, StayDown, Stopping
  <2>2. QED
    BY <1>2, <2>1, TabInductive, PTL DEF Spec, StoppedStaysDown
<1>3. QED
  BY <1>1, <1>2

-----------------------------------------------------------------------------
(* svcctl *)

Packets == Replies \cup {"REP_DIED"}

\* the reply to the first request, and maybe notifications after it
Answered(bx) == bx # <<>> /\ bx[1] \in Replies /\ \A j \in 2..Len(bx) : bx[j] = "REP_DIED"

Notified(bx) == \A j \in 1..Len(bx) : bx[j] = "REP_DIED"

\* What goes together at the two ends of a connection: the client k, the
\* request rq and the packets bx on their way, the slot cn of svchub and the
\* pid w it waits for.
Talk(k, rq, bx, cn, w) ==
  /\ k.at \in {"none", "reply", "died", "gone"}
  /\ k.at = "none" <=> cn.fd # OPEN
  /\ cn.fd # OPEN => cn.pid = 0
  /\ k.at = "none" => rq = "none"
  /\ k.at \in {"none", "gone"} => bx = <<>>
  /\ k.at # "none" => k.name \in Names /\ k.cmd \in Commands
  /\ k.at = "reply" =>
     \/ rq = request(k.cmd) /\ bx = <<>> /\ cn.pid = 0
     \/ /\ rq = "none" /\ Answered(bx)
        /\ bx[1] = "0" /\ request(k.cmd) = "STOP" => Len(bx) > 1 \/ w # 0
  /\ k.at = "died" => rq = "none" /\ Notified(bx) /\ (bx # <<>> \/ w # 0)

ClientType ==
  [at : {"none", "reply", "died", "gone", "confused"}, cmd : Commands \cup {"none"}, name : Names \cup {""}]

CtlType ==
  /\ ConnType
  /\ cl \in [Conns -> ClientType]
  /\ req \in [Conns -> {"none", "START", "SPAWN", "STOP", "REMOVE"}]
  /\ inbox \in [Conns -> Seq(Packets)]

CtlInv ==
  /\ CtlType
  /\ \A c \in Conns : conns[c].fd = OPEN => c \in 1..nconns
  /\ \A c \in Conns : Talk(cl[c], req[c], inbox[c], conns[c], waiting[c])

-----------------------------------------------------------------------------
(* Every step is one of SvcHub *)

\* A request of svcctl is one svchub's clients may send.
LEMMA ConnRefines ==
  ASSUME CtlInv, NEW c \in Conns, check_conn(c)
  PROVE  ClientStep(c)
<1>1. PICK r \in Replies, wait \in Pids \cup {0} : dispatch(c, r, wait) /\ reply(c, wait)
  BY DEF check_conn
<1>2. may_send(c) /\ req[c] # "none"
  BY DEF check_conn
<1>3. cl[c].name \in Names
  BY <1>2 DEF CtlInv, Talk
<1>4. CASE req[c] \in {"START", "SPAWN"} /\ wait = 0
           /\ cmd_start(cl[c].name, IF req[c] = "SPAWN" THEN {P_ONCE} ELSE {}, r)
  <2>1. r \in StartErrors
    BY <1>4, Zenon DEF cmd_start, start_proc, restart_proc, spawn_path, StartErrors
  <2>2. (IF req[c] = "SPAWN" THEN {P_ONCE} ELSE {}) \in Kinds
    BY CtlAssumption DEF CtlAssumption
  <2>3. Start(c)
    BY <1>1, <1>2, <1>3, <1>4, <2>1, <2>2, SMTT(30) DEF Start
  <2> QED BY <2>3 DEF ClientStep
<1>5. CASE cmd_stop(cl[c].name, r, wait)
  <2>1. r \in {"0", "ENOENT", "EAGAIN", "ESRCH"}
    BY <1>5 DEF cmd_stop
  <2>2. Stop(c)
    BY <1>1, <1>2, <1>3, <1>5, <2>1 DEF Stop
  <2> QED BY <2>2 DEF ClientStep
<1>6. CASE cmd_remove(cl[c].name, r) /\ wait = 0
  <2>1. r \in {"0", "ENOENT", "EBUSY", "ENODATA"}
    BY <1>6 DEF cmd_remove
  <2>2. Remove(c)
    BY <1>1, <1>2, <1>3, <1>6, <2>1 DEF Remove
  <2> QED BY <2>2 DEF ClientStep
<1>7. QED
  BY <1>1, <1>4, <1>5, <1>6 DEF dispatch

LEMMA StepRefines == CtlInv /\ [NextCtl]_allvars => [Next]_vars
<1> SUFFICES ASSUME CtlInv, [NextCtl]_allvars PROVE [Next]_vars
  OBVIOUS
<1>1. CASE \E cmd \in Commands, n \in Names : Run_svcctl(cmd, n)
  BY <1>1 DEF Run_svcctl, Next, HubStep
<1>2. ASSUME NEW c \in Conns, check_conn(c) PROVE Next
  BY <1>2, ConnRefines DEF Next
<1>3. ASSUME NEW c \in Conns, recv_reply(c) \/ wait_notification(c) \/ Interrupt(c) PROVE UNCHANGED vars
  BY <1>3 DEF recv_reply, wait_notification, Interrupt
<1>4. ASSUME NEW c \in Conns, hangup(c) PROVE Next
  BY <1>4 DEF hangup, Next, ClientStep
<1>5. ASSUME NEW p \in Pids, reap(p) PROVE Next
  BY <1>5 DEF reap, Next, HubStep
<1>6. CASE SystemStep
  BY <1>6 DEF SystemStep, Next, HubStep, KernelStep
<1>7. CASE UNCHANGED allvars
  BY <1>7 DEF allvars
<1>8. QED
  BY <1>1, <1>2, <1>3, <1>4, <1>5, <1>6, <1>7, SMTT(30) DEF NextCtl

-----------------------------------------------------------------------------
(* The invariant *)

\* The connection of one client is all a step is about.
LEMMA OneTalk ==
  ASSUME CtlInv, CtlType', NEW c \in Conns, c \in 1..nconns', 1..nconns \subseteq 1..nconns',
         Talk(cl'[c], req'[c], inbox'[c], conns'[c], waiting'[c]),
         \A d \in Conns : d # c => /\ cl'[d] = cl[d] /\ req'[d] = req[d] /\ inbox'[d] = inbox[d]
                                   /\ conns'[d] = conns[d] /\ waiting'[d] = waiting[d]
  PROVE  CtlInv'
<1>1. \A d \in Conns : d # c => Talk(cl'[d], req'[d], inbox'[d], conns'[d], waiting'[d])
  BY Zenon DEF CtlInv
<1>2. \A d \in Conns : conns'[d].fd = OPEN => d \in 1..nconns'
  BY Zenon DEF CtlInv
<1>3. QED
  BY <1>1, <1>2 DEF CtlInv

\* No command's request, first or second, is a packet of another kind.
LEMMA Requests ==
  \A cmd : /\ request(cmd) \in {"START", "SPAWN", "STOP"}
           /\ second(cmd) \in {"none", "START", "REMOVE"}
  BY DEF request, second

\* A client that exits has nothing to read any more.
LEMMA ExitTalk ==
  ASSUME CtlInv, NEW c \in Conns, cl[c].at \in {"reply", "died"},
         NEW last \in {"none", "START", "SPAWN", "STOP", "REMOVE"}, exits(c, last), UNCHANGED vars
  PROVE  CtlInv'
<1> DEFINE k == [cl[c] EXCEPT !.at = "gone"]
<1>1. /\ cl \in [Conns -> ClientType] /\ cl[c] \in ClientType
      /\ req \in [Conns -> {"none", "START", "SPAWN", "STOP", "REMOVE"}]
      /\ inbox \in [Conns -> Seq(Packets)]
      /\ Talk(cl[c], req[c], inbox[c], conns[c], waiting[c])
      /\ UNCHANGED connvars
  BY DEF CtlInv, CtlType, vars
<1>2. k \in ClientType /\ k.at = "gone" /\ k.name = cl[c].name /\ k.cmd = cl[c].cmd
  BY <1>1, Zenon DEF ClientType
<1>3. /\ cl' = [cl EXCEPT ![c] = k] /\ req' = [req EXCEPT ![c] = last]
      /\ inbox' = [inbox EXCEPT ![c] = <<>>]
  BY <1>1 DEF exits
<1> HIDE DEF k
<1>4. cl'[c] = k /\ req'[c] = last /\ inbox'[c] = <<>>
  BY <1>1, <1>3
<1>5. CtlType'
  <2>1. ConnType'
    BY <1>1 DEF CtlInv, CtlType, ConnType, connvars
  <2> QED BY <1>1, <1>2, <1>3, <2>1 DEF CtlType
<1>6. Talk(cl'[c], req'[c], inbox'[c], conns'[c], waiting'[c])
  BY <1>1, <1>2, <1>4 DEF Talk, connvars
<1>7. \A d \in Conns : d # c => /\ cl'[d] = cl[d] /\ req'[d] = req[d] /\ inbox'[d] = inbox[d]
                                /\ conns'[d] = conns[d] /\ waiting'[d] = waiting[d]
  BY <1>1, <1>3 DEF connvars
<1>8. c \in 1..nconns /\ nconns' = nconns
  BY <1>1 DEF CtlInv, Talk, connvars
<1>9. QED
  BY <1>5, <1>6, <1>7, <1>8, OneTalk

\* The reply to the first request.
LEMMA ReadTalk ==
  ASSUME CtlInv, NEW c \in Conns, recv_reply(c)
  PROVE  CtlInv'
<1> DEFINE bx == inbox[c]
           cmd == cl[c].cmd
<1>1. /\ cl \in [Conns -> ClientType] /\ cl[c] \in ClientType
      /\ req \in [Conns -> {"none", "START", "SPAWN", "STOP", "REMOVE"}]
      /\ inbox \in [Conns -> Seq(Packets)] /\ bx \in Seq(Packets)
      /\ Talk(cl[c], req[c], bx, conns[c], waiting[c])
  BY DEF CtlInv, CtlType
<1>2. cl[c].at = "reply" /\ bx # <<>> /\ UNCHANGED vars
  BY DEF recv_reply
<1>3. /\ req[c] = "none" /\ Answered(bx)
      /\ bx[1] = "0" /\ request(cmd) = "STOP" => Len(bx) > 1 \/ waiting[c] # 0
  BY <1>1, <1>2 DEF Talk
<1>4. Head(bx) = bx[1] /\ Head(bx) # "REP_DIED"
  BY <1>1, <1>2, <1>3 DEF Answered, Replies, StartErrors
<1>5. CASE exits(c, second(cmd)) \/ exits(c, "none")
  BY <1>2, <1>5, ExitTalk, Requests
<1>6. CASE /\ bx[1] = "0" /\ request(cmd) = "STOP"
           /\ cl' = [cl EXCEPT ![c].at = "died"]
           /\ inbox' = [inbox EXCEPT ![c] = Tail(@)]
           /\ UNCHANGED req
  <2> DEFINE k == [cl[c] EXCEPT !.at = "died"]
             t == Tail(bx)
  <2>1. k \in ClientType /\ k.at = "died" /\ k.name = cl[c].name /\ k.cmd = cl[c].cmd
    BY <1>1, Zenon DEF ClientType
  <2>2. t \in Seq(Packets) /\ Notified(t) /\ (Len(bx) > 1 => t # <<>>)
    <3>1. t \in Seq(Packets) /\ Len(t) = Len(bx) - 1 /\ \A j \in 1..Len(t) : t[j] = bx[j + 1]
      BY <1>1, <1>2
    <3>2. Len(bx) \in Nat /\ \A j \in 2..Len(bx) : bx[j] = "REP_DIED"
      BY <1>1, <1>3 DEF Answered
    <3> HIDE DEF t, bx
    <3>3. \A j \in 1..Len(t) : j + 1 \in 2..Len(bx)
      BY <3>1, <3>2
    <3>4. Notified(t)
      BY <3>1, <3>2, <3>3 DEF Notified
    <3>5. Len(bx) > 1 => t # <<>>
      BY <3>1, <3>2
    <3> QED BY <3>1, <3>4, <3>5
  <2>3. /\ cl' = [cl EXCEPT ![c] = k] /\ inbox' = [inbox EXCEPT ![c] = t]
        /\ UNCHANGED <<req, connvars>>
    BY <1>1, <1>2, <1>6 DEF vars
  <2> HIDE DEF k, t, bx
  <2>4. cl'[c] = k /\ inbox'[c] = t
    BY <1>1, <2>3
  <2>5. CtlType'
    <3>1. ConnType'
      BY <2>3 DEF CtlInv, CtlType, ConnType, connvars
    <3> QED BY <1>1, <2>1, <2>2, <2>3, <3>1 DEF CtlType
  <2>6. Talk(cl'[c], req'[c], inbox'[c], conns'[c], waiting'[c])
    BY <1>1, <1>2, <1>3, <1>6, <2>1, <2>2, <2>3, <2>4, Zenon DEF Talk, connvars
  <2>7. \A d \in Conns : d # c => /\ cl'[d] = cl[d] /\ req'[d] = req[d] /\ inbox'[d] = inbox[d]
                                  /\ conns'[d] = conns[d] /\ waiting'[d] = waiting[d]
    BY <1>1, <2>3 DEF connvars
  <2>8. c \in 1..nconns /\ nconns' = nconns
    BY <1>1, <1>2, <2>3 DEF CtlInv, Talk, connvars
  <2> QED BY <2>5, <2>6, <2>7, <2>8, OneTalk, Zenon
<1>7. QED
  BY <1>4, <1>5, <1>6 DEF recv_reply

\* The notification, and a client interrupted.
LEMMA WaitTalk ==
  ASSUME CtlInv, NEW c \in Conns, wait_notification(c)
  PROVE  CtlInv'
<1>1. inbox[c] \in Seq(Packets) /\ Talk(cl[c], req[c], inbox[c], conns[c], waiting[c])
  BY DEF CtlInv, CtlType
<1>2. cl[c].at = "died" /\ inbox[c] # <<>> /\ UNCHANGED vars
  BY DEF wait_notification
<1>3. Head(inbox[c]) = "REP_DIED"
  <2>1. Notified(inbox[c])
    BY <1>1, <1>2, Zenon DEF Talk
  <2>2. inbox[c] \in Seq(Packets) /\ inbox[c] # <<>>
    BY <1>1, <1>2, Zenon
  <2> QED BY <2>1, <2>2 DEF Notified
<1>4. exits(c, second(cl[c].cmd))
  BY <1>3 DEF wait_notification
<1>5. QED
  BY <1>2, <1>4, ExitTalk, Requests

LEMMA InterruptTalk ==
  ASSUME CtlInv, NEW c \in Conns, Interrupt(c)
  PROVE  CtlInv'
<1>1. req[c] \in {"none", "START", "SPAWN", "STOP", "REMOVE"}
  BY DEF CtlInv, CtlType
<1>2. QED
  BY <1>1, ExitTalk DEF Interrupt

\* A new client takes a slot nobody is connected to.
LEMMA RunTalk ==
  ASSUME CtlInv, NEW cmd \in Commands, NEW n \in Names, Run_svcctl(cmd, n)
  PROVE  CtlInv'
<1> DEFINE unused == {c \in 1..nconns : conns[c].fd = CLOSED}
           d == grab_conn_slot
           k == [at |-> "reply", cmd |-> cmd, name |-> n]
<1>1. /\ nconns \in 0..NCONNS /\ NCONNS \in Nat /\ waiting \in [Conns -> Pids \cup {0}]
      /\ conns \in [Conns -> [fd : {OPEN, CLOSED, 0}, pid : Pids \cup {0}]]
  BY Sizes DEF CtlInv, CtlType, ConnType
<1>2. d \in Nat /\ (d \in unused \/ d = nconns + 1)
  <2>1. CASE unused # {}
    <3>1. unused \in SUBSET Nat
      BY <1>1
    <3>2. First(unused) \in unused
      BY <2>1, <3>1, FirstIn
    <3> QED BY <2>1, <3>1, <3>2 DEF grab_conn_slot
  <2>2. CASE unused = {}
    BY <1>1, <2>2 DEF grab_conn_slot
  <2> QED BY <2>1, <2>2
<1>3. /\ conns' = [conns EXCEPT ![d].fd = OPEN] /\ waiting' = waiting
      /\ nconns' = IF d > nconns THEN d ELSE nconns
      /\ d <= NCONNS
      /\ cl' = [cl EXCEPT ![d] = k]
      /\ req' = [req EXCEPT ![d] = request(cmd)]
      /\ inbox' = [inbox EXCEPT ![d] = <<>>]
  BY DEF check_socket, Run_svcctl
<1> HIDE DEF d
<1>4. /\ d \in Conns /\ nconns' \in 0..NCONNS /\ d \in 1..nconns' /\ 1..nconns \subseteq 1..nconns'
  BY <1>1, <1>2, <1>3 DEF Conns
<1>5. conns[d].fd # OPEN
  <2>1. CASE d \in unused
    BY <2>1 DEF OPEN, CLOSED
  <2>2. CASE d = nconns + 1
    <3>1. d \notin 1..nconns
      BY <1>1, <2>2
    <3> QED BY <1>4, <3>1 DEF CtlInv
  <2> QED BY <1>2, <2>1, <2>2
<1>6. conns[d].pid = 0
  BY <1>4, <1>5 DEF CtlInv, Talk
<1>7. k \in ClientType /\ k.at = "reply" /\ k.cmd = cmd /\ k.name = n
  BY Zenon DEF ClientType
<1> HIDE DEF k
<1>8. /\ cl'[d] = k /\ req'[d] = request(cmd) /\ inbox'[d] = <<>>
      /\ conns'[d].fd = OPEN /\ conns'[d].pid = 0
  BY <1>1, <1>3, <1>4, <1>6 DEF CtlInv, CtlType
<1>9. CtlType'
  <2>1. ConnType'
    BY <1>1, <1>3, <1>4 DEF ConnType
  <2>2. request(cmd) \in {"none", "START", "SPAWN", "STOP", "REMOVE"} /\ <<>> \in Seq(Packets)
    BY Requests
  <2> QED BY <1>3, <1>4, <1>7, <2>1, <2>2 DEF CtlInv, CtlType
<1>10. Talk(cl'[d], req'[d], inbox'[d], conns'[d], waiting'[d])
  BY <1>7, <1>8 DEF Talk
<1>11. \A c \in Conns : c # d => /\ cl'[c] = cl[c] /\ req'[c] = req[c] /\ inbox'[c] = inbox[c]
                                 /\ conns'[c] = conns[c] /\ waiting'[c] = waiting[c]
  BY <1>1, <1>3 DEF CtlInv, CtlType
<1>12. QED
  BY <1>4, <1>9, <1>10, <1>11, OneTalk

\* A client that went away leaves its slot as if it had never been there.
LEMMA GoneTalk ==
  ASSUME CtlInv, NEW c \in Conns, c \in 1..nconns, Exited(c), drop_conn(c),
         req' = [req EXCEPT ![c] = "none"], UNCHANGED inbox, cl' = [cl EXCEPT ![c] = NoClient]
  PROVE  CtlInv'
<1>1. /\ cl \in [Conns -> ClientType] /\ NoClient \in ClientType
      /\ req \in [Conns -> {"none", "START", "SPAWN", "STOP", "REMOVE"}]
      /\ inbox \in [Conns -> Seq(Packets)] /\ ConnType
      /\ Talk(cl[c], req[c], inbox[c], conns[c], waiting[c])
  BY Zenon DEF CtlInv, CtlType, NoClient, ClientType
<1>2. /\ conns \in [Conns -> [fd : {OPEN, CLOSED, 0}, pid : Pids \cup {0}]]
      /\ waiting \in [Conns -> Pids \cup {0}] /\ nconns' = nconns
      /\ conns' = [conns EXCEPT ![c] = [fd |-> CLOSED, pid |-> 0]]
      /\ waiting' = [waiting EXCEPT ![c] = 0]
  BY <1>1 DEF ConnType, drop_conn
<1>3. /\ cl'[c] = NoClient /\ req'[c] = "none" /\ inbox'[c] = <<>>
      /\ conns'[c].fd # OPEN /\ conns'[c].pid = 0
  BY <1>1, <1>2 DEF Talk, Exited, OPEN, CLOSED
<1>4. CtlType'
  <2>1. ConnType'
    BY <1>1, <1>2 DEF ConnType, CLOSED
  <2> QED BY <1>1, <2>1 DEF CtlType
<1>5. Talk(cl'[c], req'[c], inbox'[c], conns'[c], waiting'[c])
  <2>1. NoClient.at = "none"
    BY Zenon DEF NoClient
  <2> QED BY <1>3, <2>1 DEF Talk
<1>6. \A d \in Conns : d # c => /\ cl'[d] = cl[d] /\ req'[d] = req[d] /\ inbox'[d] = inbox[d]
                                /\ conns'[d] = conns[d] /\ waiting'[d] = waiting[d]
  BY <1>1, <1>2
<1>7. QED
  BY <1>2, <1>4, <1>5, <1>6, OneTalk

\* Only a STOP that found a process is answered with 0.
LEMMA StopReply ==
  ASSUME NEW n, NEW r, NEW wait, cmd_stop(n, r, wait), r = "0"
  PROVE  wait # 0
  BY DEF cmd_stop, Alive

\* svchub answers the request of a client that waits for it.
LEMMA AnswerTalk ==
  ASSUME CtlInv, NEW c \in Conns, c \in 1..nconns, ~Exited(c), conns[c].fd = OPEN, req[c] # "none",
         NEW r \in Replies, NEW wait \in Pids \cup {0}, nconns' = nconns,
         req[c] = "STOP" /\ r = "0" => wait # 0,
         conns' = (IF wait = 0 THEN conns ELSE [conns EXCEPT ![c].pid = wait]),
         waiting' = (IF wait = 0 THEN waiting ELSE [waiting EXCEPT ![c] = wait]),
         req' = [req EXCEPT ![c] = "none"], inbox' = [inbox EXCEPT ![c] = Append(@, r)], cl' = cl
  PROVE  CtlInv'
<1>1. /\ req \in [Conns -> {"none", "START", "SPAWN", "STOP", "REMOVE"}]
      /\ inbox \in [Conns -> Seq(Packets)] /\ ConnType /\ CtlType
      /\ conns \in [Conns -> [fd : {OPEN, CLOSED, 0}, pid : Pids \cup {0}]]
      /\ waiting \in [Conns -> Pids \cup {0}]
      /\ Talk(cl[c], req[c], inbox[c], conns[c], waiting[c])
  BY DEF CtlInv, CtlType, ConnType
<1>2. cl[c].at = "reply" /\ inbox[c] = <<>> /\ req[c] = request(cl[c].cmd)
  BY <1>1 DEF Talk, Exited
<1>3. /\ Append(<<>>, r) = <<r>> /\ <<r>> \in Seq(Packets) /\ Answered(<<r>>) /\ <<r>>[1] = r
  BY DEF Answered, Packets
<1>4. req'[c] = "none" /\ inbox'[c] = <<r>> /\ conns'[c].fd = OPEN /\ (wait # 0 => waiting'[c] = wait)
  BY <1>1, <1>2, <1>3
<1>5. CtlType'
  <2>1. ConnType'
    BY <1>1 DEF ConnType
  <2>2. inbox' = [inbox EXCEPT ![c] = <<r>>]
    BY <1>2, <1>3
  <2> QED BY <1>1, <1>3, <2>1, <2>2 DEF CtlType
<1>6. Talk(cl'[c], req'[c], inbox'[c], conns'[c], waiting'[c])
  <2>1. r = "0" /\ request(cl[c].cmd) = "STOP" => waiting'[c] # 0
    BY <1>2, <1>4
  <2> QED BY <1>1, <1>2, <1>3, <1>4, <2>1 DEF Talk
<1>7. \A d \in Conns : d # c => /\ cl'[d] = cl[d] /\ req'[d] = req[d] /\ inbox'[d] = inbox[d]
                                /\ conns'[d] = conns[d] /\ waiting'[d] = waiting[d]
  BY <1>1
<1>8. QED
  BY <1>5, <1>6, <1>7, OneTalk

LEMMA ConnTalk ==
  ASSUME CtlInv, NEW c \in Conns, check_conn(c)
  PROVE  CtlInv'
<1>1. PICK r \in Replies, wait \in Pids \cup {0} :
        /\ dispatch(c, r, wait) /\ reply(c, wait)
        /\ inbox' = IF Exited(c) THEN inbox ELSE [inbox EXCEPT ![c] = Append(@, r)]
  BY Zenon DEF check_conn
<1>2. /\ hub = "poll" /\ c <= nconns /\ conns[c].fd = OPEN /\ req[c] # "none"
      /\ req' = [req EXCEPT ![c] = "none"]
      /\ conns'[c].fd = CLOSED <=> Exited(c)
      /\ cl' = IF Exited(c) THEN [cl EXCEPT ![c] = NoClient] ELSE cl
  BY DEF check_conn, may_send
<1>3. /\ c \in 1..nconns
      /\ conns \in [Conns -> [fd : {OPEN, CLOSED, 0}, pid : Pids \cup {0}]]
  BY <1>2, Sizes DEF Conns, CtlInv, CtlType, ConnType
<1>4. CASE drop_conn(c)
  <2>1. Exited(c)
    BY <1>2, <1>3, <1>4 DEF drop_conn
  <2> QED BY <1>1, <1>2, <1>3, <1>4, <2>1, GoneTalk, Zenon
<1>5. CASE /\ conns' = (IF wait = 0 THEN conns ELSE [conns EXCEPT ![c].pid = wait])
           /\ waiting' = (IF wait = 0 THEN waiting ELSE [waiting EXCEPT ![c] = wait])
           /\ nconns' = nconns
  <2>1. ~Exited(c)
    BY <1>2, <1>3, <1>5 DEF OPEN, CLOSED
  <2>2. req[c] = "STOP" /\ r = "0" => wait # 0
    BY <1>1, StopReply DEF dispatch
  <2> QED BY <1>1, <1>2, <1>3, <1>5, <2>1, <2>2, AnswerTalk, Zenon
<1>6. QED
  BY <1>1, <1>4, <1>5 DEF reply

LEMMA HangupTalk ==
  ASSUME CtlInv, NEW c \in Conns, hangup(c)
  PROVE  CtlInv'
<1>1. /\ c \in 1..nconns /\ Exited(c) /\ drop_conn(c) /\ req[c] = "none"
      /\ cl' = [cl EXCEPT ![c] = NoClient] /\ req' = req /\ inbox' = inbox
  BY Sizes DEF hangup, close_conn, Conns, CtlInv, CtlType, ConnType
<1>2. req' = [req EXCEPT ![c] = "none"]
  BY <1>1 DEF CtlInv, CtlType
<1>3. QED
  BY <1>1, <1>2, GoneTalk, Zenon

\* A step of svchub that sends nothing and closes nothing.
LEMMA QuietTalk ==
  ASSUME CtlInv, UNCHANGED <<connvars, ctlvars>>
  PROVE  CtlInv'
<1>1. CtlType'
  BY DEF CtlInv, CtlType, ConnType, connvars, ctlvars
<1>2. QED
  BY <1>1 DEF CtlInv, connvars, ctlvars

\* One more REP_DIED behind the packets a client has not read.
LEMMA OneMore ==
  ASSUME NEW bx \in Seq(Packets), NEW more, more = Append(bx, "REP_DIED")
  PROVE  /\ more \in Seq(Packets) /\ more # <<>> /\ Len(more) = Len(bx) + 1
         /\ Answered(bx) => Answered(more) /\ more[1] = bx[1] /\ Len(more) > 1
         /\ Notified(bx) => Notified(more)
<1>1. /\ more \in Seq(Packets) /\ Len(bx) \in Nat /\ Len(more) = Len(bx) + 1 /\ more # <<>>
      /\ \A j \in 1..Len(bx) : more[j] = bx[j]
      /\ more[Len(bx) + 1] = "REP_DIED"
  BY DEF Packets
<1>2. ASSUME Answered(bx) PROVE Answered(more) /\ more[1] = bx[1] /\ Len(more) > 1
  <2>1. Len(bx) >= 1
    BY <1>1, <1>2 DEF Answered
  <2> QED BY <1>1, <1>2, <2>1 DEF Answered
<1>3. ASSUME Notified(bx) PROVE Notified(more)
  BY <1>1, <1>3 DEF Notified
<1>4. QED
  BY <1>1, <1>2, <1>3

\* proc_died tells the clients that wait for the process; those that are gone,
\* or do not read, are dropped.
LEMMA DeathTalk ==
  ASSUME CtlInv, NEW p \in Pids, notify_dead(p), nconns' = nconns, NEW dropped \in SUBSET told(p),
         \A c \in told(p) : Exited(c) => c \in dropped,
         \A c \in told(p) : conns'[c].fd = CLOSED <=> c \in dropped,
         inbox' = [c \in Conns |-> CASE c \in dropped            -> <<>>
                                      [] c \in told(p) \ dropped -> Append(inbox[c], "REP_DIED")
                                      [] OTHER                   -> inbox[c]],
         cl' = [c \in Conns |-> IF c \in dropped THEN NoClient ELSE cl[c]],
         req' = [c \in Conns |-> IF c \in dropped THEN "none" ELSE req[c]]
  PROVE  CtlInv'
<1>1. /\ cl \in [Conns -> ClientType] /\ NoClient \in ClientType /\ NoClient.at = "none"
      /\ req \in [Conns -> {"none", "START", "SPAWN", "STOP", "REMOVE"}]
      /\ inbox \in [Conns -> Seq(Packets)] /\ ConnType /\ nconns \in 0..NCONNS
      /\ \A c \in Conns : Talk(cl[c], req[c], inbox[c], conns[c], waiting[c])
  BY Zenon DEF CtlInv, CtlType, NoClient, ClientType, ConnType
<1>2. PICK gone \in SUBSET told(p) :
         /\ conns' = [c \in Conns |-> IF c \in gone THEN [fd |-> CLOSED, pid |-> 0] ELSE conns[c]]
         /\ waiting' = [c \in Conns |-> IF c \in told(p) THEN 0 ELSE waiting[c]]
  BY Zenon DEF notify_dead
<1>3. told(p) \subseteq Conns /\ \A c \in told(p) : conns[c].fd = OPEN /\ conns[c].pid # 0
  <2>1. 1..nconns \subseteq Conns
    BY <1>1, Sizes DEF Conns
  <2> QED BY <2>1, Values, Zenon DEF told
<1>4. gone = dropped
  <2>1. ASSUME NEW c \in told(p) PROVE c \in gone <=> c \in dropped
    <3>1. c \in Conns /\ conns[c].fd # CLOSED
      BY <1>3 DEF OPEN, CLOSED
    <3>2. conns'[c].fd = CLOSED <=> c \in gone
      BY <1>2, <3>1
    <3> QED BY <3>2
  <2> QED BY <1>2, <2>1, Zenon
<1>5. ASSUME NEW c \in dropped
      PROVE  /\ cl'[c] = NoClient /\ req'[c] = "none" /\ inbox'[c] = <<>>
             /\ conns'[c].fd # OPEN /\ conns'[c].pid = 0
  <2>1. c \in Conns /\ conns'[c] = [fd |-> CLOSED, pid |-> 0]
    BY <1>2, <1>3, <1>4, <1>5
  <2> QED BY <1>5, <2>1 DEF OPEN, CLOSED
<1>6. ASSUME NEW c \in told(p) \ dropped
      PROVE  /\ cl'[c] = cl[c] /\ req'[c] = req[c] /\ inbox'[c] = Append(inbox[c], "REP_DIED")
             /\ conns'[c] = conns[c] /\ waiting'[c] = 0
  BY <1>2, <1>3, <1>4, <1>6
<1>7. ASSUME NEW c \in Conns \ told(p)
      PROVE  /\ cl'[c] = cl[c] /\ req'[c] = req[c] /\ inbox'[c] = inbox[c]
             /\ conns'[c] = conns[c] /\ waiting'[c] = waiting[c]
  BY <1>2, <1>4, <1>7
<1>8. CtlType'
  <2>1. ConnType'
    BY <1>1, NotifyStep
  <2>2. cl' \in [Conns -> ClientType] /\ req' \in [Conns -> {"none", "START", "SPAWN", "STOP", "REMOVE"}]
    BY <1>1
  <2>3. inbox' \in [Conns -> Seq(Packets)]
    <3>1. ASSUME NEW c \in Conns PROVE inbox'[c] \in Seq(Packets)
      <4>1. CASE c \in dropped
        BY <1>5, <4>1
      <4>2. CASE c \in told(p) \ dropped
        BY <1>1, <1>6, <4>2, OneMore, Zenon
      <4>3. CASE c \notin told(p)
        BY <1>1, <1>7, <3>1, <4>3
      <4> QED BY <4>1, <4>2, <4>3
    <3> QED BY <3>1
  <2> QED BY <2>1, <2>2, <2>3 DEF CtlType
<1>9. ASSUME NEW c \in Conns PROVE Talk(cl'[c], req'[c], inbox'[c], conns'[c], waiting'[c])
  <2>1. CASE c \in dropped
    BY <1>1, <1>5, <2>1, Zenon DEF Talk
  <2>2. CASE c \in told(p) \ dropped
    <3>1. ~Exited(c) /\ conns[c].fd = OPEN /\ conns[c].pid # 0
      BY <1>3, <2>2
    <3>2. Talk(cl[c], req[c], inbox[c], conns[c], waiting[c]) /\ inbox[c] \in Seq(Packets)
      BY <1>1
    <3>3. /\ inbox'[c] # <<>>
          /\ Answered(inbox[c]) => /\ Answered(inbox'[c]) /\ inbox'[c][1] = inbox[c][1]
                                   /\ Len(inbox'[c]) > 1
          /\ Notified(inbox[c]) => Notified(inbox'[c])
      BY <1>6, <2>2, <3>2, OneMore, Zenon
    <3>4. cl[c].at \in {"reply", "died"} /\ req[c] = "none"
      BY <3>1, <3>2 DEF Talk, Exited
    <3>5. /\ cl[c].at = "reply" => Answered(inbox[c])
          /\ cl[c].at = "died" => Notified(inbox[c])
          /\ cl[c].name \in Names /\ cl[c].cmd \in Commands
      BY <3>1, <3>2, <3>4 DEF Talk
    <3>6. cl'[c] = cl[c] /\ req'[c] = "none" /\ conns'[c].fd = OPEN
      BY <1>6, <2>2, <3>1, <3>4, Zenon
    <3> QED BY <3>3, <3>4, <3>5, <3>6 DEF Talk
  <2>3. CASE c \notin told(p)
    BY <1>1, <1>7, <1>9, <2>3
  <2> QED BY <2>1, <2>2, <2>3
<1>10. ASSUME NEW c \in Conns, conns'[c].fd = OPEN PROVE c \in 1..nconns'
  <2>1. conns[c].fd = OPEN
    BY <1>2, <1>10 DEF OPEN, CLOSED
  <2> QED BY <1>10, <2>1 DEF CtlInv
<1>11. QED
  BY <1>8, <1>9, <1>10 DEF CtlInv

LEMMA ReapTalk ==
  ASSUME CtlInv, NEW p \in Pids, reap(p)
  PROVE  CtlInv'
<1> DEFINE i == First(find_by_pid(p))
           stops == p # scrpid /\ find_by_pid(p) # {} /\ death(procs[i], kid[p].status) = "stopped"
           notified == IF stops THEN told(p) ELSE {}
           dropped == {c \in notified : Exited(c) \/ Len(inbox[c]) >= QLEN}
<1>1. /\ reap_one(p)
      /\ \A c \in notified : conns'[c].fd = CLOSED <=> c \in dropped
      /\ inbox' = [c \in Conns |-> CASE c \in dropped            -> <<>>
                                      [] c \in notified \ dropped -> Append(inbox[c], "REP_DIED")
                                      [] OTHER                    -> inbox[c]]
      /\ cl' = [c \in Conns |-> IF c \in dropped THEN NoClient ELSE cl[c]]
      /\ req' = [c \in Conns |-> IF c \in dropped THEN "none" ELSE req[c]]
  BY DEF reap
<1>2. CASE stops
  <2>1. notify_dead(p) /\ nconns' = nconns
    BY <1>1, <1>2 DEF reap_one, proc_died
  <2>2. notified = told(p)
    BY <1>2
  <2>3. dropped \in SUBSET told(p) /\ \A c \in told(p) : Exited(c) => c \in dropped
    BY <2>2
  <2> HIDE DEF dropped, notified, stops
  <2> QED BY <1>1, <2>1, <2>2, <2>3, DeathTalk, Zenon
<1>3. CASE ~stops
  <2>1. UNCHANGED connvars
    <3>1. CASE script_exit(p, kid[p].status)
      BY <3>1, Zenon DEF script_exit
    <3>2. CASE p # scrpid /\ find_by_pid(p) # {} /\ proc_died(First(find_by_pid(p)), p, kid[p].status)
      BY <1>3, <3>2, Zenon DEF proc_died, connvars
    <3>3. CASE UNCHANGED <<hub, topvars, tabvars, connvars, sigs, alarm, pipe, leaked, forced, lost>>
      BY <3>3, Zenon
    <3> QED BY <1>1, <3>1, <3>2, <3>3, Zenon DEF reap_one
  <2>2. dropped = {} /\ notified = {}
    BY <1>3
  <2> HIDE DEF dropped, notified, stops
  <2>3. UNCHANGED ctlvars
    BY <1>1, <2>2 DEF CtlInv, CtlType, ctlvars
  <2> QED BY <2>1, <2>3, QuietTalk
<1>4. QED
  BY <1>2, <1>3

\* Nothing else in the system touches a connection.
LEMMA SystemTalk ==
  ASSUME CtlInv, SystemStep
  PROVE  CtlInv'
<1>1. CASE check_children \/ reap_done \/ AlarmFires
  BY <1>1, QuietTalk DEF SystemStep, check_children, reap_done, AlarmFires
<1>2. CASE handle_alarm
  BY <1>2, QuietTalk DEF SystemStep, handle_alarm, force_shutdown
<1>3. CASE \E i \in Slots : process_proc(i) \/ Tick(i) \/ KidWrites(i)
  BY <1>3, QuietTalk, Zenon DEF SystemStep, process_proc, Tick, KidWrites
<1>4. CASE \E p \in Pids : KidDies(p) \/ Halt(p)
  BY <1>4, QuietTalk, Zenon DEF SystemStep, KidDies, Halt
<1>5. CASE AllStopped
  BY <1>5, QuietTalk DEF SystemStep, AllStopped, vars
<1>6. QED
  BY <1>1, <1>2, <1>3, <1>4, <1>5, SMTT(30) DEF SystemStep

LEMMA NextTalk == CtlInv /\ [NextCtl]_allvars => CtlInv'
<1> SUFFICES ASSUME CtlInv, [NextCtl]_allvars PROVE CtlInv'
  OBVIOUS
<1>1. CASE \E cmd \in Commands, n \in Names : Run_svcctl(cmd, n)
  BY <1>1, RunTalk
<1>2. CASE \E c \in Conns : check_conn(c) \/ hangup(c)
  BY <1>2, ConnTalk, HangupTalk
<1>3. CASE \E c \in Conns : recv_reply(c) \/ wait_notification(c) \/ Interrupt(c)
  BY <1>3, ReadTalk, WaitTalk, InterruptTalk
<1>4. CASE \E p \in Pids : reap(p)
  BY <1>4, ReapTalk
<1>5. CASE SystemStep
  BY <1>5, SystemTalk
<1>6. CASE UNCHANGED allvars
  BY <1>6, QuietTalk DEF allvars, vars
<1>7. QED
  BY <1>1, <1>2, <1>3, <1>4, <1>5, <1>6, SMTT(30) DEF NextCtl

LEMMA InitTalk == InitCtl => CtlInv
<1> SUFFICES ASSUME InitCtl PROVE CtlInv
  OBVIOUS
<1>1. /\ nconns = 0 /\ conns = [c \in Conns |-> [fd |-> 0, pid |-> 0]] /\ waiting = [c \in Conns |-> 0]
      /\ cl = [c \in Conns |-> NoClient] /\ req = [c \in Conns |-> "none"] /\ inbox = [c \in Conns |-> <<>>]
  BY DEF InitCtl, Init
<1>2. NoClient \in ClientType /\ NoClient.at = "none"
  BY DEF NoClient, ClientType
<1>3. OPEN # 0
  BY DEF OPEN
<1>4. ConnType
  BY <1>1, Sizes DEF ConnType
<1>5. CtlType
  <2>1. <<>> \in Seq(Packets)
    OBVIOUS
  <2> QED BY <1>1, <1>2, <1>4, <2>1 DEF CtlType
<1>6. ASSUME NEW c \in Conns
      PROVE  conns[c].fd # OPEN /\ Talk(cl[c], req[c], inbox[c], conns[c], waiting[c])
  BY <1>1, <1>2, <1>3 DEF Talk
<1>7. QED
  BY <1>5, <1>6 DEF CtlInv

LEMMA CtlInductive == SpecCtl => []CtlInv
  BY InitTalk, NextTalk, PTL DEF SpecCtl

-----------------------------------------------------------------------------
(* What follows *)

\* svchub with any svcctl at its socket is the svchub of SvcHub, in which the
\* clients send whatever they like: every theorem about it holds here.
THEOREM CtlImplementsHub == SpecCtl => Spec
<1>1. InitCtl => Init
  BY DEF InitCtl
<1>2. QED
  BY <1>1, StepRefines, CtlInductive, PTL DEF SpecCtl, Spec

\* svcctl never meets a notification where it expects a reply, or a reply where
\* it expects a notification, whatever is interrupted and however many packets
\* the two sides have not read.
THEOREM NeverConfusedCorrect == SpecCtl => []NeverConfused
<1>1. CtlInv => NeverConfused
  BY DEF CtlInv, Talk, NeverConfused
<1>2. QED
  BY <1>1, CtlInductive, PTL

\* As long as fork() does not fail, svcctl in wait_notification has its REP_DIED
\* already, or svchub still has the process it waits for, marked so that its
\* death will be told.
THEOREM WaiterCorrect == ForkWorks /\ SpecCtl => []WaiterCovered
<1>1. CtlInv /\ TabInv => WaiterCovered
  <2> SUFFICES ASSUME CtlInv, TabInv, NEW c \in Conns, cl[c].at = "died", forced = 0, inbox[c] = <<>>
               PROVE  \E i \in AliveSlots : procs[i].pid = conns[c].pid /\ P_KILLED \in procs[i].flags
    BY DEF WaiterCovered
  <2>1. waiting[c] # 0
    BY DEF CtlInv, Talk
  <2>2. conns[c].pid = waiting[c]
    BY <2>1 DEF TabInv, WaitsOpen
  <2>3. PICK i \in Slots : Stopping(procs[i]) /\ procs[i].pid = waiting[c]
    BY <2>1 DEF TabInv, Awaited
  <2> QED BY <2>2, <2>3 DEF AliveSlots, Stopping
<1>2. QED
  BY <1>1, CtlInductive, CtlImplementsHub, TabInductive, PTL

=============================================================================
