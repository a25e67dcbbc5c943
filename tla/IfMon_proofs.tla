---------------------------- MODULE IfMon_proofs ----------------------------
(***************************************************************************)
(* Proofs about IfMon: ifmon runs one script at a time for an interface    *)
(* and knows its pid, polls every connection it has, and never sleeps on a *)
(* mode it has accepted.  First the invariant, and what each step of ifmon *)
(* makes of an entry of the table, of the process table and of the         *)
(* connections; then the steps, one lemma for each action, and the         *)
(* theorems.                                                               *)
(***************************************************************************)
EXTENDS IfMon, FiniteSetTheorems, WellFoundedInduction, TLAPS

(* Types *)

LinkType ==
  [ifi : Ifis \cup {0}, pid : Pids \cup {0}, what : Scripts, flags : SUBSET Flags,
   mode : Modes \cup {None}]

ConnType == [fd : Clients \cup {Nobody}, ifi : Ifis \cup {0}]

KidType == [st : {"none", "run", "zombie"}, ifi : Ifis \cup {0}, what : Scripts, told : BOOLEAN]

Requests == {None, "status", "mode", "idmode", "stop", "kill", "drop", "dhcp_auto", "dhcp_stop", "reconnect"}

ClientType ==
  [at : Active \cup {"off", "gone"}, cmd : Commands \cup {None}, ifi : Ifis \cup {0},
   mode : Modes \cup {None}, req : Requests]

Typed ==
  /\ links \in [1..NLINKS -> LinkType] /\ nlinks \in 0..NLINKS
  /\ conns \in [1..NCONNS -> ConnType] /\ nconns \in 0..NCONNS
  /\ kid \in [Pids -> KidType]
  /\ cl \in [Clients -> ClientType] /\ backlog \subseteq Clients
  /\ ev \in Seq([ifi : Ifis, state : LinkStates])
  /\ ready \subseteq 1..3 + NCONNS /\ polled \subseteq 1..NCONNS

(* The inductive invariant *)

\* no interface has two entries
OneEntry == \A s, t \in Slots(nlinks) : links[s].ifi = links[t].ifi => s = t

\* a process that has not been waited for belongs to the entry of its interface,
\* which is marked as running; `drop` may have cleared the pid there
Owned ==
  \A p \in Pids : kid[p].st # "none" =>
    \E s \in Slots(nlinks) :
      /\ links[s].ifi = kid[p].ifi /\ "RUNNING" \in links[s].flags
      /\ links[s].pid \in {p, 0}

\* and it is the only one of the interface
OneKid == \A p, q \in Pids :
  kid[p].st # "none" /\ kid[q].st # "none" /\ kid[p].ifi = kid[q].ifi => p = q

Kids == OneEntry /\ Owned /\ OneKid /\ RunningTracked

\* A mode that has been accepted waits for the identify script to end, or for
\* check_links.
Due_mode(l) ==
  "NEED_MODE" \in l.flags =>
    /\ "FAILED" \notin l.flags
    /\ IF "RUNNING" \in l.flags THEN l.what = "IDEF" ELSE "MARKED" \in l.flags

ModesDue == \A s \in Slots(nlinks) : Due_mode(links[s])

\* check_links has yet to come to every marked link, once it has begun; outside
\* of a pass there is none
MarkedAhead ==
  /\ at \in 0..nlinks /\ (at # 0 => ready = {})
  /\ ready = {} => \A s \in Slots(nlinks) : "MARKED" \in links[s].flags => at # 0 /\ at <= s

\* a connection with an event was polled
ReadyPolled == \A s \in 1..NCONNS : CONN(s) \in ready => s \in polled

IInv == Typed /\ Kids /\ ModesDue /\ MarkedAhead /\ ReadyPolled /\ ConnsCounted

-----------------------------------------------------------------------------
(* Numbers and sets *)

LEMMA Sizes == NLINKS \in Nat /\ NCONNS \in Nat /\ NPIDS \in Nat /\ NLINKS < NPIDS
  BY IfAssumption DEF IfAssumption

\* A set of natural numbers has a least element.
LEMMA MinIn ==
  ASSUME NEW A \in SUBSET Nat, A # {}
  PROVE  Min(A) \in A /\ \A y \in A : Min(A) <= y
<1> DEFINE R == OpToRel(<, Nat)
<1>1. IsWellFoundedOn(R, Nat)
  BY NatLessThanWellFounded, Zenon
<1> HIDE DEF R
<1>2. PICK x \in A : \A y \in A : ~(<<y, x>> \in R)
  BY <1>1, WFMin, Zenon
<1>3. \A y \in Nat : y < x => <<y, x>> \in R
  <2> SUFFICES ASSUME NEW y \in Nat, y < x PROVE <<y, x>> \in R
    OBVIOUS
  <2> DEFINE yx == <<y, x>>
  <2>1. yx \in Nat \X Nat /\ yx[1] < yx[2]
    OBVIOUS
  <2> HIDE DEF yx
  <2>2. yx \in {st \in Nat \X Nat : st[1] < st[2]}
    BY <2>1
  <2> QED BY <2>2 DEF yx, R, OpToRel
<1>4. \A y \in A : x <= y
  <2>1. \A y \in A : y \in Nat /\ ~(y < x)
    BY <1>2, <1>3, Zenon
  <2> QED BY <2>1
<1>5. QED
  BY <1>4, Zenon DEF Min

\* One with an upper bound has a greatest.
LEMMA MaxIn ==
  ASSUME NEW n \in Nat, NEW A \in SUBSET (0..n), A # {}
  PROVE  Max(A) \in A /\ \A y \in A : y <= Max(A)
<1> DEFINE B == {b \in 0..n : n - b \in A}
<1>1. PICK a \in A : TRUE
  BY Zenon
<1>2. n - a \in B
  BY <1>1
<1>3. B \in SUBSET Nat /\ B # {}
  BY <1>2
<1>4. Min(B) \in B /\ \A b \in B : Min(B) <= b
  BY <1>3, MinIn
<1> DEFINE m == Min(B)
<1>5. m \in 0..n /\ n - m \in A /\ \A b \in B : m <= b
  BY <1>4
<1> HIDE DEF m
<1>6. \A y \in A : y <= n - m
  <2> TAKE y \in A
  <2>1. n - y \in B
    OBVIOUS
  <2>2. m <= n - y
    BY <1>5, <2>1
  <2> QED BY <1>5, <2>2
<1>7. \A y \in A : n - m >= y
  BY <1>5, <1>6
<1>8. QED
  BY <1>5, <1>7, Zenon DEF Max

\* Every process has an entry to itself, so there is always another pid.
LEMMA FreePid ==
  ASSUME Typed, Kids
  PROVE  Min(free_pids) \in Pids /\ kid[Min(free_pids)].st = "none"
<1> DEFINE f == [p \in Pids |-> CHOOSE s \in Slots(nlinks) : links[s].ifi = kid[p].ifi]
<1>1. NLINKS \in Nat /\ NPIDS \in Nat /\ NLINKS < NPIDS /\ nlinks \in 0..NLINKS
  BY Sizes DEF Typed
<1>2. ASSUME \A p \in Pids : kid[p].st # "none" PROVE FALSE
  <2>1. ASSUME NEW p \in Pids PROVE f[p] \in Slots(nlinks) /\ links[f[p]].ifi = kid[p].ifi
    <3>1. \E s \in Slots(nlinks) : links[s].ifi = kid[p].ifi
      BY <1>2 DEF Kids, Owned
    <3> QED BY <3>1
  <2> HIDE DEF f
  <2>2. f \in [Pids -> 1..NLINKS]
    <3>1. Slots(nlinks) \subseteq 1..NLINKS
      BY <1>1 DEF Slots
    <3>2. \A p \in Pids : f[p] \in 1..NLINKS
      BY <2>1, <3>1
    <3> QED BY <3>2 DEF f
  <2>3. /\ IsFiniteSet(1..NLINKS) /\ Cardinality(1..NLINKS) = NLINKS
        /\ IsFiniteSet(Pids) /\ Cardinality(Pids) = NPIDS
    BY <1>1, FS_Interval DEF Pids
  <2>4. PICK p, q \in Pids : p # q /\ f[p] = f[q]
    BY <1>1, <2>2, <2>3, FS_PigeonHole
  <2>5. kid[p].ifi = kid[q].ifi
    BY <2>1, <2>4
  <2> QED BY <1>2, <2>4, <2>5 DEF Kids, OneKid
<1>3. free_pids \in SUBSET Nat /\ free_pids # {}
  BY <1>1, <1>2 DEF free_pids, Pids
<1>4. QED
  BY <1>3, MinIn DEF free_pids

-----------------------------------------------------------------------------
(* Entries *)

LEMMA FlagSet ==
  Flags = {"ENABLED", "CARRIER", "MARKED", "AUTO_DHCP", "RUNNING", "FAILED",
           "NEED_MODE", "NEED_STOP", "NEED_DHCP", "NEED_POKE"}
<1>1. {Need[w] : w \in DOMAIN Need} = {"NEED_MODE", "NEED_STOP", "NEED_DHCP", "NEED_POKE"}
  <2>1. DOMAIN Need = {"MODE", "STOP", "DHCP", "POKE"}
    BY DEF Need
  <2>2. /\ Need["MODE"] = "NEED_MODE" /\ Need["STOP"] = "NEED_STOP"
        /\ Need["DHCP"] = "NEED_DHCP" /\ Need["POKE"] = "NEED_POKE"
    BY DEF Need
  <2> HIDE DEF Need
  <2> QED BY <2>1, <2>2
<1>2. QED
  BY <1>1 DEF Flags

LEMMA Needs ==
  /\ DOMAIN Need = {"MODE", "STOP", "DHCP", "POKE"}
  /\ Need["MODE"] = "NEED_MODE" /\ Need["STOP"] = "NEED_STOP"
  /\ Need["DHCP"] = "NEED_DHCP" /\ Need["POKE"] = "NEED_POKE"
  BY DEF Need

LEMMA RaiseType ==
  ASSUME NEW l \in LinkType, NEW fs \in SUBSET Flags
  PROVE  /\ Raise(l, fs) \in LinkType /\ Raise(l, fs).flags = l.flags \cup fs
         /\ Raise(l, fs).ifi = l.ifi /\ Raise(l, fs).pid = l.pid /\ Raise(l, fs).what = l.what
         /\ Raise(l, fs).mode = l.mode
  BY DEF Raise, LinkType

LEMMA ClearType ==
  ASSUME NEW l \in LinkType, NEW fs
  PROVE  /\ Clear(l, fs) \in LinkType /\ Clear(l, fs).flags = l.flags \ fs
         /\ Clear(l, fs).ifi = l.ifi /\ Clear(l, fs).pid = l.pid /\ Clear(l, fs).what = l.what
         /\ Clear(l, fs).mode = l.mode
  BY DEF Clear, LinkType

LEMMA ModeType ==
  ASSUME NEW l \in LinkType, NEW m \in Modes \cup {None}
  PROVE  /\ [l EXCEPT !.mode = m] \in LinkType /\ [l EXCEPT !.mode = m].flags = l.flags
         /\ [l EXCEPT !.mode = m].ifi = l.ifi /\ [l EXCEPT !.mode = m].pid = l.pid
         /\ [l EXCEPT !.mode = m].what = l.what
  BY DEF LinkType

LEMMA SpawnType ==
  ASSUME NEW l \in LinkType, NEW p \in Pids
  PROVE  /\ spawn(l, p) \in LinkType /\ spawn(l, p).flags = l.flags \cup {"RUNNING"}
         /\ spawn(l, p).ifi = l.ifi /\ spawn(l, p).pid = p /\ spawn(l, p).what = l.what
<1> DEFINE m == [l EXCEPT !.pid = p]
<1>1. m \in LinkType /\ m.flags = l.flags /\ m.ifi = l.ifi /\ m.pid = p /\ m.what = l.what
  BY DEF LinkType
<1> HIDE DEF m
<1>2. {"RUNNING"} \in SUBSET Flags
  BY FlagSet
<1>3. QED
  BY <1>1, <1>2, RaiseType, ZenonT(40) DEF spawn, m

LEMMA CurrentType ==
  ASSUME NEW l \in LinkType, NEW w \in Scripts
  PROVE  /\ set_current_script(l, w) \in LinkType
         /\ set_current_script(l, w).flags = l.flags \ {"RUNNING"}
         /\ set_current_script(l, w).ifi = l.ifi /\ set_current_script(l, w).what = w
<1> DEFINE m == [l EXCEPT !.what = w]
<1>1. m \in LinkType /\ m.flags = l.flags /\ m.ifi = l.ifi /\ m.what = w
  BY DEF LinkType
<1>2. set_current_script(l, w) = Clear(m, {"RUNNING"})
  BY DEF set_current_script
<1> HIDE DEF m
<1>3. QED
  BY <1>1, <1>2, ClearType

\* The process of an entry is left alone, except that its pid may be forgotten.
Calm(l, m) ==
  /\ m \in LinkType /\ m.ifi = l.ifi /\ m.what = l.what /\ m.pid \in {l.pid, 0}
  /\ "RUNNING" \in m.flags <=> "RUNNING" \in l.flags

\* Script p has been started for an entry that had none, or none has.
Tried(l, m, p) ==
  /\ m \in LinkType /\ m.ifi = l.ifi
  /\ m.flags \subseteq l.flags \cup {"RUNNING", "FAILED"}
  /\ "RUNNING" \in l.flags => m = l
  /\ "RUNNING" \in m.flags /\ "RUNNING" \notin l.flags => m.pid = p

\* clear_link_mode forgets the mode and the carrier.
LEMMA ClearModeCalm ==
  ASSUME NEW l \in LinkType
  PROVE  Calm(l, clear_link_mode(l)) /\ clear_link_mode(l).flags = l.flags \ {"CARRIER"}
         /\ clear_link_mode(l).pid = l.pid
<1> DEFINE m == [l EXCEPT !.mode = None]
<1>1. /\ m \in LinkType /\ m.flags = l.flags
      /\ m.ifi = l.ifi /\ m.pid = l.pid /\ m.what = l.what
  BY ModeType
<1>2. clear_link_mode(l) = Clear(m, {"CARRIER"})
  BY DEF clear_link_mode
<1> HIDE DEF m
<1>3. QED
  BY <1>1, <1>2, ClearType DEF Calm

\* One attempt of check_links.
LEMMA AttemptTried ==
  ASSUME NEW l \in LinkType, NEW w \in {"MODE", "STOP", "POKE", "DHCP"}, NEW r, NEW p \in Pids
  PROVE  /\ Tried(l, Attempt(l, w, r, p), p)
         /\ can_run(l, w) => Need[w] \notin Attempt(l, w, r, p).flags
<1> DEFINE m == Clear(l, {Need[w]})
           n == set_current_script(m, w)
<1>1. CASE ~can_run(l, w)
  BY <1>1 DEF Attempt, Tried
<1>2. CASE can_run(l, w)
  <2>1. /\ m \in LinkType /\ m.flags = l.flags \ {Need[w]} /\ m.ifi = l.ifi
    BY ClearType
  <2>2. w \in Scripts /\ Need[w] \notin {"RUNNING", "FAILED", "CARRIER"}
    BY Needs DEF Scripts
  <2>3. "RUNNING" \notin l.flags
    BY <1>2 DEF can_run
  <2> HIDE DEF m
  <2>4. /\ n \in LinkType /\ n.flags = m.flags \ {"RUNNING"} /\ n.ifi = m.ifi
    BY <2>1, <2>2, CurrentType
  <2> HIDE DEF n
  <2>5. /\ spawn(n, p) \in LinkType /\ spawn(n, p).flags = n.flags \cup {"RUNNING"}
        /\ spawn(n, p).ifi = n.ifi /\ spawn(n, p).pid = p
    BY <2>4, SpawnType
  <2>6. /\ Raise(n, {"FAILED"}) \in LinkType /\ Raise(n, {"FAILED"}).flags = n.flags \cup {"FAILED"}
        /\ Raise(n, {"FAILED"}).ifi = n.ifi
    BY <2>4, RaiseType, FlagSet
  <2>7. /\ clear_link_mode(n) \in LinkType /\ clear_link_mode(n).flags = n.flags \ {"CARRIER"}
        /\ clear_link_mode(n).ifi = n.ifi
    BY <2>4, ClearModeCalm, SMTT(20) DEF Calm
  <2>8. Attempt(l, w, r, p) \in {spawn(n, p), n, Raise(n, {"FAILED"}), clear_link_mode(n)}
    <3>1. CASE w = "MODE"
      BY <1>2, <3>1, Zenon DEF Attempt, spawn_mode, m, n
    <3>2. CASE w = "STOP"
      BY <1>2, <3>2, Zenon DEF Attempt, spawn_stop, m, n
    <3>3. CASE w = "POKE"
      BY <1>2, <3>3, Zenon DEF Attempt, spawn_poke, m, n
    <3>4. CASE w = "DHCP"
      BY <1>2, <3>4, Zenon DEF Attempt, spawn_dhcp, m, n
    <3> QED BY <3>1, <3>2, <3>3, <3>4, Zenon
  <2>9. ASSUME NEW k \in {spawn(n, p), n, Raise(n, {"FAILED"}), clear_link_mode(n)}
        PROVE  /\ k \in LinkType /\ k.ifi = l.ifi
               /\ k.flags \subseteq (l.flags \ {Need[w]}) \cup {"RUNNING", "FAILED"}
               /\ "RUNNING" \in k.flags => k.pid = p
    BY <2>1, <2>3, <2>4, <2>5, <2>6, <2>7
  <2> QED BY <2>2, <2>3, <2>8, <2>9 DEF Tried
<1>3. QED
  BY <1>1, <1>2

\* Attempts follow one another.
LEMMA TriedTwice ==
  ASSUME NEW l, NEW m, NEW n, NEW p, Tried(l, m, p), Tried(m, n, p)
  PROVE  Tried(l, n, p)
  BY DEF Tried

-----------------------------------------------------------------------------
(* Processes *)

\* Nothing starts and nothing is waited for.
LEMMA CalmKids ==
  ASSUME Typed, Kids, nlinks' = nlinks, \A s \in Slots(nlinks) : Calm(links[s], links'[s]),
         \A p \in Pids : /\ kid'[p].st = "none" <=> kid[p].st = "none"
                         /\ kid'[p].ifi = kid[p].ifi /\ kid'[p].what = kid[p].what
  PROVE  Kids'
<1>1. OneEntry'
  BY DEF Kids, OneEntry, Calm
<1>2. Owned'
  <2> SUFFICES ASSUME NEW p \in Pids, kid'[p].st # "none"
               PROVE  \E s \in Slots(nlinks) : /\ links'[s].ifi = kid'[p].ifi
                                               /\ "RUNNING" \in links'[s].flags
                                               /\ links'[s].pid \in {p, 0}
    BY DEF Owned
  <2>1. PICK s \in Slots(nlinks) : /\ links[s].ifi = kid[p].ifi /\ "RUNNING" \in links[s].flags
                                   /\ links[s].pid \in {p, 0}
    BY DEF Kids, Owned
  <2> QED BY <2>1 DEF Calm
<1>3. OneKid'
  BY DEF Kids, OneKid
<1>4. RunningTracked'
  <2> SUFFICES ASSUME NEW s \in Slots(nlinks), "RUNNING" \in links'[s].flags, links'[s].pid # 0
               PROVE  /\ kid'[links'[s].pid].st # "none"
                      /\ kid'[links'[s].pid].ifi = links'[s].ifi
                      /\ kid'[links'[s].pid].what = links'[s].what
    BY DEF RunningTracked
  <2>1. /\ links'[s].pid = links[s].pid /\ "RUNNING" \in links[s].flags /\ links[s].pid \in Pids
        /\ links'[s].ifi = links[s].ifi /\ links'[s].what = links[s].what
    BY DEF Calm, LinkType
  <2> QED BY <2>1 DEF Kids, RunningTracked
<1>5. QED
  BY <1>1, <1>2, <1>3, <1>4 DEF Kids

\* Process p starts for slot s, an entry without one or a new entry; or it does
\* not start.
LEMMA SpawnKids ==
  ASSUME Typed, Kids, NEW s \in 1..NLINKS, NEW p \in Pids, NEW m \in LinkType, kid[p].st = "none",
         Slots(nlinks') = Slots(nlinks) \cup {s}, links' = [links EXCEPT ![s] = m],
         s \in Slots(nlinks) => links[s].ifi = m.ifi /\ "RUNNING" \notin links[s].flags,
         s \notin Slots(nlinks) => \A t \in Slots(nlinks) : links[t].ifi # m.ifi,
         "RUNNING" \in m.flags => m.pid = p,
         kid' = IF "RUNNING" \in m.flags THEN Spawned(p, m.ifi, m.what) ELSE kid
  PROVE  Kids'
<1>1. /\ links \in [1..NLINKS -> LinkType] /\ kid \in [Pids -> KidType] /\ nlinks \in 0..NLINKS
      /\ NLINKS \in Nat
  BY Sizes DEF Typed
<1>2. Slots(nlinks) \subseteq 1..NLINKS
  BY <1>1 DEF Slots
<1>3. links'[s] = m /\ \A t \in Slots(nlinks) : t # s => links'[t] = links[t]
  BY <1>1, <1>2
<1>4. \A t \in Slots(nlinks) : links[t].ifi = m.ifi => t = s
  BY DEF Kids, OneEntry
<1>5. \A q \in Pids : kid[q].st # "none" => kid[q].ifi # m.ifi
  BY <1>4 DEF Kids, Owned
<1>6. \A q \in Pids : q # p => kid'[q] = kid[q]
  BY <1>1 DEF Spawned
<1>7. \/ /\ kid'[p].st = "run" /\ kid'[p].ifi = m.ifi /\ kid'[p].what = m.what
         /\ "RUNNING" \in m.flags /\ m.pid = p
      \/ kid'[p] = kid[p] /\ "RUNNING" \notin m.flags
  BY <1>1 DEF Spawned, NoKid
<1>8. OneEntry'
  BY <1>3, <1>4 DEF Kids, OneEntry
<1>9. Owned'
  <2> SUFFICES ASSUME NEW q \in Pids, kid'[q].st # "none"
               PROVE  \E t \in Slots(nlinks') : /\ links'[t].ifi = kid'[q].ifi
                                                /\ "RUNNING" \in links'[t].flags
                                                /\ links'[t].pid \in {q, 0}
    BY DEF Owned
  <2>1. CASE q = p
    BY <1>3, <1>7, <2>1
  <2>2. CASE q # p
    <3>1. kid[q].st # "none" /\ kid'[q] = kid[q] /\ kid[q].ifi # m.ifi
      BY <1>5, <1>6, <2>2
    <3>2. PICK t \in Slots(nlinks) : /\ links[t].ifi = kid[q].ifi /\ "RUNNING" \in links[t].flags
                                     /\ links[t].pid \in {q, 0}
      BY <3>1 DEF Kids, Owned
    <3>3. t # s
      BY <3>1, <3>2
    <3> QED BY <1>3, <3>1, <3>2, <3>3
  <2> QED BY <2>1, <2>2
<1>10. OneKid'
  <2> SUFFICES ASSUME NEW q \in Pids, NEW t \in Pids, kid'[q].st # "none", kid'[t].st # "none",
                      kid'[q].ifi = kid'[t].ifi
               PROVE  q = t
    BY DEF OneKid
  <2>1. CASE q # p /\ t # p
    BY <1>6, <2>1 DEF Kids, OneKid
  <2>2. CASE q = p \/ t = p
    BY <1>5, <1>6, <1>7, <2>2
  <2> QED BY <2>1, <2>2
<1>11. RunningTracked'
  <2> SUFFICES ASSUME NEW t \in Slots(nlinks'), "RUNNING" \in links'[t].flags, links'[t].pid # 0
               PROVE  /\ kid'[links'[t].pid].st # "none"
                      /\ kid'[links'[t].pid].ifi = links'[t].ifi
                      /\ kid'[links'[t].pid].what = links'[t].what
    BY DEF RunningTracked
  <2>1. CASE t = s
    BY <1>3, <1>7, <2>1
  <2>2. CASE t # s
    <3>1. t \in Slots(nlinks) /\ links'[t] = links[t]
      BY <1>3, <2>2
    <3>2. links[t] \in LinkType
      BY <1>1, <1>2, <3>1
    <3>3. links[t].pid \in Pids
      BY <3>1, <3>2 DEF LinkType
    <3>4. /\ kid[links[t].pid].st # "none" /\ kid[links[t].pid].ifi = links[t].ifi
          /\ kid[links[t].pid].what = links[t].what
      BY <3>1 DEF Kids, RunningTracked
    <3>5. links[t].pid # p
      BY <3>4
    <3> QED BY <1>6, <3>1, <3>3, <3>4, <3>5
  <2> QED BY <2>1, <2>2, Zenon
<1>12. QED
  BY <1>8, <1>9, <1>10, <1>11 DEF Kids

\* Process p has been waited for: the entry that names it, if there is one, has
\* no process any more.
LEMMA ReapKids ==
  ASSUME Typed, Kids, NEW p \in Pids, kid' = [kid EXCEPT ![p] = NoKid], nlinks' = nlinks,
         \/ find_link_pid(p) = {} /\ links' = links
         \/ \E s \in find_link_pid(p), m \in LinkType :
              /\ links' = [links EXCEPT ![s] = m]
              /\ m.ifi = links[s].ifi /\ "RUNNING" \notin m.flags
  PROVE  Kids'
<1>1. /\ links \in [1..NLINKS -> LinkType] /\ kid \in [Pids -> KidType] /\ nlinks \in 0..NLINKS
      /\ NLINKS \in Nat
  BY Sizes DEF Typed
<1>2. Slots(nlinks) \subseteq 1..NLINKS
  BY <1>1 DEF Slots
<1>3. \A t \in Slots(nlinks) :
        /\ links'[t].ifi = links[t].ifi
        /\ t \in find_link_pid(p) => "RUNNING" \notin links'[t].flags
        /\ t \notin find_link_pid(p) => links'[t] = links[t]
  <2>1. CASE find_link_pid(p) = {} /\ links' = links
    BY <2>1
  <2>2. ASSUME NEW s \in find_link_pid(p), NEW m \in LinkType, links' = [links EXCEPT ![s] = m],
               m.ifi = links[s].ifi, "RUNNING" \notin m.flags,
               NEW t \in Slots(nlinks)
        PROVE  /\ links'[t].ifi = links[t].ifi
               /\ t \in find_link_pid(p) => "RUNNING" \notin links'[t].flags
               /\ t \notin find_link_pid(p) => links'[t] = links[t]
    <3>1. s \in Slots(nlinks) /\ links[s].pid = p /\ "RUNNING" \in links[s].flags /\ p # 0
      BY Sizes DEF find_link_pid, Pids
    <3>2. t \in find_link_pid(p) => t = s
      BY <3>1 DEF Kids, RunningTracked, OneEntry, find_link_pid
    <3> QED BY <1>1, <1>2, <2>2, <3>1, <3>2
  <2> QED BY <2>1, <2>2
<1>4. \A q \in Pids : q # p => kid'[q] = kid[q]
  BY <1>1
<1>5. kid'[p].st = "none"
  BY <1>1 DEF NoKid
<1>6. OneEntry'
  BY <1>3 DEF Kids, OneEntry
<1>7. Owned'
  <2> SUFFICES ASSUME NEW q \in Pids, kid'[q].st # "none"
               PROVE  \E t \in Slots(nlinks) : /\ links'[t].ifi = kid'[q].ifi
                                               /\ "RUNNING" \in links'[t].flags
                                               /\ links'[t].pid \in {q, 0}
    BY DEF Owned
  <2>1. q # p /\ kid'[q] = kid[q]
    BY <1>4, <1>5
  <2>2. PICK t \in Slots(nlinks) : /\ links[t].ifi = kid[q].ifi /\ "RUNNING" \in links[t].flags
                                   /\ links[t].pid \in {q, 0}
    BY <2>1 DEF Kids, Owned
  <2>3. t \notin find_link_pid(p)
    BY <2>1, <2>2, Sizes DEF find_link_pid, Pids
  <2> QED BY <1>3, <2>1, <2>2, <2>3
<1>8. OneKid'
  BY <1>4, <1>5 DEF Kids, OneKid
<1>9. RunningTracked'
  <2> SUFFICES ASSUME NEW t \in Slots(nlinks), "RUNNING" \in links'[t].flags, links'[t].pid # 0
               PROVE  /\ kid'[links'[t].pid].st # "none"
                      /\ kid'[links'[t].pid].ifi = links'[t].ifi
                      /\ kid'[links'[t].pid].what = links'[t].what
    BY DEF RunningTracked
  <2>1. links'[t] = links[t] /\ t \notin find_link_pid(p)
    BY <1>3
  <2>2. links[t] \in LinkType /\ links[t].pid # p
    BY <1>1, <1>2, <2>1 DEF find_link_pid
  <2>3. links[t].pid \in Pids
    BY <2>1, <2>2 DEF LinkType
  <2> QED BY <1>4, <2>1, <2>2, <2>3 DEF Kids, RunningTracked
<1>10. QED
  BY <1>6, <1>7, <1>8, <1>9 DEF Kids

-----------------------------------------------------------------------------
(* The pass *)

\* NextMarked comes to every marked link.
LEMMA Ahead ==
  ASSUME NEW ls, NEW n \in Nat, NEW k \in Nat
  PROVE  /\ NextMarked(ls, n, k) \in 0..n
         /\ \A s \in Slots(n) : s > k /\ "MARKED" \in ls[s].flags =>
              NextMarked(ls, n, k) # 0 /\ NextMarked(ls, n, k) <= s
<1> DEFINE M == {s \in Slots(n) : s > k /\ "MARKED" \in ls[s].flags}
<1>1. M \subseteq 1..n /\ M \in SUBSET Nat
  BY DEF Slots
<1>2. CASE M = {}
  BY <1>2 DEF NextMarked
<1>3. CASE M # {}
  <2>1. Min(M) \in M /\ \A y \in M : Min(M) <= y
    BY <1>1, <1>3, MinIn
  <2>2. NextMarked(ls, n, k) = Min(M)
    BY <1>3 DEF NextMarked
  <2>3. Min(M) \in 1..n
    BY <1>1, <2>1
  <2> QED BY <2>1, <2>2, <2>3
<1>4. QED
  BY <1>2, <1>3

\* The end of a source, and of the connection slot s.
LEMMA DonePass ==
  ASSUME Typed, ReadyPolled, NEW done, NEW s, Done(done, s), nlinks' \in Nat,
         s \in 1..NCONNS => CONN(s) \in done
  PROVE  /\ MarkedAhead' /\ ReadyPolled'
         /\ ready' \subseteq 1..3 + NCONNS /\ polled' \subseteq 1..NCONNS
<1>1. ready' = ready \ done /\ polled' \subseteq polled
  BY DEF Done
<1>2. ready' \subseteq 1..3 + NCONNS /\ polled' \subseteq 1..NCONNS
  BY <1>1, Zenon DEF Typed
<1>3. MarkedAhead'
  <2>1. CASE ready' = {}
    <3>1. at' = NextMarked(links', nlinks', 0)
      BY <2>1 DEF Done
    <3>2. /\ at' \in 0..nlinks'
          /\ \A t \in Slots(nlinks') : t > 0 /\ "MARKED" \in links'[t].flags => at' # 0 /\ at' <= t
      BY <3>1, Ahead
    <3>3. \A t \in Slots(nlinks') : t > 0
      BY DEF Slots
    <3> QED BY <2>1, <3>2, <3>3 DEF MarkedAhead
  <2>2. CASE ready' # {}
    <3>1. at' = 0
      BY <2>2 DEF Done
    <3> QED BY <2>2, <3>1 DEF MarkedAhead
  <2> QED BY <2>1, <2>2
<1>4. ReadyPolled'
  <2> SUFFICES ASSUME NEW t \in 1..NCONNS, CONN(t) \in ready' PROVE t \in polled'
    BY DEF ReadyPolled, CONN
  <2>1. CONN(t) \in ready /\ CONN(t) \notin done /\ t \in polled
    BY <1>1 DEF ReadyPolled
  <2>2. polled' = polled \ {s} /\ t # s
    BY <2>1 DEF Done
  <2> QED BY <2>1, <2>2
<1>5. QED
  BY <1>2, <1>3, <1>4

-----------------------------------------------------------------------------
(* Connections *)

SocketInv ==
  /\ conns \in [1..NCONNS -> ConnType] /\ nconns \in 0..NCONNS
  /\ cl \in [Clients -> ClientType]
  /\ ConnsCounted

LEMMA NoClientType == NoClient \in ClientType
  BY DEF NoClient, ClientType, Requests

LEMMA AskType ==
  ASSUME NEW q \in ClientType, NEW r \in Requests
  PROVE  [q EXCEPT !.req = r] \in ClientType
  BY DEF ClientType

LEMMA ClosedType ==
  ASSUME cl \in [Clients -> ClientType], NEW c \in Clients
  PROVE  Closed(c) \in ClientType
<1>1. cl[c] \in ClientType
  OBVIOUS
<1>2. [cl[c] EXCEPT !.req = None] \in ClientType
  BY <1>1, AskType, Zenon DEF Requests
<1>3. QED
  BY <1>2, NoClientType DEF Closed

\* The count after close_conn still covers what is open.
LEMMA CloseCount ==
  ASSUME SocketInv, NEW D
  PROVE  /\ close_conn(D) \in 0..NCONNS
         /\ \A s \in (1..NCONNS) \ D : conns[s].fd # Nobody => s <= close_conn(D)
<1> DEFINE A == {0} \cup {s \in Slots(nconns) \ D : conns[s].fd # Nobody}
<1>1. nconns \in 0..NCONNS /\ NCONNS \in Nat /\ nconns \in Nat
  BY Sizes DEF SocketInv
<1>2. CASE nconns \notin D
  BY <1>1, <1>2 DEF close_conn, SocketInv, ConnsCounted
<1>3. CASE nconns \in D
  <2>1. A \in SUBSET (0..nconns) /\ A # {}
    BY <1>1 DEF Slots
  <2>2. Max(A) \in A /\ \A y \in A : y <= Max(A)
    BY <1>1, <2>1, MaxIn, Zenon
  <2>3. close_conn(D) = Max(A)
    BY <1>3 DEF close_conn
  <2>4. ASSUME NEW s \in (1..NCONNS) \ D, conns[s].fd # Nobody PROVE s \in A
    <3>1. s <= nconns
      BY <2>4 DEF SocketInv, ConnsCounted
    <3> QED BY <1>1, <2>4, <3>1 DEF Slots
  <2>5. Max(A) \in 0..NCONNS
    BY <1>1, <2>1, <2>2
  <2> HIDE DEF A
  <2> QED BY <2>2, <2>3, <2>4, <2>5
<1>4. QED
  BY <1>2, <1>3

LEMMA ReportSockets ==
  ASSUME SocketInv, NEW i, NEW m, send_report(i, m)
  PROVE  SocketInv'
<1> DEFINE D == {s \in report_to(i) : Undeliverable(conns[s].fd)}
           has(c) == \E s \in D : conns[s].fd = c
<1>1. /\ conns' = [s \in DOMAIN conns |->
                     IF s \in D THEN [conns[s] EXCEPT !.fd = Nobody] ELSE conns[s]]
      /\ nconns' = close_conn(D)
      /\ cl' = [c \in Clients |-> IF has(c) THEN Closed(c) ELSE cl[c]]
  BY DEF send_report
<1>2. conns \in [1..NCONNS -> ConnType] /\ cl \in [Clients -> ClientType]
  BY DEF SocketInv
<1>3. /\ close_conn(D) \in 0..NCONNS
      /\ \A s \in (1..NCONNS) \ D : conns[s].fd # Nobody => s <= close_conn(D)
  BY CloseCount
<1> HIDE DEF D
<1>4. ASSUME NEW s \in 1..NCONNS
      PROVE  conns'[s] \in ConnType /\ (conns'[s].fd # Nobody => s \notin D /\ conns[s].fd # Nobody)
  <2>1. conns[s] \in ConnType
    BY <1>2
  <2>2. [conns[s] EXCEPT !.fd = Nobody] \in ConnType /\ [conns[s] EXCEPT !.fd = Nobody].fd = Nobody
    BY <2>1 DEF ConnType
  <2> QED BY <1>1, <1>2, <2>1, <2>2
<1>5. conns' \in [1..NCONNS -> ConnType]
  BY <1>1, <1>2, <1>4
<1>6. cl' \in [Clients -> ClientType]
  <2>1. \A c \in Clients : Closed(c) \in ClientType /\ cl[c] \in ClientType
    BY <1>2, ClosedType
  <2> HIDE DEF has
  <2> QED BY <1>1, <2>1
<1>7. ConnsCounted'
  BY <1>1, <1>3, <1>4, Zenon DEF ConnsCounted
<1>8. QED
  BY <1>1, <1>3, <1>5, <1>6, <1>7 DEF SocketInv

LEMMA ReplySockets ==
  ASSUME SocketInv, NEW s \in 1..NCONNS, conns[s].fd # Nobody, NEW i \in Ifis \cup {0}, NEW code,
         send_reply(s, i, code)
  PROVE  SocketInv'
<1> DEFINE c == conns[s].fd
           lost == Undeliverable(c)
           cn == [fd |-> IF lost THEN Nobody ELSE c, ifi |-> i]
           k == IF lost THEN Closed(c) ELSE [cl[c] EXCEPT !.req = None]
<1>1. /\ conns \in [1..NCONNS -> ConnType] /\ cl \in [Clients -> ClientType]
      /\ nconns \in 0..NCONNS /\ conns[s] \in ConnType
  BY DEF SocketInv
<1>2. c \in Clients
  BY <1>1 DEF ConnType
<1>3. /\ conns' = [conns EXCEPT ![s] = cn] /\ cl' = [cl EXCEPT ![c] = k]
      /\ nconns' = IF lost THEN close_conn({s}) ELSE nconns
  <2>1. cl' = [cl EXCEPT ![c] = IF lost THEN Closed(c) ELSE [@ EXCEPT !.req = None]]
    BY DEF send_reply
  <2>2. cl' = [cl EXCEPT ![c] = k]
    BY <1>1, <1>2, <2>1
  <2> QED BY <2>2 DEF send_reply
<1>4. k \in ClientType
  <2>1. Closed(c) \in ClientType /\ cl[c] \in ClientType
    BY <1>1, <1>2, ClosedType
  <2>2. [cl[c] EXCEPT !.req = None] \in ClientType
    BY <2>1, AskType, Zenon DEF Requests
  <2> QED BY <2>1, <2>2
<1>5. cn \in ConnType /\ (lost => cn.fd = Nobody)
  BY <1>2 DEF ConnType
<1>6. /\ close_conn({s}) \in 0..NCONNS
      /\ \A t \in (1..NCONNS) \ {s} : conns[t].fd # Nobody => t <= close_conn({s})
  BY CloseCount
<1>7. s <= nconns
  BY DEF SocketInv, ConnsCounted
<1> HIDE DEF k, cn, lost, c
<1>8. conns' \in [1..NCONNS -> ConnType] /\ cl' \in [Clients -> ClientType] /\ nconns' \in 0..NCONNS
  BY <1>1, <1>3, <1>4, <1>5, <1>6, Zenon
<1>9. ConnsCounted'
  <2> SUFFICES ASSUME NEW t \in 1..NCONNS, conns'[t].fd # Nobody PROVE t <= nconns'
    BY DEF ConnsCounted
  <2>1. CASE t = s
    <3>1. conns'[t] = cn
      BY <1>1, <1>3, <2>1
    <3> QED BY <1>3, <1>5, <1>7, <2>1, <3>1
  <2>2. CASE t # s
    <3>1. conns'[t] = conns[t]
      BY <1>1, <1>3, <2>2
    <3> QED BY <1>3, <1>6, <2>2, <3>1, Zenon DEF SocketInv, ConnsCounted
  <2> QED BY <2>1, <2>2
<1>10. QED
  BY <1>8, <1>9 DEF SocketInv

-----------------------------------------------------------------------------
(* What commands and events make of an entry *)

\* A change that touches neither the process nor a mode that is due.
Kept(l, m) == Calm(l, m) /\ (Due_mode(l) => Due_mode(m))

\* Flags that decide nothing about processes and modes.
LEMMA FlagsKept ==
  ASSUME NEW l \in LinkType, NEW m \in LinkType, m.ifi = l.ifi, m.what = l.what, m.pid \in {l.pid, 0},
         "RUNNING" \in m.flags <=> "RUNNING" \in l.flags,
         "FAILED" \in m.flags => "FAILED" \in l.flags,
         "MARKED" \in l.flags => "MARKED" \in m.flags,
         "NEED_MODE" \in m.flags =>
           \/ "NEED_MODE" \in l.flags
           \/ /\ "MARKED" \in m.flags /\ "FAILED" \notin m.flags
              /\ "RUNNING" \in l.flags => l.what = "IDEF"
  PROVE  Kept(l, m)
  BY DEF Kept, Calm, Due_mode

LEMMA SetModeKept ==
  ASSUME NEW l \in LinkType, NEW mode \in Modes \cup {None}, "RUNNING" \in l.flags => l.what = "IDEF"
  PROVE  Kept(l, set_mode(l, mode).ls)
<1> DEFINE a == [l EXCEPT !.mode = mode]
           b == Clear(a, {"FAILED"})
           m == Raise(b, {"NEED_MODE", "MARKED"})
<1>1. a \in LinkType /\ a.flags = l.flags /\ a.ifi = l.ifi /\ a.pid = l.pid /\ a.what = l.what
  BY ModeType
<1>2. set_mode(l, mode).ls = m
  BY DEF set_mode, Result
<1> HIDE DEF a
<1>3. /\ b \in LinkType /\ b.flags = a.flags \ {"FAILED"} /\ b.ifi = a.ifi /\ b.pid = a.pid
      /\ b.what = a.what
  BY <1>1, ClearType
<1> HIDE DEF b
<1>4. /\ m \in LinkType /\ m.flags = b.flags \cup {"NEED_MODE", "MARKED"} /\ m.ifi = b.ifi
      /\ m.pid = b.pid /\ m.what = b.what
  BY <1>3, RaiseType, FlagSet
<1> HIDE DEF m
<1>5. QED
  BY <1>1, <1>2, <1>3, <1>4, FlagsKept

LEMMA RefusedKept ==
  ASSUME NEW l \in LinkType, NEW code, NEW kill, NEW mine
  PROVE  Kept(l, Refused(l).ls) /\ Kept(l, Result(l, code, kill, mine).ls)
<1>1. Refused(l).ls = l /\ Result(l, code, kill, mine).ls = l
  BY DEF Refused, Result
<1>2. QED
  BY <1>1 DEF Kept, Calm

LEMMA StopKept ==
  ASSUME NEW l \in LinkType
  PROVE  Kept(l, cmd_stop(l).ls)
<1> DEFINE b == Clear(l, {"FAILED", "AUTO_DHCP", "NEED_MODE"})
           m == Raise(b, {"NEED_STOP", "MARKED"})
<1>1. /\ b \in LinkType /\ b.flags = l.flags \ {"FAILED", "AUTO_DHCP", "NEED_MODE"}
      /\ b.ifi = l.ifi /\ b.pid = l.pid /\ b.what = l.what
  BY ClearType
<1>2. cmd_stop(l).ls \in {m, Refused(l).ls}
  BY DEF cmd_stop, Result
<1> HIDE DEF b
<1>3. /\ m \in LinkType /\ m.flags = b.flags \cup {"NEED_STOP", "MARKED"} /\ m.ifi = b.ifi
      /\ m.pid = b.pid /\ m.what = b.what
  BY <1>1, RaiseType, FlagSet
<1> HIDE DEF m
<1>4. Kept(l, m)
  BY <1>1, <1>3, FlagsKept
<1>5. QED
  BY <1>2, <1>4, RefusedKept

LEMMA DropKept ==
  ASSUME NEW l \in LinkType
  PROVE  Kept(l, cmd_drop(l).ls)
<1> DEFINE a == [l EXCEPT !.pid = 0, !.mode = None]
           m == Clear(a, {"ENABLED", "CARRIER"})
<1>1. a \in LinkType /\ a.flags = l.flags /\ a.ifi = l.ifi /\ a.pid = 0 /\ a.what = l.what
  BY Zenon DEF LinkType
<1>2. cmd_drop(l).ls = m
  BY DEF cmd_drop, Result
<1> HIDE DEF a
<1>3. /\ m \in LinkType /\ m.flags = a.flags \ {"ENABLED", "CARRIER"} /\ m.ifi = a.ifi
      /\ m.pid = a.pid /\ m.what = a.what
  BY <1>1, ClearType
<1> HIDE DEF m
<1>4. QED
  BY <1>1, <1>2, <1>3, FlagsKept

\* carrier_rise and carrier_fall, each or one after the other.
LEMMA CarrierKept ==
  ASSUME NEW l \in LinkType
  PROVE  /\ Kept(l, carrier_rise(l)) /\ Kept(l, carrier_fall(l))
         /\ Kept(l, carrier_rise(carrier_fall(l)))
<1>1. ASSUME NEW k \in LinkType
      PROVE  /\ carrier_rise(k) \in LinkType /\ carrier_rise(k).ifi = k.ifi
             /\ carrier_rise(k).pid = k.pid /\ carrier_rise(k).what = k.what
             /\ k.flags \subseteq carrier_rise(k).flags
             /\ carrier_rise(k).flags \subseteq k.flags \cup {"NEED_DHCP", "MARKED"}
  <2>1. /\ Raise(k, {"NEED_DHCP", "MARKED"}) \in LinkType
        /\ Raise(k, {"NEED_DHCP", "MARKED"}).flags = k.flags \cup {"NEED_DHCP", "MARKED"}
        /\ Raise(k, {"NEED_DHCP", "MARKED"}).ifi = k.ifi /\ Raise(k, {"NEED_DHCP", "MARKED"}).pid = k.pid
        /\ Raise(k, {"NEED_DHCP", "MARKED"}).what = k.what
    BY RaiseType, FlagSet
  <2> QED BY <2>1 DEF carrier_rise
<1>2. /\ carrier_fall(l) \in LinkType /\ carrier_fall(l).flags = l.flags \ {"NEED_DHCP"}
      /\ carrier_fall(l).ifi = l.ifi /\ carrier_fall(l).pid = l.pid /\ carrier_fall(l).what = l.what
  BY ClearType DEF carrier_fall
<1>3. Kept(l, carrier_rise(l))
  BY <1>1, FlagsKept
<1>4. Kept(l, carrier_fall(l))
  BY <1>2, FlagsKept
<1> DEFINE m == carrier_rise(carrier_fall(l))
<1>5. /\ m \in LinkType /\ m.ifi = l.ifi /\ m.pid = l.pid /\ m.what = l.what
      /\ l.flags \ {"NEED_DHCP"} \subseteq m.flags /\ m.flags \subseteq l.flags \cup {"NEED_DHCP", "MARKED"}
  BY <1>1, <1>2
<1> HIDE DEF m
<1>6. Kept(l, m)
  BY <1>5, FlagsKept
<1>7. QED
  BY <1>3, <1>4, <1>6 DEF m

LEMMA AutoKept ==
  ASSUME NEW l \in LinkType
  PROVE  Kept(l, cmd_dhcp_auto(l).ls) /\ Kept(l, cmd_dhcp_stop(l).ls)
<1> DEFINE fs == {"AUTO_DHCP", "MARKED"} \cup (IF "CARRIER" \in l.flags THEN {"NEED_DHCP"} ELSE {})
           m == Raise(l, fs)
           n == Clear(l, {"AUTO_DHCP"})
<1>1. fs \in SUBSET Flags /\ fs \subseteq {"AUTO_DHCP", "MARKED", "NEED_DHCP"}
  BY FlagSet
<1>2. cmd_dhcp_auto(l).ls = m /\ cmd_dhcp_stop(l).ls = n
  BY DEF cmd_dhcp_auto, cmd_dhcp_stop, Result
<1> HIDE DEF fs
<1>3. /\ m \in LinkType /\ m.flags = l.flags \cup fs /\ m.ifi = l.ifi /\ m.pid = l.pid /\ m.what = l.what
  BY <1>1, RaiseType
<1>4. /\ n \in LinkType /\ n.flags = l.flags \ {"AUTO_DHCP"} /\ n.ifi = l.ifi /\ n.pid = l.pid
      /\ n.what = l.what
  BY ClearType
<1> HIDE DEF m, n
<1>5. Kept(l, m)
  BY <1>1, <1>3, FlagsKept
<1>6. Kept(l, n)
  BY <1>4, FlagsKept
<1>7. QED
  BY <1>2, <1>5, <1>6

\* No command touches the process of an entry or loses a mode.
LEMMA DispatchKept ==
  ASSUME NEW l \in LinkType, NEW mode \in Modes \cup {None}, NEW req \in Requests \ {None, "status"}
  PROVE  Kept(l, dispatch(req, l, mode).ls)
<1>1. CASE req = "idmode"
  <2>1. dispatch(req, l, mode) = cmd_idmode(l, mode)
    BY <1>1 DEF dispatch
  <2> QED BY <2>1, SetModeKept, RefusedKept DEF cmd_idmode
<1>2. CASE req = "mode"
  <2>1. dispatch(req, l, mode) = cmd_mode(l, mode)
    BY <1>2 DEF dispatch
  <2> QED BY <2>1, SetModeKept, RefusedKept DEF cmd_mode, is_running
<1>3. CASE req = "stop"
  <2>1. dispatch(req, l, mode) = cmd_stop(l)
    BY <1>3 DEF dispatch
  <2> QED BY <2>1, StopKept
<1>4. CASE req = "kill"
  <2>1. dispatch(req, l, mode) = cmd_kill(l)
    BY <1>4 DEF dispatch
  <2> QED BY <2>1, RefusedKept, Zenon DEF cmd_kill
<1>5. CASE req = "drop"
  <2>1. dispatch(req, l, mode) = cmd_drop(l)
    BY <1>5 DEF dispatch
  <2> QED BY <2>1, DropKept
<1>6. CASE req = "dhcp_auto"
  <2>1. dispatch(req, l, mode) = cmd_dhcp_auto(l)
    BY <1>6 DEF dispatch
  <2> QED BY <2>1, AutoKept
<1>7. CASE req = "dhcp_stop"
  <2>1. dispatch(req, l, mode) = cmd_dhcp_stop(l)
    BY <1>7 DEF dispatch
  <2> QED BY <2>1, AutoKept
<1>8. CASE req = "reconnect"
  <2>1. dispatch(req, l, mode).ls = carrier_rise(carrier_fall(l))
    BY <1>8 DEF dispatch, cmd_reconnect, Result
  <2> QED BY <2>1, CarrierKept
<1>9. QED
  BY <1>1, <1>2, <1>3, <1>4, <1>5, <1>6, <1>7, <1>8 DEF Requests

\* Changes of the flags that follow the state of the interface.
Signalled(l, m) ==
  /\ m \in LinkType /\ m.ifi = l.ifi /\ m.pid = l.pid /\ m.what = l.what
  /\ \A f \in {"RUNNING", "FAILED", "NEED_MODE"} : f \in m.flags <=> f \in l.flags
  /\ "MARKED" \in l.flags => "MARKED" \in m.flags

\* Nor does a change of the interface.
LEMMA ChangedKept ==
  ASSUME NEW l \in LinkType, NEW state
  PROVE  Kept(l, link_state_changed(l, state))
<1> DEFINE fs == (IF Up(state) THEN {"ENABLED"} ELSE {}) \cup (IF Running(state) THEN {"CARRIER"} ELSE {})
           a == Clear(l, {"CARRIER", "ENABLED"})
           n == Raise(a, fs)
           e == IF "ENABLED" \notin l.flags /\ Up(state) THEN Raise(n, {"NEED_POKE", "MARKED"}) ELSE n
           r == IF "CARRIER" \notin l.flags /\ Running(state) THEN carrier_rise(e) ELSE e
           m == IF "CARRIER" \in l.flags /\ ~Running(state) THEN carrier_fall(r) ELSE r
<1>1. link_state_changed(l, state) = m
  BY DEF link_state_changed
<1>2. fs \in SUBSET Flags /\ fs \subseteq {"ENABLED", "CARRIER"}
  BY FlagSet
<1> HIDE DEF fs
<1>3. a \in LinkType /\ Signalled(l, a)
  BY ClearType DEF Signalled
<1> HIDE DEF a
<1>4. Signalled(l, n)
  <2>1. /\ n \in LinkType /\ n.flags = a.flags \cup fs /\ n.ifi = a.ifi /\ n.pid = a.pid /\ n.what = a.what
    BY <1>2, <1>3, RaiseType
  <2> HIDE DEF n
  <2> QED BY <1>2, <1>3, <2>1 DEF Signalled
<1> HIDE DEF n
<1>5. Signalled(l, e)
  <2> DEFINE k == Raise(n, {"NEED_POKE", "MARKED"})
  <2>1. n \in LinkType
    BY <1>4 DEF Signalled
  <2>2. /\ k \in LinkType /\ k.flags = n.flags \cup {"NEED_POKE", "MARKED"}
        /\ k.ifi = n.ifi /\ k.pid = n.pid /\ k.what = n.what
    BY <2>1, RaiseType, FlagSet
  <2> HIDE DEF k
  <2>3. Signalled(l, k)
    BY <1>4, <2>2 DEF Signalled
  <2> QED BY <1>4, <2>3 DEF k
<1> HIDE DEF e
<1>6. Signalled(l, r)
  <2> DEFINE k == Raise(e, {"NEED_DHCP", "MARKED"})
  <2>1. e \in LinkType
    BY <1>5 DEF Signalled
  <2>2. /\ k \in LinkType /\ k.flags = e.flags \cup {"NEED_DHCP", "MARKED"}
        /\ k.ifi = e.ifi /\ k.pid = e.pid /\ k.what = e.what
    BY <2>1, RaiseType, FlagSet
  <2> HIDE DEF k
  <2>3. Signalled(l, k)
    BY <1>5, <2>2 DEF Signalled
  <2> QED BY <1>5, <2>3 DEF carrier_rise, k
<1> HIDE DEF r
<1>7. Signalled(l, m)
  <2> DEFINE k == Clear(r, {"NEED_DHCP"})
  <2>1. r \in LinkType
    BY <1>6 DEF Signalled
  <2>2. /\ k \in LinkType /\ k.flags = r.flags \ {"NEED_DHCP"}
        /\ k.ifi = r.ifi /\ k.pid = r.pid /\ k.what = r.what
    BY <2>1, ClearType
  <2> HIDE DEF k
  <2>3. Signalled(l, k)
    BY <1>6, <2>2 DEF Signalled
  <2> QED BY <1>6, <2>3 DEF carrier_fall, k
<1> HIDE DEF m
<1>8. Kept(l, m)
  BY <1>7, FlagsKept DEF Signalled
<1>9. QED
  BY <1>1, <1>8

\* The exit of a script makes a mode that waited for it due.
LEMMA ExitLink ==
  ASSUME NEW l \in LinkType, "RUNNING" \in l.flags, Due_mode(l), NEW status
  PROVE  /\ script_exit(collected(l), status) \in LinkType
         /\ script_exit(collected(l), status).ifi = l.ifi
         /\ "RUNNING" \notin script_exit(collected(l), status).flags
         /\ Due_mode(script_exit(collected(l), status))
<1> DEFINE a == [l EXCEPT !.pid = 0]
           k == collected(l)
           g == Raise(k, {"FAILED"})
           f == IF k.what = "MODE" /\ status # 0 THEN g ELSE k
           m == Raise(f, {"MARKED"})
           n == clear_link_mode(f)
<1>1. a \in LinkType /\ a.flags = l.flags /\ a.ifi = l.ifi /\ a.what = l.what
  BY DEF LinkType
<1>2. k = Clear(a, {"RUNNING"})
  BY DEF collected
<1> HIDE DEF a
<1>3. k \in LinkType /\ k.flags = l.flags \ {"RUNNING"} /\ k.ifi = l.ifi /\ k.what = l.what
  BY <1>1, <1>2, ClearType
<1>4. script_exit(k, status) = IF k.what = "STOP" THEN n ELSE m
  BY DEF script_exit
<1> HIDE DEF k
<1>5. /\ g \in LinkType /\ g.flags = k.flags \cup {"FAILED"} /\ g.ifi = k.ifi /\ g.what = k.what
  BY <1>3, RaiseType, FlagSet
<1> HIDE DEF g
<1>6. /\ f \in LinkType /\ f.ifi = l.ifi /\ f.what = l.what
      /\ k.flags \subseteq f.flags /\ f.flags \subseteq k.flags \cup {"FAILED"}
      /\ l.what # "MODE" => f.flags = k.flags
  BY <1>3, <1>5
<1> HIDE DEF f
<1>7. m \in LinkType /\ m.flags = f.flags \cup {"MARKED"} /\ m.ifi = f.ifi
  BY <1>6, RaiseType, FlagSet
<1>8. n \in LinkType /\ n.flags = f.flags \ {"CARRIER"} /\ n.ifi = f.ifi
  BY <1>6, ClearModeCalm DEF Calm
<1> HIDE DEF m, n
<1>9. CASE l.what = "STOP"
  <2>1. "NEED_MODE" \notin l.flags
    BY <1>9 DEF Due_mode
  <2>2. "NEED_MODE" \notin n.flags /\ "RUNNING" \notin n.flags
    BY <1>3, <1>6, <1>8, <2>1
  <2> QED BY <1>3, <1>4, <1>6, <1>8, <1>9, <2>2 DEF Due_mode, k
<1>10. CASE l.what # "STOP"
  <2>1. "NEED_MODE" \in m.flags => l.what = "IDEF" /\ "FAILED" \notin l.flags
    BY <1>3, <1>6, <1>7 DEF Due_mode
  <2>2. "RUNNING" \notin m.flags /\ "MARKED" \in m.flags
        /\ ("NEED_MODE" \in m.flags => "FAILED" \notin m.flags)
    BY <1>3, <1>6, <1>7, <2>1
  <2> QED BY <1>3, <1>4, <1>6, <1>7, <1>10, <2>2 DEF Due_mode, k
<1>11. QED
  BY <1>9, <1>10

LEMMA NotDue ==
  ASSUME NEW l, NEW w, NEW r, NEW p, ~can_run(l, w)
  PROVE  Attempt(l, w, r, p) = l
BY DEF Attempt

Attempts(l, r, p) ==
  Attempt(Attempt(Attempt(Attempt(l, "MODE", r, p), "STOP", r, p), "POKE", r, p), "DHCP", r, p)

\* what check_link makes of an entry l, in m, once MARKED is cleared
LinkChecked(l, m, n, p) ==
  /\ n \in LinkType /\ n.ifi = l.ifi /\ n.what = m.what /\ Due_mode(n) /\ "MARKED" \notin n.flags
  /\ "RUNNING" \in n.flags <=> "RUNNING" \in m.flags
  /\ "RUNNING" \in l.flags => Calm(l, n) /\ Due(l) = {}
  /\ "RUNNING" \notin l.flags /\ "RUNNING" \in n.flags => n.pid = p /\ Due(l) # {}

\* check_links at an entry: what all the attempts do, and the mark is gone.
LEMMA CheckLink ==
  ASSUME NEW l \in LinkType, Due_mode(l), NEW r, NEW p \in Pids, NEW m, NEW n,
         m = Attempts(l, r, p),
         n = Clear(m, {"MARKED"})
  PROVE  LinkChecked(l, m, n, p)
<1> DEFINE a == Attempt(l, "MODE", r, p)
           b == Attempt(a, "STOP", r, p)
           c == Attempt(b, "POKE", r, p)
<1>1. Tried(l, a, p) /\ a \in LinkType /\ (can_run(l, "MODE") => "NEED_MODE" \notin a.flags)
  BY AttemptTried, Needs DEF Tried
<1>2. m = Attempt(c, "DHCP", r, p)
  BY DEF Attempts
<1>3. Due(l) = {} => m = l
  <2>1. Due(l) = {} => \A w \in {"MODE", "STOP", "POKE", "DHCP"} : ~can_run(l, w)
    BY Needs DEF Due
  <2>2. \A w \in {"MODE", "STOP", "POKE", "DHCP"} : ~can_run(l, w) => Attempt(l, w, r, p) = l
    BY NotDue
  <2> SUFFICES ASSUME Due(l) = {} PROVE m = l
    OBVIOUS
  <2>3. /\ Attempt(l, "MODE", r, p) = l /\ Attempt(l, "STOP", r, p) = l
        /\ Attempt(l, "POKE", r, p) = l /\ Attempt(l, "DHCP", r, p) = l
    BY <2>1, <2>2
  <2>4. a = l
    BY <2>3
  <2> HIDE DEF a
  <2>5. b = l
    BY <2>3, <2>4
  <2> HIDE DEF b
  <2>6. c = l
    BY <2>3, <2>5
  <2> HIDE DEF c
  <2> QED BY <1>2, <2>3, <2>6
<1> HIDE DEF a
<1>4. Tried(a, b, p) /\ b \in LinkType
  <2>1. Tried(a, b, p)
    BY <1>1, AttemptTried
  <2> QED BY <2>1 DEF Tried
<1> HIDE DEF b
<1>5. Tried(b, c, p) /\ c \in LinkType
  <2>1. Tried(b, c, p)
    BY <1>4, AttemptTried
  <2> QED BY <2>1 DEF Tried
<1> HIDE DEF c
<1>6. Tried(c, m, p) /\ m \in LinkType
  BY <1>2, <1>5, AttemptTried DEF Tried
<1>7. Tried(a, m, p) /\ Tried(l, m, p)
  BY <1>1, <1>4, <1>5, <1>6, TriedTwice
<1>8. /\ n \in LinkType /\ n.flags = m.flags \ {"MARKED"}
      /\ n.ifi = m.ifi /\ n.pid = m.pid /\ n.what = m.what
  BY <1>6, ClearType
<1>9. Due_mode(n)
  <2> SUFFICES ASSUME "NEED_MODE" \in n.flags
               PROVE  "FAILED" \notin n.flags /\ "RUNNING" \in n.flags /\ n.what = "IDEF"
    BY DEF Due_mode
  <2>1. "NEED_MODE" \in a.flags /\ "NEED_MODE" \in l.flags
    BY <1>1, <1>7, <1>8 DEF Tried
  <2>2. "FAILED" \notin l.flags /\ ("RUNNING" \in l.flags => l.what = "IDEF")
    BY <2>1 DEF Due_mode
  <2>3. "RUNNING" \in l.flags
    BY <1>1, <2>1, <2>2, Needs DEF can_run
  <2>4. m = l
    BY <1>7, <2>3 DEF Tried
  <2> QED BY <1>8, <2>2, <2>3, <2>4
<1>10. "RUNNING" \in l.flags => m = l /\ Due(l) = {}
  BY <1>7 DEF Tried, Due, can_run
<1>11. QED
  BY <1>3, <1>7, <1>8, <1>9, <1>10 DEF Tried, Calm, LinkChecked

-----------------------------------------------------------------------------
(* The parts of the invariant *)

LinksInv ==
  /\ links \in [1..NLINKS -> LinkType] /\ nlinks \in 0..NLINKS
  /\ kid \in [Pids -> KidType]
  /\ Kids /\ ModesDue

PassInv ==
  /\ ready \subseteq 1..3 + NCONNS /\ polled \subseteq 1..NCONNS
  /\ MarkedAhead /\ ReadyPolled

QueueInv == backlog \subseteq Clients /\ ev \in Seq([ifi : Ifis, state : LinkStates])

LEMMA Parts == IInv <=> LinksInv /\ PassInv /\ SocketInv /\ QueueInv
BY DEF IInv, Typed, LinksInv, PassInv, SocketInv, QueueInv

LEMMA PartsNext == LinksInv' /\ PassInv' /\ SocketInv' /\ QueueInv' => IInv'
BY DEF IInv, Typed, LinksInv, PassInv, SocketInv, QueueInv

LEMMA SameLinks ==
  ASSUME LinksInv, UNCHANGED <<links, nlinks, kid>>
  PROVE  LinksInv'
BY DEF LinksInv, Kids, OneEntry, Owned, OneKid, RunningTracked, ModesDue, Due_mode, Slots

LEMMA SamePass ==
  ASSUME PassInv, ready # {}, nlinks' = nlinks, UNCHANGED <<polled, ready, at>>
  PROVE  PassInv'
<1>1. at' = at /\ ready' # {} /\ at \in 0..nlinks' /\ (at # 0 => ready' = {})
  BY DEF PassInv, MarkedAhead
<1>2. MarkedAhead'
  BY <1>1 DEF MarkedAhead
<1>3. ReadyPolled'
  BY DEF PassInv, ReadyPolled, CONN
<1>4. QED
  BY <1>2, <1>3 DEF PassInv

LEMMA SameSockets ==
  ASSUME SocketInv, UNCHANGED <<conns, nconns>>, cl' \in [Clients -> ClientType]
  PROVE  SocketInv'
BY DEF SocketInv, ConnsCounted

LEMMA ToldType ==
  ASSUME NEW k \in KidType
  PROVE  LET m == [k EXCEPT !.told = TRUE]
         IN  m \in KidType /\ m.st = k.st /\ m.ifi = k.ifi /\ m.what = k.what
<1> DEFINE m == [k EXCEPT !.told = TRUE]
<1>1. m \in KidType
  BY Zenon DEF KidType
<1>2. m.st = k.st /\ m.ifi = k.ifi /\ m.what = k.what
  BY Zenon DEF KidType
<1>3. QED
  BY <1>1, <1>2

\* A signal changes no more of the process table than who has been told to end.
LEMMA KillKids ==
  ASSUME kid \in [Pids -> KidType], NEW p, sys_kill(p)
  PROVE  /\ kid' \in [Pids -> KidType]
         /\ \A q \in Pids : kid'[q].st = kid[q].st /\ kid'[q].ifi = kid[q].ifi /\ kid'[q].what = kid[q].what
<1> DEFINE k(q) == IF q = p /\ kid[p].st = "run" /\ kid[p].what = "DHCP"
                   THEN [kid[q] EXCEPT !.told = TRUE] ELSE kid[q]
<1>1. kid' = [q \in Pids |-> k(q)]
  BY DEF sys_kill
<1>2. ASSUME NEW q \in Pids
      PROVE  k(q) \in KidType /\ k(q).st = kid[q].st /\ k(q).ifi = kid[q].ifi /\ k(q).what = kid[q].what
  <2>1. kid[q] \in KidType
    OBVIOUS
  <2> QED BY <2>1, ToldType
<1> HIDE DEF k
<1>3. QED
  BY <1>1, <1>2

\* One entry changes, in a way that leaves its process and its mode alone.
LEMMA SlotKept ==
  ASSUME IInv, NEW s \in Slots(nlinks), NEW m, Kept(links[s], m),
         links' = [links EXCEPT ![s] = m], nlinks' = nlinks,
         kid' \in [Pids -> KidType],
         \A p \in Pids : kid'[p].st = kid[p].st /\ kid'[p].ifi = kid[p].ifi /\ kid'[p].what = kid[p].what
  PROVE  LinksInv'
<1>1. /\ Typed /\ Kids /\ links \in [1..NLINKS -> LinkType] /\ s \in 1..NLINKS
      /\ nlinks \in 0..NLINKS /\ Slots(nlinks) \subseteq 1..NLINKS /\ NLINKS \in Nat
  BY Sizes DEF IInv, Typed, Slots
<1>2. m \in LinkType /\ Calm(links[s], m)
  BY DEF Kept, Calm
<1>3. links' \in [1..NLINKS -> LinkType] /\ links'[s] = m /\ \A t \in 1..NLINKS \ {s} : links'[t] = links[t]
  BY <1>1, <1>2
<1>4. ASSUME NEW t \in Slots(nlinks) PROVE Calm(links[t], links'[t])
  <2>1. links[t] \in LinkType
    BY <1>1
  <2> QED BY <1>1, <1>2, <1>3, <2>1 DEF Calm
<1>5. Kids'
  BY <1>1, <1>4, CalmKids
<1>6. ASSUME NEW t \in Slots(nlinks) PROVE Due_mode(links'[t])
  BY <1>1, <1>3 DEF IInv, ModesDue, Kept
<1>7. ModesDue'
  BY <1>6 DEF ModesDue, Slots, Due_mode
<1>8. QED
  BY <1>1, <1>3, <1>5, <1>7 DEF LinksInv

\* The entry that find_link_slot gives.
LEMMA SlotOf ==
  ASSUME IInv, NEW i, find_link_slot(i) # {}
  PROVE  slot_of(i) \in Slots(nlinks) /\ slot_of(i) \in 1..NLINKS /\ links[slot_of(i)].ifi = i
<1>1. find_link_slot(i) \subseteq Slots(nlinks) /\ find_link_slot(i) \in SUBSET Nat
      /\ Slots(nlinks) \subseteq 1..NLINKS
  BY Sizes DEF find_link_slot, Slots, IInv, Typed
<1>2. slot_of(i) \in find_link_slot(i)
  BY <1>1, MinIn DEF slot_of
<1>3. QED
  BY <1>1, <1>2 DEF find_link_slot

-----------------------------------------------------------------------------
(* The steps of ifmon *)

LEMMA PassDone ==
  ASSUME IInv, NEW done, NEW s, Done(done, s), nlinks' \in Nat,
         s \in 1..NCONNS => CONN(s) \in done
  PROVE  PassInv'
BY DonePass DEF IInv, PassInv

LEMMA HandledPass ==
  ASSUME IInv, NEW src, Handled(src), nlinks' \in Nat
  PROVE  PassInv'
<1>1. 0 \notin 1..NCONNS
  BY Sizes
<1>2. Done({src}, 0)
  BY DEF Handled
<1>3. QED
  BY <1>1, <1>2, PassDone

LEMMA PollStep ==
  ASSUME IInv, ppoll
  PROVE  IInv'
<1>1. LinksInv /\ PassInv /\ SocketInv /\ QueueInv
  BY Parts
<1>2. LinksInv'
  BY <1>1, SameLinks DEF ppoll
<1>3. SocketInv'
  BY <1>1, SameSockets DEF ppoll, sockets, SocketInv
<1>4. QueueInv'
  BY <1>1 DEF ppoll, QueueInv, kernel, clients
<1>5. PassInv'
  <2> DEFINE A == {t \in Slots(nconns) : /\ conns[t].fd # Nobody
                                         /\ \/ cl[conns[t].fd].req # None
                                            \/ cl[conns[t].fd].at = "gone"}
             R == (IF ev # <<>> THEN {RTNL} ELSE {})
                    \cup (IF backlog # {} THEN {CTRL} ELSE {})
                    \cup (IF \E p \in Pids : kid[p].st = "zombie" THEN {SIGNALS} ELSE {})
  <2>1. /\ ready' = R \cup {CONN(s) : s \in A} /\ ready' # {} /\ at = 0 /\ at' = at
        /\ polled' = {s \in Slots(nconns) : conns[s].fd # Nobody} /\ nlinks' = nlinks
    BY DEF ppoll
  <2>2. R \subseteq 1..3
    BY DEF RTNL, CTRL, SIGNALS
  <2>3. A \subseteq polled' /\ polled' \subseteq 1..NCONNS /\ NCONNS \in Nat
    BY <1>1, <2>1, Sizes DEF SocketInv, Slots
  <2> HIDE DEF A, R
  <2>4. ready' \subseteq 1..3 + NCONNS
    <3>1. A \subseteq 1..NCONNS /\ \A s \in 1..NCONNS : 3 + s \in 1..3 + NCONNS
      BY <2>3
    <3>2. {CONN(s) : s \in A} \subseteq 1..3 + NCONNS
      BY <3>1 DEF CONN
    <3>3. R \subseteq 1..3 + NCONNS
      BY <2>2, <2>3
    <3> QED BY <2>1, <3>2, <3>3, Zenon
  <2>5. ReadyPolled'
    BY <2>1, <2>2, <2>3 DEF ReadyPolled, CONN
  <2>6. nlinks \in Nat
    BY <1>1, Sizes DEF LinksInv
  <2>7. MarkedAhead'
    BY <2>1, <2>6 DEF MarkedAhead
  <2> QED BY <2>3, <2>4, <2>5, <2>7 DEF PassInv
<1>6. QED
  BY <1>2, <1>3, <1>4, <1>5, PartsNext

\* a slot for the connection is one that is closed, or the one after all
LEMMA GrabSlot ==
  ASSUME SocketInv
  PROVE  /\ grab_conn_slot \in 1..nconns + 1
         /\ grab_conn_slot <= nconns => conns[grab_conn_slot].fd = Nobody
<1> DEFINE F == {s \in Slots(nconns) : conns[s].fd = Nobody}
<1>1. nconns \in Nat
  BY Sizes DEF SocketInv
<1>2. F \in SUBSET Nat /\ F \subseteq 1..nconns
  BY <1>1 DEF Slots
<1>3. CASE F = {}
  <2>1. grab_conn_slot = nconns + 1
    BY <1>3 DEF grab_conn_slot
  <2> QED BY <1>1, <2>1
<1>4. CASE F # {}
  <2>1. grab_conn_slot = Min(F)
    BY <1>4 DEF grab_conn_slot
  <2>2. Min(F) \in F
    BY <1>2, <1>4, MinIn
  <2> QED BY <1>1, <1>2, <2>1, <2>2
<1>5. QED
  BY <1>3, <1>4

LEMMA AcceptStep ==
  ASSUME IInv, NEW c \in Clients, accept_one(c)
  PROVE  IInv'
<1>1. LinksInv /\ PassInv /\ SocketInv /\ QueueInv
  BY Parts
<1>2. LinksInv'
  BY <1>1, SameLinks DEF accept_one
<1>3. QueueInv'
  BY <1>1 DEF accept_one, QueueInv, kernel
<1>4. PassInv'
  <2>1. nlinks' = nlinks /\ nlinks \in Nat /\ ready # {}
    BY <1>1, Sizes DEF accept_one, Turn, LinksInv
  <2>2. Handled(CTRL) \/ UNCHANGED <<polled, ready, at>>
    BY DEF accept_one
  <2> QED BY <1>1, <2>1, <2>2, HandledPass, SamePass
<1>5. SocketInv'
  <2> DEFINE s == grab_conn_slot
  <2>1. s \in 1..nconns + 1 /\ nconns \in Nat /\ NCONNS \in Nat
    BY <1>1, GrabSlot, Sizes DEF SocketInv
  <2>2. CASE s <= NCONNS
    <3>1. conns' = [conns EXCEPT ![s].fd = c] /\ nconns' = Max({nconns, s}) /\ cl' = cl
      BY <2>2 DEF accept_one
    <3> HIDE DEF s
    <3>2. s \in 1..NCONNS /\ conns[s] \in ConnType
      BY <1>1, <2>1, <2>2 DEF SocketInv
    <3>3. [conns[s] EXCEPT !.fd = c] \in ConnType
      BY <3>2 DEF ConnType
    <3>4. conns' \in [1..NCONNS -> ConnType] /\ \A t \in 1..NCONNS \ {s} : conns'[t] = conns[t]
      BY <1>1, <3>1, <3>2, <3>3 DEF SocketInv
    <3>5. {nconns, s} \in SUBSET (0..NCONNS)
      BY <1>1, <3>2 DEF SocketInv
    <3>6. nconns' \in 0..NCONNS /\ nconns <= nconns' /\ s <= nconns'
      BY <2>1, <3>1, <3>5, MaxIn
    <3>7. ConnsCounted'
      BY <1>1, <2>1, <3>2, <3>4, <3>6 DEF ConnsCounted, SocketInv
    <3> QED BY <1>1, <3>1, <3>4, <3>6, <3>7 DEF SocketInv
  <2>3. CASE ~(s <= NCONNS)
    <3>1. cl' = [cl EXCEPT ![c] = Closed(c)] /\ UNCHANGED <<conns, nconns>>
      BY <2>3 DEF accept_one
    <3>2. cl' \in [Clients -> ClientType]
      BY <1>1, <3>1, ClosedType DEF SocketInv
    <3> QED BY <1>1, <3>1, <3>2, SameSockets
  <2> QED BY <2>2, <2>3
<1>6. QED
  BY <1>2, <1>3, <1>4, <1>5, PartsNext

\* The exit of a script frees its entry.
Exited(p, status) ==
  /\ kid' = [kid EXCEPT ![p] = NoKid] /\ nlinks' = nlinks
  /\ IF find_link_pid(p) = {} THEN links' = links
     ELSE LET s == Min(find_link_pid(p))
          IN  links' = [links EXCEPT ![s] = script_exit(collected(links[s]), status)]

LEMMA ReapLinks ==
  ASSUME IInv, NEW p \in Pids, NEW status, Exited(p, status)
  PROVE  LinksInv'
<1>1. /\ LinksInv /\ Typed /\ Kids /\ ModesDue /\ NLINKS \in Nat
      /\ nlinks \in 0..NLINKS /\ Slots(nlinks) \subseteq 1..NLINKS
      /\ links \in [1..NLINKS -> LinkType] /\ kid \in [Pids -> KidType]
  BY Parts, Sizes DEF IInv, Typed, Slots
<1>2. NoKid \in KidType
  BY DEF NoKid, KidType, Scripts
<1>3. kid' \in [Pids -> KidType] /\ kid' = [kid EXCEPT ![p] = NoKid] /\ nlinks' = nlinks
  BY <1>1, <1>2 DEF Exited
<1>4. CASE find_link_pid(p) = {}
  <2>1. links' = links
    BY <1>4 DEF Exited
  <2>2. Kids'
    BY <1>1, <1>3, <1>4, <2>1, ReapKids, Zenon
  <2>3. ModesDue'
    BY <1>1, <1>3, <2>1 DEF ModesDue, Due_mode, Slots
  <2> QED BY <1>1, <1>3, <2>1, <2>2, <2>3 DEF LinksInv
<1>5. CASE find_link_pid(p) # {}
  <2> DEFINE s == Min(find_link_pid(p))
             m == script_exit(collected(links[s]), status)
  <2>1. find_link_pid(p) \in SUBSET Nat
    BY <1>1 DEF find_link_pid, Slots
  <2>2. s \in find_link_pid(p)
    BY <1>5, <2>1, MinIn
  <2>3. links' = [links EXCEPT ![s] = m]
    BY <1>5 DEF Exited
  <2> HIDE DEF s
  <2>4. s \in Slots(nlinks) /\ "RUNNING" \in links[s].flags /\ links[s] \in LinkType /\ s \in 1..NLINKS
    BY <1>1, <2>2 DEF find_link_pid
  <2>5. Due_mode(links[s])
    BY <1>1, <2>4 DEF ModesDue
  <2>6. m \in LinkType /\ m.ifi = links[s].ifi /\ "RUNNING" \notin m.flags /\ Due_mode(m)
    BY <2>4, <2>5, ExitLink
  <2> HIDE DEF m
  <2>7. Kids'
    BY <1>1, <1>3, <2>2, <2>3, <2>6, ReapKids, Zenon
  <2>8. \A t \in Slots(nlinks) : Due_mode(links'[t])
    BY <1>1, <2>3, <2>4, <2>6 DEF ModesDue
  <2>9. ModesDue'
    BY <1>3, <2>8 DEF ModesDue, Slots, Due_mode
  <2>10. links' \in [1..NLINKS -> LinkType]
    BY <1>1, <2>3, <2>6, Zenon
  <2> QED BY <1>1, <1>3, <2>7, <2>9, <2>10 DEF LinksInv
<1>6. QED
  BY <1>4, <1>5

LEMMA ReapStep ==
  ASSUME IInv, NEW p \in Pids, NEW status, reap(p, status)
  PROVE  IInv'
<1>1. LinksInv /\ PassInv /\ SocketInv /\ QueueInv
  BY Parts
<1>2. LinksInv'
  <2>1. Exited(p, status)
    BY DEF reap, Exited
  <2> QED BY <2>1, ReapLinks
<1>3. QueueInv'
  BY <1>1 DEF reap, QueueInv, kernel, clients
<1>4. PassInv'
  <2>1. nlinks' = nlinks /\ nlinks \in Nat /\ ready # {}
    BY <1>1, Sizes DEF reap, Turn, LinksInv
  <2>2. Handled(SIGNALS) \/ UNCHANGED <<polled, ready, at>>
    BY DEF reap
  <2> QED BY <1>1, <2>1, <2>2, HandledPass, SamePass
<1>5. SocketInv'
  <2>1. UNCHANGED sockets \/ \E i, m : send_report(i, m)
    BY DEF reap
  <2>2. ASSUME UNCHANGED sockets PROVE SocketInv'
    BY <1>1, <2>2, SameSockets DEF sockets, SocketInv
  <2> QED BY <1>1, <2>1, <2>2, ReportSockets
<1>6. QED
  BY <1>2, <1>3, <1>4, <1>5, PartsNext

\* check_links at one entry: what becomes of it and of the process table.
Checked(l, m, p) ==
  /\ links' = [links EXCEPT ![at] = Clear(m, {"MARKED"})]
  /\ kid' = IF Due(l) # {} /\ "RUNNING" \in m.flags THEN Spawned(p, l.ifi, m.what) ELSE kid
  /\ nlinks' = nlinks

LEMMA SpawnedType ==
  ASSUME kid \in [Pids -> KidType], NEW p \in Pids, NEW i \in Ifis \cup {0}, NEW w \in Scripts
  PROVE  Spawned(p, i, w) \in [Pids -> KidType]
<1> DEFINE k == [NoKid EXCEPT !.st = "run", !.ifi = i, !.what = w]
<1>1. NoKid \in KidType
  BY DEF NoKid, KidType, Scripts
<1>2. k \in KidType
  <2> DEFINE a == [NoKid EXCEPT !.st = "run"]
             b == [a EXCEPT !.ifi = i]
  <2>1. a \in KidType
    BY <1>1, Zenon DEF KidType
  <2> HIDE DEF a
  <2>2. b \in KidType
    BY <2>1, Zenon DEF KidType
  <2> HIDE DEF b
  <2>3. [b EXCEPT !.what = w] \in KidType
    BY <2>2, Zenon DEF KidType
  <2> QED BY <2>3 DEF a, b
<1> HIDE DEF k
<1>3. Spawned(p, i, w) = [kid EXCEPT ![p] = k]
  BY DEF Spawned, k
<1>4. QED
  BY <1>2, <1>3

LEMMA CheckLinks ==
  ASSUME IInv, at # 0, NEW r, NEW p, p = Min(free_pids), NEW m, Checked(links[at], m, p),
         m = Attempts(links[at], r, p)
  PROVE  LinksInv' /\ \A s \in Slots(nlinks) : IF s = at THEN "MARKED" \notin links'[s].flags ELSE links'[s] = links[s]
<1> DEFINE l == links[at]
           n == Clear(m, {"MARKED"})
<1>1. /\ Typed /\ Kids /\ ModesDue /\ links \in [1..NLINKS -> LinkType] /\ kid \in [Pids -> KidType]
      /\ nlinks \in 0..NLINKS /\ Slots(nlinks) \subseteq 1..NLINKS /\ NLINKS \in Nat
  BY Sizes DEF IInv, Typed, Slots
<1>2. at \in Slots(nlinks) /\ at \in 1..NLINKS
  BY <1>1 DEF IInv, MarkedAhead, Slots
<1>3. l \in LinkType /\ Due_mode(l)
  BY <1>1, <1>2 DEF ModesDue
<1>4. p \in Pids /\ kid[p].st = "none"
  BY <1>1, FreePid
<1>l. m = Attempts(l, r, p) /\ n = Clear(m, {"MARKED"})
  OBVIOUS
<1> HIDE DEF n, l
<1>5. /\ n \in LinkType /\ n.ifi = l.ifi /\ n.what = m.what /\ Due_mode(n) /\ "MARKED" \notin n.flags
      /\ "RUNNING" \in n.flags <=> "RUNNING" \in m.flags
      /\ "RUNNING" \in l.flags => Calm(l, n) /\ Due(l) = {}
      /\ "RUNNING" \notin l.flags /\ "RUNNING" \in n.flags => n.pid = p /\ Due(l) # {}
  <2>1. LinkChecked(l, m, n, p)
    BY <1>3, <1>4, <1>l, CheckLink
  <2> QED BY <2>1 DEF LinkChecked
<1>6. /\ links' = [links EXCEPT ![at] = n] /\ nlinks' = nlinks
      /\ kid' = IF Due(l) # {} /\ "RUNNING" \in n.flags THEN Spawned(p, n.ifi, n.what) ELSE kid
  BY <1>5 DEF Checked, n, l
<1>7. /\ links' \in [1..NLINKS -> LinkType] /\ links'[at] = n
      /\ \A t \in 1..NLINKS \ {at} : links'[t] = links[t]
  BY <1>1, <1>2, <1>5, <1>6
<1>8. kid' \in [Pids -> KidType]
  <2>1. n.ifi \in Ifis \cup {0} /\ n.what \in Scripts
    BY <1>5 DEF LinkType
  <2> QED BY <1>1, <1>4, <1>6, <2>1, SpawnedType, Zenon
<1>9. Kids'
  <2>1. CASE "RUNNING" \in l.flags
    <3>1. kid' = kid /\ Calm(l, n)
      BY <1>5, <1>6, <2>1
    <3>2. ASSUME NEW t \in Slots(nlinks) PROVE Calm(links[t], links'[t])
      <4>1. links[t] \in LinkType
        BY <1>1
      <4> QED BY <1>1, <1>7, <3>1, <4>1 DEF Calm, l
    <3> QED BY <1>1, <1>6, <3>1, <3>2, CalmKids
  <2>2. CASE "RUNNING" \notin l.flags
    <3>1. kid' = IF "RUNNING" \in n.flags THEN Spawned(p, n.ifi, n.what) ELSE kid
      BY <1>5, <1>6, <2>2
    <3>2. Slots(nlinks') = Slots(nlinks) \cup {at}
      BY <1>2, <1>6
    <3>3. links[at].ifi = n.ifi /\ "RUNNING" \notin links[at].flags
      BY <1>5, <2>2 DEF l
    <3>4. "RUNNING" \in n.flags => n.pid = p
      BY <1>5, <2>2
    <3> QED BY <1>1, <1>2, <1>4, <1>5, <1>6, <3>1, <3>2, <3>3, <3>4, SpawnKids, Zenon
  <2> QED BY <2>1, <2>2
<1>10. \A t \in Slots(nlinks) : Due_mode(links'[t])
  BY <1>1, <1>5, <1>7 DEF ModesDue
<1>11. ModesDue'
  BY <1>6, <1>10 DEF ModesDue, Slots, Due_mode
<1>12. LinksInv'
  BY <1>1, <1>6, <1>7, <1>8, <1>9, <1>11 DEF LinksInv
<1>13. QED
  BY <1>1, <1>5, <1>7, <1>12

LEMMA CheckStep ==
  ASSUME IInv, check_links
  PROVE  IInv'
<1>1. LinksInv /\ PassInv /\ SocketInv /\ QueueInv
  BY Parts
<1>2. at # 0 /\ at' = NextMarked(links, nlinks, at) /\ nlinks' = nlinks /\ ready' = ready /\ polled' = polled
  BY DEF check_links
<1>3. PICK p \in {Min(free_pids)}, r \in [Due(links[at]) -> Outcomes] :
        LET l == links[at]
            m == Attempts(l, r, p)
            w == IF can_run(l, "MODE") THEN "MODE" ELSE "STOP"
        IN  /\ Checked(l, m, p)
            /\ IF can_run(l, w) /\ r[w] # "ok"
               THEN send_report(l.ifi, REP(w, w = "MODE" \/ r[w] # "ENOENT"))
               ELSE UNCHANGED sockets
  BY Zenon DEF check_links, Checked, Attempts
<1>4. LinksInv' /\ \A s \in Slots(nlinks) : IF s = at THEN "MARKED" \notin links'[s].flags ELSE links'[s] = links[s]
  <2> DEFINE m == Attempts(links[at], r, p)
  <2>1. Checked(links[at], m, p) /\ p = Min(free_pids)
    BY <1>3
  <2> QED BY <1>2, <2>1, CheckLinks
<1>5. SocketInv'
  <2>1. UNCHANGED sockets \/ \E i, m : send_report(i, m)
    BY <1>3
  <2>2. ASSUME UNCHANGED sockets PROVE SocketInv'
    BY <1>1, <2>2, SameSockets DEF sockets, SocketInv
  <2> QED BY <1>1, <2>1, <2>2, ReportSockets
<1>6. QueueInv'
  BY <1>1 DEF check_links, QueueInv, kernel, clients
<1>7. PassInv'
  <2>1. /\ nlinks \in Nat /\ at \in Nat /\ at \in 0..nlinks /\ ready = {}
        /\ \A s \in Slots(nlinks) : "MARKED" \in links[s].flags => at <= s
    BY <1>1, <1>2, Sizes DEF PassInv, MarkedAhead, LinksInv
  <2>2. /\ at' \in 0..nlinks
        /\ \A s \in Slots(nlinks) : s > at /\ "MARKED" \in links[s].flags => at' # 0 /\ at' <= s
    BY <1>2, <2>1, Ahead
  <2>3. ASSUME NEW s \in Slots(nlinks), "MARKED" \in links'[s].flags
        PROVE  at' # 0 /\ at' <= s
    <3>1. s # at /\ links'[s] = links[s]
      BY <1>4, <2>3
    <3>2. s > at
      BY <2>1, <2>3, <3>1 DEF Slots
    <3> QED BY <2>2, <2>3, <3>1, <3>2
  <2>4. MarkedAhead'
    BY <1>2, <2>1, <2>2, <2>3 DEF MarkedAhead, Slots
  <2>5. ReadyPolled'
    BY <1>1, <1>2 DEF ReadyPolled, PassInv, CONN
  <2> QED BY <1>1, <1>2, <2>4, <2>5 DEF PassInv
<1>8. QED
  BY <1>4, <1>5, <1>6, <1>7, PartsNext

\* The entry of a new interface, and the script that identifies it.
LEMMA IdentifyLink ==
  ASSUME NEW i \in Ifis, NEW fs \in SUBSET {"ENABLED", "CARRIER"}, NEW r, NEW p \in Pids, NEW m,
         m = spawn_identify(Raise([NoLink EXCEPT !.ifi = i], fs), r, p)
  PROVE  /\ m \in LinkType /\ m.ifi = i /\ m.what = "IDEF" /\ Due_mode(m)
         /\ "RUNNING" \in m.flags <=> r = "ok"
         /\ "RUNNING" \in m.flags => m.pid = p
<1> DEFINE z == [NoLink EXCEPT !.ifi = i]
           l == Raise(z, fs)
           k == set_current_script(l, "IDEF")
<1>1. z \in LinkType /\ z.flags = {} /\ z.ifi = i
  BY DEF NoLink, LinkType, Scripts
<1>2. fs \in SUBSET Flags
  BY FlagSet
<1>3. m = IF r = "ok" THEN spawn(k, p) ELSE k
  BY DEF spawn_identify
<1> HIDE DEF z
<1>4. l \in LinkType /\ l.flags = fs /\ l.ifi = i
  <2>1. l \in LinkType /\ l.flags = z.flags \cup fs /\ l.ifi = z.ifi
    BY <1>1, <1>2, RaiseType, Zenon
  <2> HIDE DEF l
  <2> QED BY <1>1, <2>1
<1> HIDE DEF l
<1>5. k \in LinkType /\ k.flags = fs \ {"RUNNING"} /\ k.ifi = i /\ k.what = "IDEF"
  BY <1>4, CurrentType DEF Scripts
<1> HIDE DEF k
<1>6. /\ spawn(k, p) \in LinkType /\ spawn(k, p).flags = k.flags \cup {"RUNNING"}
      /\ spawn(k, p).ifi = k.ifi /\ spawn(k, p).pid = p /\ spawn(k, p).what = k.what
  BY <1>5, SpawnType
<1>7. "NEED_MODE" \notin m.flags
  BY <1>3, <1>5, <1>6
<1>8. QED
  BY <1>3, <1>5, <1>6, <1>7 DEF Due_mode

LEMMA NewLink ==
  ASSUME IInv, NEW i \in Ifis, NEW state, find_link_slot(i) = {}, new_link_notification(i, state)
  PROVE  LinksInv'
<1>1. /\ Typed /\ Kids /\ ModesDue /\ links \in [1..NLINKS -> LinkType] /\ kid \in [Pids -> KidType]
      /\ nlinks \in 0..NLINKS /\ Slots(nlinks) \subseteq 1..NLINKS /\ NLINKS \in Nat /\ LinksInv
  BY Sizes, Parts DEF IInv, Typed, Slots
<1>2. CASE nlinks >= NLINKS
  BY <1>1, <1>2, SameLinks DEF new_link_notification
<1>3. CASE ~(nlinks >= NLINKS)
  <2> DEFINE fs == (IF Up(state) THEN {"ENABLED"} ELSE {})
                     \cup (IF Running(state) THEN {"CARRIER"} ELSE {})
             s == nlinks + 1
  <2>1. PICK p \in {Min(free_pids)}, r \in Outcomes :
          /\ nlinks' = s
          /\ links' = [links EXCEPT ![s] = spawn_identify(Raise([NoLink EXCEPT !.ifi = i], fs), r, p)]
          /\ kid' = IF r = "ok" THEN Spawned(p, i, "IDEF") ELSE kid
    BY <1>3 DEF new_link_notification
  <2> DEFINE m == spawn_identify(Raise([NoLink EXCEPT !.ifi = i], fs), r, p)
  <2>2. p \in Pids /\ kid[p].st = "none"
    BY <1>1, <2>1, FreePid
  <2>3. fs \in SUBSET {"ENABLED", "CARRIER"}
    OBVIOUS
  <2>4. links' = [links EXCEPT ![s] = m] /\ nlinks' = s
    BY <2>1
  <2> HIDE DEF fs
  <2>5. /\ m \in LinkType /\ m.ifi = i /\ m.what = "IDEF" /\ Due_mode(m)
        /\ "RUNNING" \in m.flags <=> r = "ok"
        /\ "RUNNING" \in m.flags => m.pid = p
    BY <2>2, <2>3, IdentifyLink
  <2> HIDE DEF m
  <2>6. s \in 1..NLINKS /\ s \notin Slots(nlinks) /\ Slots(s) = Slots(nlinks) \cup {s}
    BY <1>1, <1>3 DEF Slots
  <2> HIDE DEF s
  <2>7. kid' = IF "RUNNING" \in m.flags THEN Spawned(p, m.ifi, m.what) ELSE kid
    BY <2>1, <2>5
  <2>8. \A t \in Slots(nlinks) : links[t].ifi # m.ifi
    BY <2>5 DEF find_link_slot
  <2>9. Kids'
    <3>1. Slots(nlinks') = Slots(nlinks) \cup {s}
      BY <2>4, <2>6
    <3> QED BY <1>1, <2>2, <2>4, <2>5, <2>6, <2>7, <2>8, <3>1, SpawnKids, Zenon
  <2>10. kid' \in [Pids -> KidType]
    <3>1. m.ifi \in Ifis \cup {0} /\ m.what \in Scripts
      BY <2>5 DEF LinkType
    <3> QED BY <1>1, <2>2, <2>7, <3>1, SpawnedType, Zenon
  <2>11. /\ links' \in [1..NLINKS -> LinkType] /\ links'[s] = m
         /\ \A t \in 1..NLINKS \ {s} : links'[t] = links[t]
    BY <1>1, <2>4, <2>5, <2>6
  <2>12. \A t \in Slots(s) : Due_mode(links'[t])
    BY <1>1, <2>5, <2>6, <2>11 DEF ModesDue
  <2>13. ModesDue'
    BY <2>4, <2>12 DEF ModesDue, Slots, Due_mode
  <2>14. nlinks' \in 0..NLINKS
    BY <1>1, <2>4, <2>6
  <2> QED BY <2>9, <2>10, <2>11, <2>13, <2>14 DEF LinksInv
<1>4. QED
  BY <1>2, <1>3

\* The head of the queue is about an interface.
LEMMA HeadEvent ==
  ASSUME QueueInv, ev # <<>>
  PROVE  Head(ev).ifi \in Ifis /\ Tail(ev) \in Seq([ifi : Ifis, state : LinkStates])
<1> DEFINE E == [ifi : Ifis, state : LinkStates]
<1>1. \A e \in E : e.ifi \in Ifis
  OBVIOUS
<1>2. ev \in Seq(E)
  BY DEF QueueInv
<1> HIDE DEF E
<1>3. Head(ev) \in E /\ Tail(ev) \in Seq(E)
  BY <1>2
<1>4. QED
  BY <1>1, <1>3 DEF E

LEMMA NewLinkStep ==
  ASSUME IInv, msg_new_link
  PROVE  IInv'
<1> DEFINE i == Head(ev).ifi
           state == Head(ev).state
           s == slot_of(i)
           l == links[s]
<1>1. LinksInv /\ PassInv /\ SocketInv /\ QueueInv
  BY Parts
<1>2. i \in Ifis /\ QueueInv'
  BY <1>1, HeadEvent DEF msg_new_link, QueueInv, clients
<1>3. SocketInv'
  BY <1>1, SameSockets DEF msg_new_link, sockets, SocketInv
<1>4. \/ UNCHANGED <<links, nlinks, kid>>
      \/ find_link_slot(i) = {} /\ new_link_notification(i, state)
      \/ /\ find_link_slot(i) # {} /\ links' = [links EXCEPT ![s] = link_state_changed(l, state)]
         /\ kid' = kid \/ sys_kill(l.pid)
         /\ nlinks' = nlinks
  BY DEF msg_new_link
<1> HIDE DEF i, state, s, l
<1>5. LinksInv'
  <2>1. CASE UNCHANGED <<links, nlinks, kid>>
    BY <1>1, <2>1, SameLinks
  <2>2. CASE find_link_slot(i) = {} /\ new_link_notification(i, state)
    BY <1>2, <2>2, NewLink
  <2>3. CASE /\ find_link_slot(i) # {} /\ links' = [links EXCEPT ![s] = link_state_changed(l, state)]
             /\ kid' = kid \/ sys_kill(l.pid)
             /\ nlinks' = nlinks
    <3>1. s \in Slots(nlinks) /\ s \in 1..NLINKS
      BY <2>3, SlotOf DEF s
    <3>2. l \in LinkType /\ l = links[s]
      BY <1>1, <3>1 DEF LinksInv, l
    <3>3. Kept(links[s], link_state_changed(l, state))
      BY <3>2, ChangedKept
    <3>4. kid \in [Pids -> KidType]
      BY <1>1 DEF LinksInv
    <3>5. /\ kid' \in [Pids -> KidType]
          /\ \A p \in Pids : kid'[p].st = kid[p].st /\ kid'[p].ifi = kid[p].ifi /\ kid'[p].what = kid[p].what
      BY <2>3, <3>4, KillKids
    <3> QED BY <2>3, <3>1, <3>3, <3>5, SlotKept, Zenon
  <2> QED BY <1>4, <2>1, <2>2, <2>3
<1>6. PassInv'
  <2>1. nlinks' \in Nat
    BY <1>5, Sizes DEF LinksInv
  <2>2. Handled(RTNL)
    BY DEF msg_new_link
  <2> QED BY <2>1, <2>2, HandledPass
<1>7. QED
  BY <1>2, <1>3, <1>5, <1>6, PartsNext

LEMMA DelLinkStep ==
  ASSUME IInv, msg_del_link
  PROVE  IInv'
<1>1. LinksInv /\ PassInv /\ SocketInv /\ QueueInv
  BY Parts
<1>2. QueueInv'
  BY <1>1, HeadEvent DEF msg_del_link, QueueInv, clients
<1>3. SocketInv'
  BY <1>1, SameSockets DEF msg_del_link, sockets, SocketInv
<1>4. LinksInv'
  BY <1>1, SameLinks DEF msg_del_link
<1>5. PassInv'
  <2>1. nlinks' \in Nat
    BY <1>4, Sizes DEF LinksInv
  <2>2. Handled(RTNL)
    BY DEF msg_del_link
  <2> QED BY <2>1, <2>2, HandledPass
<1>6. QED
  BY <1>2, <1>3, <1>4, <1>5, PartsNext

\* The connection that is found for a slot is open.
LEMMA FoundConn ==
  ASSUME IInv, NEW s \in 1..NCONNS, Turn(CONN(s)), ~missed(s)
  PROVE  conns[s].fd \in Clients /\ conns[s] \in ConnType /\ conns[s].ifi \in Ifis \cup {0}
<1>1. ready \in SUBSET Nat /\ ready # {} /\ Min(ready) = CONN(s)
  BY Sizes DEF Turn, IInv, Typed
<1>2. CONN(s) \in ready
  BY <1>1, MinIn
<1>3. s \in polled
  BY <1>2 DEF IInv, ReadyPolled
<1>4. conns[s].fd # Nobody
  BY <1>3 DEF missed
<1>5. conns[s] \in ConnType
  BY DEF IInv, Typed
<1>6. QED
  BY <1>4, <1>5 DEF ConnType

LEMMA ConnStep ==
  ASSUME IInv, NEW s \in 1..NCONNS, handle_conn(s)
  PROVE  IInv'
<1> DEFINE q == cl[conns[s].fd]
           k == slot_of(q.ifi)
           res == dispatch(q.req, links[k], q.mode)
<1>1. LinksInv /\ PassInv /\ SocketInv /\ QueueInv
  BY Parts
<1>2. conns[s].fd \in Clients /\ conns[s].fd # Nobody /\ conns[s].ifi \in Ifis \cup {0}
  BY FoundConn, IfAssumption, Zenon DEF handle_conn, Nobody
<1>3. q \in ClientType
  BY <1>1, <1>2 DEF SocketInv
<1>4. q.ifi \in Ifis \cup {0} /\ q.mode \in Modes \cup {None} /\ q.req \in Requests
  BY <1>3 DEF ClientType
<1>5. q.req # None
  BY Zenon DEF handle_conn
<1>6. QueueInv'
  BY <1>1, Zenon DEF handle_conn, QueueInv, kernel, clients
<1>7. \/ /\ UNCHANGED <<links, kid>>
         /\ \E code : send_reply(s, conns[s].ifi, code)
      \/ /\ q.req # "status" /\ find_link_slot(q.ifi) # {}
         /\ links' = [links EXCEPT ![k] = res.ls]
         /\ kid' = kid \/ sys_kill(links[k].pid)
         /\ \E i \in {q.ifi, conns[s].ifi} : \E code : send_reply(s, i, code)
  BY Zenon DEF handle_conn
<1>8. nlinks' = nlinks
  BY Zenon DEF handle_conn
<1> HIDE DEF q, k, res
<1>9. SocketInv'
  <2>1. \E i \in Ifis \cup {0} : \E code : send_reply(s, i, code)
    BY <1>2, <1>4, <1>7
  <2> QED BY <1>1, <1>2, <2>1, ReplySockets
<1>10. LinksInv'
  <2>1. CASE UNCHANGED <<links, kid>>
    BY <1>1, <1>8, <2>1, SameLinks
  <2>2. CASE /\ q.req # "status" /\ find_link_slot(q.ifi) # {}
             /\ links' = [links EXCEPT ![k] = res.ls]
             /\ kid' = kid \/ sys_kill(links[k].pid)
    <3>1. k \in Slots(nlinks) /\ k \in 1..NLINKS
      BY <2>2, SlotOf DEF k
    <3>2. links[k] \in LinkType
      BY <1>1, <3>1 DEF LinksInv
    <3>3. Kept(links[k], res.ls)
      BY <1>4, <1>5, <2>2, <3>2, DispatchKept DEF res
    <3>4. kid \in [Pids -> KidType]
      BY <1>1 DEF LinksInv
    <3>5. /\ kid' \in [Pids -> KidType]
          /\ \A p \in Pids : kid'[p].st = kid[p].st /\ kid'[p].ifi = kid[p].ifi /\ kid'[p].what = kid[p].what
      BY <2>2, <3>4, KillKids
    <3> QED BY <1>8, <2>2, <3>1, <3>3, <3>5, SlotKept, Zenon
  <2> QED BY <1>7, <2>1, <2>2
<1>11. PassInv'
  <2>1. nlinks' \in Nat
    BY <1>10, Sizes DEF LinksInv
  <2>2. Done({CONN(s)}, s)
    BY Zenon DEF handle_conn
  <2> QED BY <2>1, <2>2, PassDone
<1>12. QED
  BY <1>6, <1>9, <1>10, <1>11, PartsNext

LEMMA HangupStep ==
  ASSUME IInv, NEW s \in 1..NCONNS, hangup(s)
  PROVE  IInv'
<1>1. LinksInv /\ PassInv /\ SocketInv /\ QueueInv
  BY Parts
<1>2. LinksInv'
  BY <1>1, SameLinks DEF hangup
<1>3. QueueInv'
  BY <1>1 DEF hangup, QueueInv, kernel, clients
<1>4. PassInv'
  <2>1. nlinks' \in Nat
    BY <1>2, Sizes DEF LinksInv
  <2>2. Done({CONN(s)}, s)
    BY DEF hangup
  <2> QED BY <2>1, <2>2, PassDone
<1>5. SocketInv'
  <2> DEFINE c == conns[s].fd
             cn == [conns[s] EXCEPT !.fd = Nobody]
  <2>1. c \in Clients /\ conns[s] \in ConnType
    BY FoundConn DEF hangup
  <2>2. cl' = [cl EXCEPT ![c] = Closed(c)] /\ conns' = [conns EXCEPT ![s] = cn] /\ nconns' = close_conn({s})
    BY DEF hangup
  <2>3. cn \in ConnType /\ cn.fd = Nobody
    BY <2>1 DEF ConnType
  <2> HIDE DEF c, cn
  <2>4. cl' \in [Clients -> ClientType]
    BY <1>1, <2>1, <2>2, ClosedType DEF SocketInv
  <2>5. /\ conns' \in [1..NCONNS -> ConnType] /\ conns'[s].fd = Nobody
        /\ \A t \in 1..NCONNS \ {s} : conns'[t] = conns[t]
    BY <1>1, <2>2, <2>3 DEF SocketInv
  <2>6. /\ nconns' \in 0..NCONNS
        /\ \A t \in (1..NCONNS) \ {s} : conns[t].fd # Nobody => t <= nconns'
    BY <1>1, <2>2, CloseCount
  <2>7. ConnsCounted'
    BY <2>5, <2>6 DEF ConnsCounted
  <2> QED BY <2>4, <2>5, <2>6, <2>7 DEF SocketInv
<1>6. QED
  BY <1>2, <1>3, <1>4, <1>5, PartsNext

LEMMA NoConnStep ==
  ASSUME IInv, NEW s \in 1..NCONNS, no_conn(s)
  PROVE  IInv'
<1>1. LinksInv /\ PassInv /\ SocketInv /\ QueueInv
  BY Parts
<1>2. LinksInv'
  BY <1>1, SameLinks DEF no_conn
<1>3. QueueInv'
  BY <1>1 DEF no_conn, QueueInv, kernel, clients
<1>4. PassInv'
  <2>1. nlinks' \in Nat
    BY <1>2, Sizes DEF LinksInv
  <2>2. Done({CONN(t) : t \in 1..NCONNS}, 0) /\ 0 \notin 1..NCONNS
    BY Sizes DEF no_conn
  <2> QED BY <2>1, <2>2, PassDone
<1>5. SocketInv'
  BY <1>1, SameSockets DEF no_conn, sockets, SocketInv
<1>6. QED
  BY <1>2, <1>3, <1>4, <1>5, PartsNext

-----------------------------------------------------------------------------
(* The steps of clients, the kernel and scripts *)

LEMMA OtherStep ==
  ASSUME IInv, UNCHANGED <<links, nlinks, kid, polled, ready, at, conns, nconns>>,
         cl' \in [Clients -> ClientType], QueueInv'
  PROVE  IInv'
<1>1. LinksInv /\ PassInv /\ SocketInv /\ QueueInv
  BY Parts
<1>2. LinksInv' /\ SocketInv'
  BY <1>1, SameLinks, SameSockets
<1>3. PassInv'
  BY <1>1 DEF PassInv, MarkedAhead, ReadyPolled, Slots, CONN
<1>4. QED
  BY <1>2, <1>3, PartsNext

LEMMA RequestType ==
  \A cmd \in {"mode", "also", "identify", "stop", "auto_dhcp", "stop_dhcp", "reconnect", "kill"} :
    Request[cmd] \in Requests
BY SMTT(20) DEF Request, Requests

LEMMA StartStep ==
  ASSUME IInv, NEW c \in Clients, start_ifctl(c)
  PROVE  IInv'
<1>1. UNCHANGED <<links, nlinks, kid, polled, ready, at, conns, nconns>>
  BY DEF start_ifctl, daemon
<1>2. QueueInv'
  BY Parts DEF start_ifctl, QueueInv, kernel
<1>3. cl' \in [Clients -> ClientType]
  <2>1. PICK cmd \in Commands, i \in Ifis, m \in Modes :
          cl' = [cl EXCEPT ![c] =
                   [at |-> IF cmd = "mode" THEN "status" ELSE "reply",
                    cmd |-> cmd, ifi |-> i,
                    mode |-> IF cmd \in {"mode", "also", "identify"} THEN m ELSE None,
                    req |-> Request[cmd]]]
    BY Zenon DEF start_ifctl
  <2>2. Request[cmd] \in Requests
    BY RequestType, IfAssumption, Zenon
  <2>3. [at |-> IF cmd = "mode" THEN "status" ELSE "reply",
         cmd |-> cmd, ifi |-> i,
         mode |-> IF cmd \in {"mode", "also", "identify"} THEN m ELSE None,
         req |-> Request[cmd]] \in ClientType
    BY <2>2 DEF ClientType, Active
  <2> QED BY <2>1, <2>3 DEF IInv, Typed
<1>4. QED
  BY <1>1, <1>2, <1>3, OtherStep

LEMMA LeaveType ==
  ASSUME IInv, NEW c \in Clients, leave(c)
  PROVE  cl' \in [Clients -> ClientType]
<1> DEFINE a == [cl[c] EXCEPT !.at = "gone", !.cmd = None]
           b == [NoClient EXCEPT !.at = "gone"]
<1>1. cl \in [Clients -> ClientType] /\ cl[c] \in ClientType
  BY DEF IInv, Typed
<1>2. a \in ClientType
  BY <1>1, Zenon DEF ClientType
<1>3. b \in ClientType
  BY NoClientType DEF ClientType
<1>4. \E k \in {NoClient, a, b} : cl' = [cl EXCEPT ![c] = k]
  BY Zenon DEF leave
<1> HIDE DEF a, b
<1>5. QED
  BY <1>1, <1>2, <1>3, <1>4, NoClientType

LEMMA StayType ==
  ASSUME IInv, NEW c \in Clients, NEW where \in Active, NEW req \in Requests, stay(c, where, req)
  PROVE  cl' \in [Clients -> ClientType]
<1> DEFINE a == [cl[c] EXCEPT !.at = where, !.req = req]
<1>1. cl \in [Clients -> ClientType] /\ cl[c] \in ClientType
  BY DEF IInv, Typed
<1>2. a \in ClientType
  BY <1>1, Zenon DEF ClientType
<1>3. cl' = [cl EXCEPT ![c] = a]
  BY <1>1, Zenon DEF stay
<1> HIDE DEF a
<1>4. QED
  BY <1>1, <1>2, <1>3

LEMMA RecvStep ==
  ASSUME IInv, NEW c \in Clients, recv_reply(c)
  PROVE  IInv'
<1>1. UNCHANGED <<links, nlinks, kid, polled, ready, at, conns, nconns>>
  BY DEF recv_reply, daemon
<1>2. QueueInv'
  BY Parts DEF recv_reply, QueueInv, kernel, clients
<1>3. leave(c) \/ \E where \in Active, req \in Requests : stay(c, where, req)
  <2>1. cl[c].at \in Active /\ cl[c].req \in Requests
    BY DEF recv_reply, IInv, Typed, ClientType
  <2>2. \/ leave(c) \/ stay(c, cl[c].at, cl[c].req) \/ stay(c, "wait", None)
        \/ stay(c, "reply", "mode") \/ stay(c, "drop", "drop")
    BY DEF recv_reply, request
  <2> QED BY <2>1, <2>2 DEF Active, Requests
<1>4. cl' \in [Clients -> ClientType]
  BY <1>3, LeaveType, StayType
<1>5. QED
  BY <1>1, <1>2, <1>4, OtherStep

LEMMA QuitStep ==
  ASSUME IInv, NEW c \in Clients, quit_ifctl(c)
  PROVE  IInv'
<1>1. UNCHANGED <<links, nlinks, kid, polled, ready, at, conns, nconns>>
  BY DEF quit_ifctl, daemon
<1>2. QueueInv'
  BY Parts DEF quit_ifctl, QueueInv, kernel, clients
<1>3. cl' \in [Clients -> ClientType]
  BY LeaveType DEF quit_ifctl
<1>4. QED
  BY <1>1, <1>2, <1>3, OtherStep

LEMMA EventStep ==
  ASSUME IInv, NEW i \in Ifis, link_event(i)
  PROVE  IInv'
<1>1. PICK state \in LinkStates : link_message(i, state)
  BY DEF link_event
<1>2. UNCHANGED <<links, nlinks, kid, polled, ready, at, conns, nconns>> /\ cl' = cl
  BY <1>1 DEF link_message, daemon, sockets
<1>3. QueueInv'
  <2> DEFINE E == [ifi : Ifis, state : LinkStates]
             e == [ifi |-> i, state |-> state]
  <2>1. e \in E
    OBVIOUS
  <2>2. ev \in Seq(E) /\ ev' = Append(ev, e) /\ backlog' = backlog
    BY <1>1, Parts DEF link_message, QueueInv, clients
  <2> HIDE DEF E, e
  <2>3. ev' \in Seq(E)
    BY <2>1, <2>2
  <2> QED BY <2>2, <2>3, Parts DEF QueueInv, E
<1>4. cl' \in [Clients -> ClientType]
  BY <1>2 DEF IInv, Typed
<1>5. QED
  BY <1>2, <1>3, <1>4, OtherStep

LEMMA EndsStep ==
  ASSUME IInv, NEW p \in Pids, script_ends(p)
  PROVE  IInv'
<1> DEFINE a == [kid[p] EXCEPT !.st = "zombie", !.told = FALSE]
<1>1. LinksInv /\ PassInv /\ SocketInv /\ QueueInv
  BY Parts
<1>2. /\ UNCHANGED <<links, nlinks, polled, ready, at, conns, nconns, cl, ev, backlog>>
      /\ kid[p].st = "run"
  BY DEF script_ends, daemon, sockets, kernel, clients
<1>3. kid \in [Pids -> KidType] /\ kid[p] \in KidType
  BY <1>1 DEF LinksInv
<1>4. a \in KidType /\ a.st = "zombie" /\ a.ifi = kid[p].ifi /\ a.what = kid[p].what
  <2> DEFINE b == [kid[p] EXCEPT !.st = "zombie"]
  <2>1. b \in KidType /\ b.st = "zombie" /\ b.ifi = kid[p].ifi /\ b.what = kid[p].what
    BY <1>3, Zenon DEF KidType
  <2> HIDE DEF b
  <2>2. [b EXCEPT !.told = FALSE] \in KidType
    BY <2>1, Zenon DEF KidType
  <2>3. /\ [b EXCEPT !.told = FALSE].st = b.st
        /\ [b EXCEPT !.told = FALSE].ifi = b.ifi /\ [b EXCEPT !.told = FALSE].what = b.what
    BY <2>1, Zenon DEF KidType
  <2>4. a = [b EXCEPT !.told = FALSE]
    BY DEF b
  <2> HIDE DEF a
  <2> QED BY <2>1, <2>2, <2>3, <2>4
<1>5. kid' = [kid EXCEPT ![p] = a]
  BY <1>3, Zenon DEF script_ends
<1> HIDE DEF a
<1>6. /\ kid' \in [Pids -> KidType]
      /\ \A q \in Pids : /\ kid'[q].st = "none" <=> kid[q].st = "none"
                         /\ kid'[q].ifi = kid[q].ifi /\ kid'[q].what = kid[q].what
  BY <1>2, <1>3, <1>4, <1>5
<1>7. ASSUME NEW t \in Slots(nlinks) PROVE Calm(links[t], links'[t])
  <2>1. links[t] \in LinkType
    BY <1>1, Sizes DEF LinksInv, Slots
  <2> QED BY <1>2, <2>1 DEF Calm
<1>8. Kids'
  BY <1>2, <1>6, <1>7, CalmKids DEF IInv
<1>9. LinksInv'
  BY <1>1, <1>2, <1>6, <1>8 DEF LinksInv, ModesDue, Due_mode, Slots
<1>10. SocketInv' /\ QueueInv'
  BY <1>1, <1>2, SameSockets DEF SocketInv, QueueInv
<1>11. PassInv'
  BY <1>1, <1>2 DEF PassInv, MarkedAhead, ReadyPolled, Slots, CONN
<1>12. QED
  BY <1>9, <1>10, <1>11, PartsNext

-----------------------------------------------------------------------------
(* Theorems *)

LEMMA InitInv == Init => IInv
<1> SUFFICES ASSUME Init PROVE IInv
  OBVIOUS
<1>1. NoLink \in LinkType
  BY DEF NoLink, LinkType, Scripts
<1>2. NoConn \in ConnType
  BY DEF NoConn, ConnType
<1>3. NoKid \in KidType
  BY DEF NoKid, KidType, Scripts
<1>4. NLINKS \in Nat /\ NCONNS \in Nat /\ Slots(0) = {}
  BY Sizes DEF Slots
<1>5. LinksInv
  <2>1. /\ links \in [1..NLINKS -> LinkType] /\ nlinks \in 0..NLINKS /\ kid \in [Pids -> KidType]
    BY <1>1, <1>3, <1>4 DEF Init
  <2>2. nlinks = 0 /\ \A p \in Pids : kid[p].st = "none"
    BY DEF Init, NoKid
  <2>3. Kids /\ ModesDue
    BY <1>4, <2>2 DEF Kids, OneEntry, Owned, OneKid, RunningTracked, ModesDue
  <2> QED BY <2>1, <2>3 DEF LinksInv
<1>6. SocketInv
  <2>1. conns \in [1..NCONNS -> ConnType] /\ nconns \in 0..NCONNS /\ cl \in [Clients -> ClientType]
    BY <1>2, <1>4, NoClientType DEF Init
  <2>2. \A s \in 1..NCONNS : conns[s].fd = Nobody
    BY DEF Init, NoConn
  <2> QED BY <2>1, <2>2 DEF SocketInv, ConnsCounted
<1>7. PassInv
  <2>1. ready = {} /\ polled = {} /\ at = 0 /\ nlinks = 0
    BY DEF Init
  <2>2. MarkedAhead
    BY <1>4, <2>1 DEF MarkedAhead
  <2>3. ReadyPolled
    BY <2>1 DEF ReadyPolled
  <2> QED BY <2>1, <2>2, <2>3 DEF PassInv
<1>8. QueueInv
  BY DEF Init, QueueInv
<1>9. QED
  BY <1>5, <1>6, <1>7, <1>8, Parts

LEMMA Inductive == IInv /\ [Next]_vars => IInv'
<1> SUFFICES ASSUME IInv, [Next]_vars PROVE IInv'
  OBVIOUS
<1>1. CASE ppoll
  BY <1>1, PollStep
<1>2. CASE msg_new_link
  BY <1>2, NewLinkStep
<1>3. CASE msg_del_link
  BY <1>3, DelLinkStep
<1>4. CASE \E c \in Clients : accept_one(c)
  BY <1>4, AcceptStep
<1>5. CASE \E p \in Pids, status \in Statuses : reap(p, status)
  BY <1>5, ReapStep
<1>6. CASE \E s \in 1..NCONNS : handle_conn(s) \/ hangup(s) \/ no_conn(s)
  BY <1>6, ConnStep, HangupStep, NoConnStep
<1>7. CASE check_links
  BY <1>7, CheckStep
<1>8. CASE \E c \in Clients : start_ifctl(c) \/ recv_reply(c) \/ quit_ifctl(c)
  BY <1>8, StartStep, RecvStep, QuitStep
<1>9. CASE \E i \in Ifis : link_event(i)
  BY <1>9, EventStep
<1>10. CASE \E p \in Pids : script_ends(p)
  BY <1>10, EndsStep
<1>11. CASE UNCHANGED vars
  <2>1. UNCHANGED <<links, nlinks, kid, polled, ready, at, conns, nconns, cl, ev, backlog>>
    BY <1>11 DEF vars, daemon, sockets, kernel, clients
  <2>2. QueueInv' /\ cl' \in [Clients -> ClientType]
    BY <2>1, Parts DEF QueueInv, SocketInv
  <2> QED BY <2>1, <2>2, OtherStep
<1>12. QED
  BY <1>1, <1>2, <1>3, <1>4, <1>5, <1>6, <1>7, <1>8, <1>9, <1>10, <1>11, SMTT(30)
  DEF Next, Daemon

LEMMA Always == Spec => []IInv
<1>1. QED
  BY InitInv, Inductive, PTL DEF Spec

\* For any interfaces, clients, commands and outcomes of spawn: never two
\* scripts for an interface, the pid of a running one is that of its process,
\* and poll and reports reach every open connection (spawn, got_sigchld,
\* close_conn).
THEOREM LinksCorrect == Spec => []LinksSound
<1>1. IInv => LinksSound
  <2> SUFFICES ASSUME IInv PROVE Serialized
    BY DEF IInv, Kids, LinksSound
  <2>1. \A p \in Pids : kid[p].st = "run" => kid[p].st # "none"
    OBVIOUS
  <2> QED BY <2>1 DEF IInv, Kids, OneKid, Serialized
<1>2. QED
  BY <1>1, Always, PTL

\* And ifmon never goes to sleep on a mode it has accepted, unless the script it
\* waits for is still running (set_mode, script_exit, check_links).
THEOREM ModeCorrect == Spec => []ModeNotLost
<1>1. IInv => ModeNotLost
  <2> SUFFICES ASSUME IInv, at = 0, ready = {}, NEW s \in Slots(nlinks),
                      "NEED_MODE" \in links[s].flags
               PROVE  "RUNNING" \in links[s].flags
    BY DEF ModeNotLost
  <2>1. "MARKED" \notin links[s].flags
    BY DEF IInv, MarkedAhead
  <2>2. Due_mode(links[s])
    BY DEF IInv, ModesDue
  <2> QED BY <2>1, <2>2 DEF Due_mode
<1>2. QED
  BY <1>1, Always, PTL

=============================================================================
