-------------------------- MODULE WifiKeys_proofs --------------------------
(***************************************************************************)
(* What ifctl and wifi saved they find again, for any devices, modes,      *)
(* networks, keys and sizes of the files.  The invariants say that an      *)
(* entry is the only one of its device or network and holds what was saved *)
(* last, and that without an entry nothing is remembered.                  *)
(*                                                                         *)
(* And what wsupp negotiates it gives to the card once and in order, for   *)
(* any number of associations, packets and group keys.                     *)
(***************************************************************************)
EXTENDS WifiKeys, WellFoundedInduction, TLAPS

\* What a loop from the start finds.
LEMMA FirstIn ==
  ASSUME NEW S \in SUBSET (Nat \ {0})
  PROVE  /\ S = {} => First(S) = 0
         /\ S # {} => First(S) \in S /\ First(S) # 0
  <1>1. CASE S = {}
    BY <1>1 DEF First
  <1>2. CASE S # {}
    <2> DEFINE R == OpToRel(<, Nat)
    <2>1. IsWellFoundedOn(R, Nat)
      BY NatLessThanWellFounded, Zenon
    <2> HIDE DEF R
    <2>2. PICK x \in S : \A y \in S : ~(<<y, x>> \in R)
      <3>1. S \subseteq Nat
        OBVIOUS
      <3> QED BY <1>2, <2>1, <3>1, WFMin, Zenon
    <2>3. \A y \in S : x <= y
      <3> SUFFICES ASSUME NEW y \in S, y < x PROVE FALSE
        OBVIOUS
      <3> DEFINE yx == <<y, x>>
      <3>1. yx \in Nat \X Nat /\ yx[1] < yx[2]
        OBVIOUS
      <3> HIDE DEF yx
      <3>2. yx \in {st \in Nat \X Nat : st[1] < st[2]}
        BY <3>1
      <3>3. <<y, x>> \in R
        BY <3>2 DEF yx, R, OpToRel
      <3> QED BY <2>2, <3>3
    <2>4. First(S) = CHOOSE i \in S : \A j \in S : i <= j
      BY <1>2 DEF First
    <2>5. First(S) \in S
      BY <2>3, <2>4, Zenon
    <2> QED BY <1>2, <2>5
  <1> QED BY <1>1, <1>2

-----------------------------------------------------------------------------
(* Keys *)

EntryType == [ssid : Ssids \cup {NoKey}, psk : Keys \cup {NoKey}]

\* each network's entry is the only one
Alone(f) == \A i, j \in 1..Len(f) : f[i].ssid \in Ssids /\ f[i].ssid = f[j].ssid => i = j
\* and holds its key
Holds(f, k) == \A i \in 1..Len(f) : f[i].ssid \in Ssids => f[i].psk = k[f[i].ssid]
Absent(f, k) == \A s \in Ssids : (\A i \in 1..Len(f) : f[i].ssid # s) => k[s] = NoKey

PskGood(f, k) ==
  /\ f \in Seq(EntryType) /\ k \in [Ssids -> Keys \cup {NoKey}]
  /\ Alone(f) /\ Holds(f, k) /\ Absent(f, k)

PskInv == PskGood(psk_file, psk_known)

LEMMA PskFind ==
  ASSUME NEW f \in Seq(EntryType), NEW s \in Ssids
  PROVE  LET i == psk_find_entry(f, s) IN
         \/ i = 0 /\ \A j \in 1..Len(f) : f[j].ssid # s
         \/ i # 0 /\ i \in 1..Len(f) /\ f[i].ssid = s
  <1> DEFINE S == {i \in 1..Len(f) : f[i].ssid = s}
  <1>1. S \in SUBSET (Nat \ {0})
    OBVIOUS
  <1>2. /\ S = {} => First(S) = 0
        /\ S # {} => First(S) \in S /\ First(S) # 0
    BY <1>1, FirstIn
  <1>3. psk_find_entry(f, s) = First(S)
    BY DEF psk_find_entry
  <1> QED BY <1>2, <1>3

LEMMA PskFound == ASSUME PskInv PROVE KeysFound
  <1> SUFFICES ASSUME NEW s \in Ssids PROVE load_saved_psk(s) = psk_known[s]
    BY DEF KeysFound
  <1> DEFINE i == psk_find_entry(psk_file, s)
  <1>1. \/ i = 0 /\ \A j \in 1..Len(psk_file) : psk_file[j].ssid # s
        \/ i # 0 /\ i \in 1..Len(psk_file) /\ psk_file[i].ssid = s
    BY PskFind DEF PskInv, PskGood
  <1>2. load_saved_psk(s) = IF i = 0 THEN NoKey ELSE psk_file[i].psk
    BY DEF load_saved_psk
  <1> HIDE DEF i
  <1> QED BY <1>1, <1>2 DEF PskInv, PskGood, Holds, Absent

\* What save_config leaves: holes, and then the entries it was given.
LEMMA SavedGood ==
  ASSUME Setting, NEW old \in Seq(EntryType), NEW f, NEW k, PskGood(f, k)
  PROVE  PskGood(save_config(old, f), k)
  <1> DEFINE n == Len(old)  H == [i \in 1..n |-> Hole]  g == H \o f
  <1>0. f \in Seq(EntryType)
    BY DEF PskGood
  <1>1. CASE f = <<>>
    <2>1. save_config(old, f) = f
      BY <1>1 DEF save_config
    <2> QED BY <2>1
  <1>2. CASE f # <<>>
    <2>1. save_config(old, f) = g
      BY <1>2 DEF save_config
    <2>2. H \in Seq(EntryType) /\ Len(H) = n /\ n \in Nat
      BY DEF Hole, EntryType
    <2>3. /\ g \in Seq(EntryType) /\ Len(g) = n + Len(f)
          /\ \A i \in 1..n : g[i] = Hole
          /\ \A i \in 1..Len(f) : g[n + i] = f[i]
      BY <1>0, <2>2
    <2>4. Hole.ssid \notin Ssids
      BY DEF Hole, Setting
    <2> HIDE DEF g, H
    <2>5. \A i \in 1..Len(g) : g[i].ssid \in Ssids => i - n \in 1..Len(f) /\ g[i] = f[i - n]
      <3> SUFFICES ASSUME NEW i \in 1..Len(g), g[i].ssid \in Ssids
                   PROVE  i - n \in 1..Len(f) /\ g[i] = f[i - n]
        OBVIOUS
      <3>1. i \notin 1..n
        BY <2>3, <2>4
      <3>2. i - n \in 1..Len(f)
        BY <1>0, <2>2, <2>3, <3>1
      <3>3. g[n + (i - n)] = f[i - n] /\ n + (i - n) = i
        BY <2>2, <2>3, <3>2
      <3> QED BY <3>2, <3>3
    <2> HIDE DEF n
    <2>6. Alone(g)
      <3> SUFFICES ASSUME NEW i \in 1..Len(g), NEW j \in 1..Len(g), g[i].ssid \in Ssids, g[i].ssid = g[j].ssid
                   PROVE  i = j
        BY DEF Alone
      <3>1. i - n \in 1..Len(f) /\ j - n \in 1..Len(f) /\ g[i] = f[i - n] /\ g[j] = f[j - n]
        BY <2>5
      <3>2. i - n = j - n
        BY <3>1 DEF Alone, PskGood
      <3> QED BY <2>2, <2>3, <3>2
    <2>7. Holds(g, k)
      BY <2>5 DEF Holds, PskGood
    <2>8. Absent(g, k)
      <3> SUFFICES ASSUME NEW s \in Ssids, \A i \in 1..Len(g) : g[i].ssid # s PROVE k[s] = NoKey
        BY DEF Absent
      <3>1. ASSUME NEW i \in 1..Len(f) PROVE f[i].ssid # s
        <4>1. n + i \in 1..Len(g)
          BY <1>0, <2>2, <2>3
        <4> QED BY <2>3, <4>1
      <3> QED BY <3>1 DEF PskGood, Absent
    <2> QED BY <2>1, <2>3, <2>6, <2>7, <2>8 DEF PskGood
  <1> QED BY <1>1, <1>2

LEMMA ConnectGood == ASSUME Setting, PskInv, cmd_connect PROVE PskInv'
  <1>1. PICK s \in Ssids, k \in Keys : maybe_store_psk(s, k) /\ psk_known' = [psk_known EXCEPT ![s] = k]
    BY DEF cmd_connect
  <1> DEFINE f == psk_file  i == psk_find_entry(f, s)  K == [psk_known EXCEPT ![s] = k]
  <1>2. f \in Seq(EntryType) /\ psk_known \in [Ssids -> Keys \cup {NoKey}] /\ Alone(f) /\ Holds(f, psk_known) /\ Absent(f, psk_known)
    BY DEF PskInv, PskGood
  <1>3. \/ i = 0 /\ \A j \in 1..Len(f) : f[j].ssid # s
        \/ i # 0 /\ i \in 1..Len(f) /\ f[i].ssid = s
    BY <1>2, PskFind
  <1>4. /\ K \in [Ssids -> Keys \cup {NoKey}] /\ K[s] = k
        /\ \A t \in Ssids : t # s => K[t] = psk_known[t]
    BY <1>2
  <1> HIDE DEF i, K
  <1>5. CASE i = 0
    <2> DEFINE g == Append(f, Entry(s, k))
    <2>1. psk_file' = g
      BY <1>1, <1>5 DEF maybe_store_psk, append_entry, i
    <2>2. Entry(s, k) \in EntryType /\ Entry(s, k).ssid = s /\ Entry(s, k).psk = k
      BY DEF Entry, EntryType
    <2> HIDE DEF g
    <2>3. /\ g \in Seq(EntryType) /\ Len(g) = Len(f) + 1 /\ g[Len(g)] = Entry(s, k)
          /\ \A j \in 1..Len(f) : g[j] = f[j]
          /\ \A j \in 1..Len(g) : j = Len(g) \/ j \in 1..Len(f)
      BY <1>2, <2>2 DEF g
    <2>4. Alone(g)
      BY <1>2, <1>3, <1>5, <2>2, <2>3 DEF Alone
    <2>5. Holds(g, K)
      BY <1>2, <1>3, <1>4, <1>5, <2>2, <2>3 DEF Holds
    <2>6. Absent(g, K)
      <3> SUFFICES ASSUME NEW t \in Ssids, \A j \in 1..Len(g) : g[j].ssid # t PROVE K[t] = NoKey
        BY DEF Absent
      <3>1. Len(g) \in 1..Len(g)
        BY <1>2, <2>3
      <3>2. t # s
        BY <2>2, <2>3, <3>1
      <3>3. \A j \in 1..Len(f) : j \in 1..Len(g) /\ f[j].ssid # t
        BY <1>2, <2>3
      <3> QED BY <1>2, <1>4, <3>2, <3>3 DEF Absent
    <2>7. PskGood(g, K)
      BY <1>4, <2>3, <2>4, <2>5, <2>6 DEF PskGood
    <2> QED BY <1>1, <2>1, <2>7 DEF PskInv, K
  <1>6. CASE i # 0
    <2> DEFINE g == [f EXCEPT ![i].psk = k]
    <2>1. psk_file' = save_config(f, g)
      BY <1>1, <1>6 DEF maybe_store_psk, i
    <2>2. i \in 1..Len(f) /\ f[i].ssid = s /\ f[i] \in EntryType
      BY <1>2, <1>3, <1>6
    <2>3. /\ g \in Seq(EntryType) /\ Len(g) = Len(f) /\ g[i].psk = k /\ g[i].ssid = s
          /\ \A j \in 1..Len(f) : j # i => g[j] = f[j]
      <3> DEFINE e == [f[i] EXCEPT !.psk = k]
      <3>1. e \in EntryType /\ e.psk = k /\ e.ssid = s
        BY <2>2 DEF EntryType
      <3>2. g = [f EXCEPT ![i] = e]
        OBVIOUS
      <3> HIDE DEF e
      <3> QED BY <1>2, <2>2, <3>1, <3>2
    <2> HIDE DEF g
    <2>4. Alone(g)
      BY <1>2, <2>2, <2>3 DEF Alone
    <2>5. Holds(g, K)
      BY <1>2, <1>4, <2>2, <2>3 DEF Holds, Alone
    <2>6. Absent(g, K)
      BY <1>2, <1>4, <2>2, <2>3 DEF Absent
    <2>7. PskGood(g, K)
      BY <1>4, <2>3, <2>4, <2>5, <2>6 DEF PskGood
    <2>8. PskGood(save_config(f, g), K)
      BY <1>2, <2>7, SavedGood
    <2> QED BY <1>1, <2>1, <2>8 DEF PskInv, K
  <1> QED BY <1>5, <1>6

LEMMA ForgetGood == ASSUME Setting, PskInv, cmd_forget PROVE PskInv'
  <1>1. PICK s \in Ssids :
          /\ psk_find_entry(psk_file, s) # 0
          /\ psk_file' = save_config(psk_file, remove_entry(psk_file, psk_find_entry(psk_file, s)))
          /\ psk_known' = [psk_known EXCEPT ![s] = NoKey]
    BY DEF cmd_forget
  <1> DEFINE f == psk_file  i == psk_find_entry(f, s)  K == [psk_known EXCEPT ![s] = NoKey]
             g == remove_entry(f, i)
  <1>2. f \in Seq(EntryType) /\ psk_known \in [Ssids -> Keys \cup {NoKey}] /\ Alone(f) /\ Holds(f, psk_known) /\ Absent(f, psk_known)
    BY DEF PskInv, PskGood
  <1>3. i \in 1..Len(f) /\ f[i].ssid = s
    BY <1>1, <1>2, PskFind
  <1>4. /\ K \in [Ssids -> Keys \cup {NoKey}] /\ K[s] = NoKey
        /\ \A t \in Ssids : t # s => K[t] = psk_known[t]
    BY <1>2
  <1> HIDE DEF i, K
  <1> DEFINE at(j) == IF j < i THEN j ELSE j + 1
  <1>5. /\ g \in Seq(EntryType) /\ Len(g) = Len(f) - 1
        /\ \A j \in 1..Len(g) : at(j) \in 1..Len(f) /\ at(j) # i /\ g[j] = f[at(j)]
    <2>1. g = [j \in 1..(Len(f) - 1) |-> f[at(j)]]
      BY DEF remove_entry
    <2>2. \A j \in 1..(Len(f) - 1) : at(j) \in 1..Len(f) /\ at(j) # i /\ f[at(j)] \in EntryType
      BY <1>2, <1>3
    <2> QED BY <1>2, <1>3, <2>1, <2>2
  <1>6. \A j1, j2 \in 1..Len(g) : at(j1) = at(j2) => j1 = j2
    BY <1>2, <1>3, <1>5
  <1>7. \A m \in 1..Len(f) : m # i => \E j \in 1..Len(g) : at(j) = m
    <2> SUFFICES ASSUME NEW m \in 1..Len(f), m # i PROVE \E j \in 1..Len(g) : at(j) = m
      OBVIOUS
    <2>1. CASE m < i
      <3>1. m \in 1..Len(g) /\ at(m) = m
        BY <1>2, <1>3, <1>5, <2>1
      <3> QED BY <3>1
    <2>2. CASE m > i
      <3>1. m - 1 \in 1..Len(g) /\ at(m - 1) = m
        BY <1>2, <1>3, <1>5, <2>2
      <3> QED BY <3>1
    <2> QED BY <1>2, <1>3, <2>1, <2>2
  <1> HIDE DEF at, g
  <1>8. Alone(g)
    BY <1>2, <1>5, <1>6 DEF Alone
  <1>9. Holds(g, K)
    <2> SUFFICES ASSUME NEW j \in 1..Len(g), g[j].ssid \in Ssids PROVE g[j].psk = K[g[j].ssid]
      BY DEF Holds
    <2>1. g[j].ssid # s
      BY <1>2, <1>3, <1>5 DEF Alone
    <2> QED BY <1>2, <1>4, <1>5, <2>1 DEF Holds
  <1>10. Absent(g, K)
    <2> SUFFICES ASSUME NEW t \in Ssids, \A j \in 1..Len(g) : g[j].ssid # t, t # s PROVE K[t] = NoKey
      BY <1>4 DEF Absent
    <2>1. ASSUME NEW m \in 1..Len(f) PROVE f[m].ssid # t
      <3>1. CASE m = i
        BY <1>3, <3>1
      <3>2. CASE m # i
        <4>1. PICK j \in 1..Len(g) : at(j) = m
          BY <1>7, <3>2
        <4> QED BY <1>5, <4>1
      <3> QED BY <3>1, <3>2
    <2> QED BY <1>2, <1>4, <2>1 DEF Absent
  <1>11. PskGood(g, K)
    BY <1>4, <1>5, <1>8, <1>9, <1>10 DEF PskGood
  <1>12. PskGood(save_config(f, g), K)
    BY <1>2, <1>11, SavedGood
  <1> QED BY <1>1, <1>12 DEF PskInv, K, i, g

\* wifi finds the key it saved last, and none it has forgotten, whatever holes
\* save_config has left in the file.
LEMMA KeysAlways == ASSUME Setting PROVE PskSpec => []KeysFound
  <1>1. PskInit => PskInv
    <2> SUFFICES ASSUME PskInit PROVE PskInv
      OBVIOUS
    <2>1. psk_file = <<>> /\ psk_known \in [Ssids -> Keys \cup {NoKey}] /\ \A s \in Ssids : psk_known[s] = NoKey
      BY DEF PskInit
    <2> QED BY <2>1 DEF PskInv, PskGood, Alone, Holds, Absent
  <1>2. PskInv /\ [PskNext]_psk_vars => PskInv'
    BY ConnectGood, ForgetGood DEF PskNext, psk_vars, PskInv
  <1>3. PskInv => KeysFound
    BY PskFound
  <1> QED BY <1>1, <1>2, <1>3, PTL DEF PskSpec

-----------------------------------------------------------------------------
(* Modes *)

Cell == Devices \cup Modes \cup {Zero, Junk, "end"}

\* what is left over behind the entries
JunkLast(f) == \A p \in 1..Len(f) : p > SIZE * count(f) => f[p] = Junk
DeviceAlone(f) ==
  \A i, j \in 1..count(f) : id_at(f, i) \in Devices /\ id_at(f, i) = id_at(f, j) => i = j
ModeHolds(f, k) == \A i \in 1..count(f) : id_at(f, i) \in Devices => mode_at(f, i) = k[id_at(f, i)]
ModeAbsent(f, k) == \A d \in Devices : (\A i \in 1..count(f) : id_at(f, i) # d) => k[d] = NoMode

ModeGood(f, k) ==
  /\ f \in Seq(Cell) /\ JunkLast(f) /\ k \in [Devices -> Modes \cup {NoMode}]
  /\ DeviceAlone(f) /\ ModeHolds(f, k) /\ ModeAbsent(f, k)

ModeInv == torn \in BOOLEAN /\ (torn \/ ModeGood(file, known))

\* Entries are within the file, and fill it but for less than one.
LEMMA Cells ==
  ASSUME NEW f \in Seq(Cell)
  PROVE  /\ count(f) \in Nat /\ SIZE * count(f) <= Len(f) /\ Len(f) < SIZE * count(f) + SIZE
         /\ \A i \in 1..count(f) : SIZE * (i - 1) + 1 \in 1..Len(f) /\ SIZE * (i - 1) + 2 \in 1..Len(f)
  BY DEF count, SIZE

LEMMA DeviceFind ==
  ASSUME NEW f \in Seq(Cell), NEW d
  PROVE  LET i == find_entry(f, d) IN
         \/ i = 0 /\ \A j \in 1..count(f) : id_at(f, j) # d
         \/ i # 0 /\ i \in 1..count(f) /\ id_at(f, i) = d
  <1> DEFINE S == {i \in 1..count(f) : id_at(f, i) = d}
  <1>1. S \in SUBSET (Nat \ {0})
    BY Cells
  <1>2. /\ S = {} => First(S) = 0
        /\ S # {} => First(S) \in S /\ First(S) # 0
    BY <1>1, FirstIn
  <1>3. find_entry(f, d) = First(S)
    BY DEF find_entry
  <1> QED BY <1>2, <1>3

LEMMA ModeFound == ASSUME ModeInv PROVE ModesFound
  <1> SUFFICES ASSUME NEW d \in Devices, ModeGood(file, known) PROVE load_device_mode(d) = known[d]
    BY DEF ModesFound, ModeInv
  <1> DEFINE i == find_entry(file, d)
  <1>1. \/ i = 0 /\ \A j \in 1..count(file) : id_at(file, j) # d
        \/ i # 0 /\ i \in 1..count(file) /\ id_at(file, i) = d
    BY DeviceFind DEF ModeGood
  <1>2. load_device_mode(d) = IF i = 0 THEN NoMode ELSE mode_at(file, i)
    BY DEF load_device_mode
  <1> HIDE DEF i
  <1> QED BY <1>1, <1>2 DEF ModeGood, ModeHolds, ModeAbsent

\* A mode taken away from all devices.
LEMMA ClearGood ==
  ASSUME Setting, NEW f, NEW k, ModeGood(f, k), NEW m \in Modes
  PROVE  ModeGood(clear_entries(f, m), [e \in Devices |-> IF k[e] = m THEN NoMode ELSE k[e]])
  <1> DEFINE g == clear_entries(f, m)  K == [e \in Devices |-> IF k[e] = m THEN NoMode ELSE k[e]]
             n == count(f)
  <1>1. f \in Seq(Cell) /\ JunkLast(f) /\ k \in [Devices -> Modes \cup {NoMode}] /\ ModeHolds(f, k) /\ ModeAbsent(f, k) /\ DeviceAlone(f)
    BY DEF ModeGood
  <1>2. /\ n \in Nat /\ 3 * n <= Len(f) /\ Len(f) < 3 * n + 3
        /\ \A i \in 1..n : 3 * (i - 1) + 1 \in 1..Len(f) /\ 3 * (i - 1) + 2 \in 1..Len(f)
    BY <1>1, Cells DEF SIZE
  <1>3. \A i \in 1..n : /\ ((3 * (i - 1) + 1 - 1) \div 3) + 1 = i
                         /\ ((3 * (i - 1) + 2 - 1) \div 3) + 1 = i
    BY <1>2
  <1>4. g = [p \in 1..Len(f) |->
          IF ((p - 1) \div 3) + 1 <= n /\ mode_at(f, ((p - 1) \div 3) + 1) = m THEN Zero ELSE f[p]]
    BY <1>1 DEF clear_entries, SIZE
  <1>5. g \in Seq(Cell) /\ Len(g) = Len(f)
    <2>1. \A p \in 1..Len(f) : f[p] \in Cell /\ Zero \in Cell
      BY <1>1 DEF Cell
    <2> QED BY <1>1, <1>4, <2>1
  <1>6. JunkLast(g) /\ count(g) = n
    <2>1. count(g) = n
      BY <1>5 DEF count
    <2>2. ASSUME NEW p \in 1..Len(f), p > 3 * n PROVE g[p] = Junk
      <3>1. ~(((p - 1) \div 3) + 1 <= n)
        BY <1>2, <2>2
      <3>2. f[p] = Junk
        BY <1>1, <2>2 DEF JunkLast, SIZE
      <3> QED BY <1>4, <3>1, <3>2
    <2> QED BY <1>5, <2>1, <2>2 DEF JunkLast, SIZE
  <1>7. ASSUME NEW i \in 1..n
        PROVE  IF mode_at(f, i) = m THEN id_at(g, i) = Zero
               ELSE id_at(g, i) = id_at(f, i) /\ mode_at(g, i) = mode_at(f, i)
    <2>1. /\ g[3 * (i - 1) + 1] = IF mode_at(f, i) = m THEN Zero ELSE f[3 * (i - 1) + 1]
          /\ g[3 * (i - 1) + 2] = IF mode_at(f, i) = m THEN Zero ELSE f[3 * (i - 1) + 2]
      <3> DEFINE p == 3 * (i - 1) + 1  q == 3 * (i - 1) + 2
      <3>1. /\ p \in 1..Len(f) /\ q \in 1..Len(f) /\ i <= n
            /\ ((p - 1) \div 3) + 1 = i /\ ((q - 1) \div 3) + 1 = i
        BY <1>2, <1>3
      <3> HIDE DEF p, q
      <3>2. /\ g[p] = IF mode_at(f, i) = m THEN Zero ELSE f[p]
            /\ g[q] = IF mode_at(f, i) = m THEN Zero ELSE f[q]
        BY <1>4, <3>1, Zenon
      <3> QED BY <3>2 DEF p, q
    <2> QED BY <2>1 DEF mode_at, id_at, SIZE
  <1>8. /\ K \in [Devices -> Modes \cup {NoMode}]
        /\ \A e \in Devices : K[e] = IF k[e] = m THEN NoMode ELSE k[e]
    BY <1>1
  <1> HIDE DEF g, K, n
  <1>9. Zero \notin Devices
    BY DEF Setting
  <1>10. DeviceAlone(g)
    <2>1. \A i, j \in 1..n : id_at(f, i) \in Devices /\ id_at(f, i) = id_at(f, j) => i = j
      BY <1>1 DEF DeviceAlone, n
    <2>2. \A i \in 1..n : id_at(g, i) \in Devices => id_at(g, i) = id_at(f, i)
      BY <1>7, <1>9
    <2> QED BY <1>6, <2>1, <2>2 DEF DeviceAlone
  <1>11. ModeHolds(g, K)
    <2>1. \A i \in 1..n : id_at(f, i) \in Devices => mode_at(f, i) = k[id_at(f, i)]
      BY <1>1 DEF ModeHolds, n
    <2>2. \A i \in 1..n : id_at(g, i) \in Devices =>
            id_at(g, i) = id_at(f, i) /\ mode_at(g, i) = mode_at(f, i) /\ mode_at(f, i) # m
      BY <1>7, <1>9
    <2> QED BY <1>6, <1>8, <2>1, <2>2 DEF ModeHolds
  <1>12. ModeAbsent(g, K)
    <2> SUFFICES ASSUME NEW d \in Devices, \A i \in 1..n : id_at(g, i) # d PROVE K[d] = NoMode
      BY <1>6 DEF ModeAbsent
    <2>1. CASE \A i \in 1..n : id_at(f, i) # d
      BY <1>1, <1>8, <2>1 DEF ModeAbsent, n
    <2>2. CASE \E i \in 1..n : id_at(f, i) = d
      <3>1. PICK i \in 1..n : id_at(f, i) = d
        BY <2>2
      <3>2. mode_at(f, i) = m
        BY <1>7, <3>1
      <3>3. k[d] = m
        BY <1>1, <3>1, <3>2 DEF ModeHolds, n
      <3> QED BY <1>8, <3>3
    <2> QED BY <2>1, <2>2
  <1>13. ModeGood(g, K)
    BY <1>5, <1>6, <1>8, <1>10, <1>11, <1>12 DEF ModeGood
  <1> QED BY <1>13 DEF g, K

\* A device gets a mode, unless it has no entry and there is no room for one.
LEMMA SetGood ==
  ASSUME NEW f, NEW k, ModeGood(f, k), NEW d \in Devices, NEW m \in Modes, aligned(f, d)
  PROVE  ModeGood(set_device_mode(f, d, m), [k EXCEPT ![d] = IF room(f, d) THEN m ELSE NoMode])
  <1> DEFINE g == set_device_mode(f, d, m)  i == find_entry(f, d)  n == count(f)
             x == IF room(f, d) THEN m ELSE NoMode  K == [k EXCEPT ![d] = x]
  <1>1. /\ f \in Seq(Cell) /\ JunkLast(f) /\ k \in [Devices -> Modes \cup {NoMode}]
        /\ \A a, b \in 1..n : id_at(f, a) \in Devices /\ id_at(f, a) = id_at(f, b) => a = b
        /\ \A a \in 1..n : id_at(f, a) \in Devices => mode_at(f, a) = k[id_at(f, a)]
        /\ \A e \in Devices : (\A a \in 1..n : id_at(f, a) # e) => k[e] = NoMode
    BY DEF ModeGood, DeviceAlone, ModeHolds, ModeAbsent
  <1>2. /\ n \in Nat /\ 3 * n <= Len(f) /\ Len(f) < 3 * n + 3
        /\ \A a \in 1..n : 3 * (a - 1) + 1 \in 1..Len(f) /\ 3 * (a - 1) + 2 \in 1..Len(f)
    BY <1>1, Cells DEF SIZE
  <1>3. \/ i = 0 /\ \A j \in 1..n : id_at(f, j) # d
        \/ i # 0 /\ i \in 1..n /\ id_at(f, i) = d
    BY <1>1, DeviceFind
  <1>4. /\ K \in [Devices -> Modes \cup {NoMode}] /\ K[d] = x
        /\ \A e \in Devices : e # d => K[e] = k[e]
    BY <1>1
  <1>5. m \in Cell /\ d \in Cell /\ "end" \in Cell
    BY DEF Cell
  <1> HIDE DEF i, n, K
  <1>6. CASE i # 0
    <2> DEFINE p == 3 * (i - 1) + 1
    <2>1. g = [f EXCEPT ![p] = m]
      BY <1>6 DEF set_device_mode, i, SIZE
    <2>2. i \in 1..n /\ id_at(f, i) = d /\ p \in 1..Len(f)
      BY <1>2, <1>3, <1>6
    <2>3. g \in Seq(Cell) /\ Len(g) = Len(f)
      BY <1>1, <1>5, <2>1, <2>2
    <2>4. JunkLast(g) /\ count(g) = n
      <3>1. count(g) = n
        BY <2>3 DEF count, n
      <3>2. ASSUME NEW q \in 1..Len(f), q > 3 * n PROVE g[q] = Junk
        <4>1. q # p
          BY <1>2, <2>2, <3>2
        <4>2. f[q] = Junk
          BY <1>1, <3>2 DEF JunkLast, SIZE, n
        <4> QED BY <1>1, <2>1, <4>1, <4>2
      <3> QED BY <2>3, <3>1, <3>2 DEF JunkLast, SIZE
    <2>5. ASSUME NEW a \in 1..n
          PROVE  id_at(g, a) = id_at(f, a) /\ mode_at(g, a) = IF a = i THEN m ELSE mode_at(f, a)
      <3>1. /\ 3 * (a - 1) + 2 # p /\ (3 * (a - 1) + 1 = p <=> a = i)
            /\ 3 * (a - 1) + 1 \in 1..Len(f) /\ 3 * (a - 1) + 2 \in 1..Len(f)
        BY <1>2, <2>2
      <3> HIDE DEF p
      <3>2. /\ g[3 * (a - 1) + 2] = f[3 * (a - 1) + 2]
            /\ g[3 * (a - 1) + 1] = IF a = i THEN m ELSE f[3 * (a - 1) + 1]
        BY <1>1, <2>1, <2>2, <3>1
      <3> QED BY <3>2 DEF id_at, mode_at, SIZE
    <2> HIDE DEF g
    <2>6. x = m
      BY <1>6 DEF room, i
    <2> HIDE DEF x
    <2>7. DeviceAlone(g)
      BY <1>1, <2>4, <2>5 DEF DeviceAlone
    <2>8. ModeHolds(g, K)
      BY <1>1, <1>4, <2>2, <2>4, <2>5, <2>6 DEF ModeHolds
    <2>9. ModeAbsent(g, K)
      BY <1>1, <1>4, <2>2, <2>4, <2>5 DEF ModeAbsent
    <2> QED BY <1>4, <2>3, <2>4, <2>7, <2>8, <2>9 DEF ModeGood, g, K, x
  <1>7. CASE i = 0 /\ Len(f) + SIZE <= ENTRIES * SIZE
    <2> DEFINE t == <<m, d, "end">>
    <2>1. g = f \o t
      BY <1>7, Zenon DEF set_device_mode, i
    <2>2. t \in Seq(Cell) /\ Len(t) = 3 /\ t[1] = m /\ t[2] = d
      BY <1>5
    <2> HIDE DEF t
    <2>3. /\ g \in Seq(Cell) /\ Len(g) = Len(f) + 3
          /\ \A p \in 1..Len(f) : g[p] = f[p]
          /\ g[Len(f) + 1] = m /\ g[Len(f) + 2] = d
      <3>1. ASSUME NEW b \in Seq(Cell)
            PROVE  /\ f \o b \in Seq(Cell) /\ Len(f \o b) = Len(f) + Len(b)
                   /\ \A p \in 1..Len(f) : (f \o b)[p] = f[p]
                   /\ \A p \in 1..Len(b) : (f \o b)[Len(f) + p] = b[p]
        BY <1>1
      <3>2. 1 \in 1..Len(t) /\ 2 \in 1..Len(t)
        BY <2>2
      <3> HIDE DEF g
      <3> QED BY <2>1, <2>2, <3>1, <3>2
    <2> HIDE DEF g
    <2>t. Len(f) = 3 * n
      <3>1. Len(f) % 3 = 0
        BY <1>7 DEF aligned, SIZE, i
      <3> QED BY <1>2, <3>1
    <2>4. JunkLast(g) /\ count(g) = n + 1
      BY <1>2, <2>3, <2>t DEF JunkLast, count, SIZE
    <2>5. /\ \A a \in 1..n : id_at(g, a) = id_at(f, a) /\ mode_at(g, a) = mode_at(f, a)
          /\ id_at(g, n + 1) = d /\ mode_at(g, n + 1) = m
          /\ \A a \in 1..(n + 1) : a \in 1..n \/ a = n + 1
      <3>1. 3 * (n + 1 - 1) + 1 = Len(f) + 1 /\ 3 * (n + 1 - 1) + 2 = Len(f) + 2
        BY <1>2, <2>t
      <3>2. \A a \in 1..(n + 1) : a \in 1..n \/ a = n + 1
        BY <1>2
      <3>3. id_at(g, n + 1) = d /\ mode_at(g, n + 1) = m
        <4>1. /\ id_at(g, n + 1) = g[3 * (n + 1 - 1) + 2]
              /\ mode_at(g, n + 1) = g[3 * (n + 1 - 1) + 1]
          BY <1>2 DEF id_at, mode_at, SIZE
        <4> QED BY <2>3, <3>1, <4>1, Zenon
      <3>4. \A a \in 1..n : id_at(g, a) = id_at(f, a) /\ mode_at(g, a) = mode_at(f, a)
        BY <1>2, <2>3 DEF id_at, mode_at, SIZE
      <3> QED BY <3>2, <3>3, <3>4
    <2>6. n + 1 \in 1..(n + 1) /\ \A a \in 1..n : a \in 1..(n + 1)
      BY <1>2
    <2>7. x = m
      BY <1>7 DEF room
    <2> HIDE DEF x
    <2>8. \A a \in 1..n : id_at(f, a) # d
      BY <1>3, <1>7
    <2>9. DeviceAlone(g)
      BY <1>1, <2>4, <2>5, <2>8 DEF DeviceAlone
    <2>10. ModeHolds(g, K)
      BY <1>1, <1>4, <2>4, <2>5, <2>7, <2>8 DEF ModeHolds
    <2>11. ModeAbsent(g, K)
      <3> SUFFICES ASSUME NEW e \in Devices, \A a \in 1..(n + 1) : id_at(g, a) # e PROVE K[e] = NoMode
        BY <2>4 DEF ModeAbsent
      <3>1. e # d
        BY <2>5, <2>6
      <3>2. \A a \in 1..n : id_at(f, a) # e
        BY <2>5, <2>6
      <3> QED BY <1>1, <1>4, <3>1, <3>2
    <2> QED BY <1>4, <2>3, <2>4, <2>9, <2>10, <2>11 DEF ModeGood, g, K, x
  <1>8. CASE i = 0 /\ ~(Len(f) + SIZE <= ENTRIES * SIZE)
    <2>1. g = f
      BY <1>8, Zenon DEF set_device_mode, i
    <2>2. x = NoMode
      BY <1>8 DEF room, i
    <2>3. k[d] = NoMode
      BY <1>1, <1>3, <1>8
    <2>4. K = k
      BY <1>1, <2>2, <2>3 DEF K
    <2> QED BY <2>1, <2>4 DEF K
  <1> QED BY <1>6, <1>7, <1>8

LEMMA StoreGood == ASSUME Setting, ModeInv, store_device_mode PROVE ModeInv'
  <1> DEFINE F(m) == clear_entries(file, m)
  <1>1. PICK d \in Devices, m \in Modes :
          /\ file' = set_device_mode(F(m), d, m)
          /\ known' = [e \in Devices |-> CASE e = d -> IF room(F(m), d) THEN m ELSE NoMode
                                           [] e # d /\ known[e] = m -> NoMode
                                           [] OTHER -> known[e]]
          /\ torn' = (torn \/ ~aligned(F(m), d))
    BY DEF store_device_mode
  <1> DEFINE k == [e \in Devices |-> IF known[e] = m THEN NoMode ELSE known[e]]
             f == F(m)  x == IF room(f, d) THEN m ELSE NoMode
  <1> SUFFICES ASSUME ModeGood(file, known), aligned(f, d) PROVE ModeGood(file', known')
    BY <1>1 DEF ModeInv
  <1>2. ModeGood(f, k)
    BY ClearGood
  <1>3. ModeGood(set_device_mode(f, d, m), [k EXCEPT ![d] = x])
    BY <1>2, SetGood
  <1> HIDE DEF F
  <1>4. known' = [k EXCEPT ![d] = x]
    BY <1>1
  <1> QED BY <1>1, <1>3, <1>4

LEMMA AlsoGood == ASSUME ModeInv, store_device_also PROVE ModeInv'
  <1>1. PICK d \in Devices, m \in Modes :
          /\ file' = set_device_mode(file, d, m)
          /\ known' = [known EXCEPT ![d] = IF room(file, d) THEN m ELSE NoMode]
          /\ torn' = (torn \/ ~aligned(file, d))
    BY DEF store_device_also
  <1> SUFFICES ASSUME ModeGood(file, known), aligned(file, d) PROVE ModeGood(file', known')
    BY <1>1 DEF ModeInv
  <1>2. ModeGood(set_device_mode(file, d, m), [known EXCEPT ![d] = IF room(file, d) THEN m ELSE NoMode])
    BY SetGood
  <1> QED BY <1>1, <1>2

\* An entry before the last is deleted: those behind it move up.
LEMMA DeleteGood ==
  ASSUME Setting, NEW f, NEW k, ModeGood(f, k), NEW d \in Devices, NEW i \in 1..count(f),
         id_at(f, i) = d, i < count(f)
  PROVE  ModeGood(delete_entry(f, i), [k EXCEPT ![d] = NoMode])
  <1> DEFINE g == delete_entry(f, i)  n == count(f)  L == Len(f)  K == [k EXCEPT ![d] = NoMode]
             src(a) == IF a < i THEN a ELSE a + 1
  <1>1. /\ f \in Seq(Cell) /\ k \in [Devices -> Modes \cup {NoMode}]
        /\ \A p \in 1..L : p > 3 * n => f[p] = Junk
        /\ \A a, b \in 1..n : id_at(f, a) \in Devices /\ id_at(f, a) = id_at(f, b) => a = b
        /\ \A a \in 1..n : id_at(f, a) \in Devices => mode_at(f, a) = k[id_at(f, a)]
        /\ \A e \in Devices : (\A a \in 1..n : id_at(f, a) # e) => k[e] = NoMode
    BY DEF ModeGood, JunkLast, DeviceAlone, ModeHolds, ModeAbsent, SIZE
  <1>2. L \in Nat /\ n \in Nat /\ 3 * n <= L /\ L < 3 * n + 3 /\ i \in 1..n /\ i < n
    BY <1>1, Cells DEF SIZE
  <1>3. g = [p \in 1..(L - 1) |-> CASE p <= 3 * (i - 1) -> f[p]
                                    [] p > 3 * (i - 1) /\ p + 3 <= L -> f[p + 3]
                                    [] OTHER -> Junk]
    BY DEF delete_entry, SIZE
  <1>4. /\ K \in [Devices -> Modes \cup {NoMode}] /\ K[d] = NoMode
        /\ \A e \in Devices : e # d => K[e] = k[e]
    BY <1>1
  <1>5. Junk \notin Devices /\ Junk \in Cell
    BY DEF Setting, Cell
  <1>6. id_at(f, i) = d /\ \A a \in 1..n : id_at(f, a) = f[3 * (a - 1) + 2] /\ mode_at(f, a) = f[3 * (a - 1) + 1]
    BY DEF id_at, mode_at, SIZE
  <1> HIDE DEF g, n, L, K
  <1>7. /\ g \in Seq(Cell) /\ Len(g) = L - 1
        /\ \A p \in 1..(L - 1) : p <= 3 * (i - 1) => g[p] = f[p]
        /\ \A p \in 1..(L - 1) : p > 3 * (i - 1) /\ p + 3 <= L => g[p] = f[p + 3]
        /\ \A p \in 1..(L - 1) : p > 3 * (i - 1) /\ p + 3 > L => g[p] = Junk
    <2>1. \A p \in 1..L : f[p] \in Cell
      BY <1>1 DEF L
    <2>2. L - 1 \in Nat
      BY <1>2
    <2>3. \A p \in 1..(L - 1) :
            /\ p <= 3 * (i - 1) => g[p] = f[p]
            /\ p > 3 * (i - 1) /\ p + 3 <= L => g[p] = f[p + 3]
            /\ p > 3 * (i - 1) /\ p + 3 > L => g[p] = Junk
      BY <1>2, <1>3
    <2>4. ASSUME NEW p \in 1..(L - 1) PROVE g[p] \in Cell
      <3>1. CASE p <= 3 * (i - 1)
        <4>1. p \in 1..L
          BY <1>2, <3>1
        <4>2. g[p] = f[p]
          BY <2>3, <3>1, Zenon
        <4> QED BY <2>1, <4>1, <4>2
      <3>2. CASE p > 3 * (i - 1) /\ p + 3 <= L
        <4>1. p + 3 \in 1..L
          BY <1>2, <3>2
        <4>2. g[p] = f[p + 3]
          BY <2>3, <3>2, Zenon
        <4> QED BY <2>1, <4>1, <4>2
      <3>3. CASE p > 3 * (i - 1) /\ p + 3 > L
        BY <1>5, <2>3, <3>3, Zenon
      <3> QED BY <1>2, <3>1, <3>2, <3>3
    <2>5. g \in [1..(L - 1) -> Cell]
      BY <1>3, <2>4
    <2>6. ASSUME NEW m \in Nat, NEW h \in [1..m -> Cell] PROVE h \in Seq(Cell) /\ Len(h) = m
      OBVIOUS
    <2>7. g \in Seq(Cell) /\ Len(g) = L - 1
      BY <2>2, <2>5, <2>6
    <2> QED BY <2>3, <2>7, Zenon
  <1> DEFINE c == count(g)
  <1>8. c \in Nat /\ 3 * c <= L - 1 /\ L - 1 < 3 * c + 3 /\ c \in (n - 1)..n
    <2>1. c \in Nat /\ 3 * c <= Len(g) /\ Len(g) < 3 * c + 3
      BY <1>7, Cells DEF SIZE
    <2> QED BY <1>2, <1>7, <2>1
  <1> HIDE DEF c
  <1>9. JunkLast(g)
    <2> SUFFICES ASSUME NEW p \in 1..(L - 1), p > 3 * c PROVE g[p] = Junk
      BY <1>7 DEF JunkLast, SIZE, c
    <2>1. p > 3 * (i - 1) /\ p + 3 > 3 * n
      BY <1>2, <1>8
    <2> QED BY <1>1, <1>2, <1>7, <2>1
  <1>10. ASSUME NEW a \in 1..c
         PROVE  \/ src(a) \in 1..n /\ id_at(g, a) = id_at(f, src(a)) /\ mode_at(g, a) = mode_at(f, src(a))
                \/ id_at(g, a) = Junk
    <2> DEFINE p == 3 * (a - 1) + 1  q == 3 * (a - 1) + 2
    <2>1. id_at(g, a) = g[q] /\ mode_at(g, a) = g[p] /\ p \in 1..(L - 1) /\ q \in 1..(L - 1)
      <3>1. p \in 1..(L - 1) /\ q \in 1..(L - 1)
        BY <1>2, <1>8
      <3>2. id_at(g, a) = g[q] /\ mode_at(g, a) = g[p]
        BY DEF id_at, mode_at, SIZE
      <3> QED BY <3>1, <3>2
    <2>2. CASE a < i
      <3>1. p <= 3 * (i - 1) /\ q <= 3 * (i - 1) /\ a \in 1..n
        BY <1>2, <2>2
      <3>2. g[p] = f[p] /\ g[q] = f[q]
        BY <1>7, <2>1, <3>1
      <3> QED BY <1>6, <2>1, <2>2, <3>1, <3>2
    <2>3. CASE ~(a < i) /\ a + 1 <= n
      <3>1. /\ p > 3 * (i - 1) /\ q > 3 * (i - 1) /\ a + 1 \in 1..n /\ p + 3 <= L /\ q + 3 <= L
            /\ 3 * (a + 1 - 1) + 1 = p + 3 /\ 3 * (a + 1 - 1) + 2 = q + 3
        BY <1>2, <2>3
      <3>2. g[p] = f[p + 3] /\ g[q] = f[q + 3]
        BY <1>7, <2>1, <3>1
      <3>3. id_at(f, a + 1) = f[q + 3] /\ mode_at(f, a + 1) = f[p + 3]
        BY <1>6, <3>1
      <3> QED BY <2>1, <2>3, <3>1, <3>2, <3>3
    <2>4. CASE ~(a < i) /\ ~(a + 1 <= n)
      <3>1. q > 3 * (i - 1) /\ q + 3 > 3 * n
        BY <1>2, <2>4
      <3>2. CASE q + 3 <= L
        <4>1. q + 3 \in 1..L
          BY <1>2, <2>1, <3>2
        <4>2. f[q + 3] = Junk
          BY <1>1, <3>1, <4>1
        <4> QED BY <1>7, <2>1, <3>1, <3>2, <4>2
      <3>3. CASE ~(q + 3 <= L)
        <4>1. q + 3 > L
          BY <1>2, <2>1, <3>3
        <4> QED BY <1>7, <2>1, <3>1, <4>1
      <3> QED BY <3>2, <3>3
    <2> QED BY <2>2, <2>3, <2>4
  <1>11. ASSUME NEW b \in 1..n, b # i
         PROVE  \E a \in 1..c : id_at(g, a) = id_at(f, b) \/ id_at(f, b) = Junk
    <2> DEFINE a == IF b < i THEN b ELSE b - 1
    <2>1. a \in 1..c /\ src(a) = b
      BY <1>2, <1>8, <1>11
    <2>2. id_at(g, a) = id_at(f, src(a)) \/ id_at(g, a) = Junk
      BY <1>10, <2>1
    <2>3. id_at(g, a) = id_at(f, b)
      <3> DEFINE q == 3 * (a - 1) + 2
      <3>1. id_at(g, a) = g[q] /\ id_at(f, b) = f[3 * (b - 1) + 2] /\ q \in 1..(L - 1)
        <4>1. q \in 1..(L - 1)
          BY <1>2, <1>8, <2>1
        <4>2. id_at(g, a) = g[q]
          BY DEF id_at, SIZE
        <4> QED BY <1>6, <4>1, <4>2
      <3>2. CASE b < i
        <4>1. q <= 3 * (i - 1) /\ a = b
          BY <1>2, <3>2
        <4> QED BY <1>7, <3>1, <4>1
      <3>3. CASE ~(b < i)
        <4>1. q > 3 * (i - 1) /\ q + 3 <= L /\ q + 3 = 3 * (b - 1) + 2
          BY <1>2, <1>11, <3>3
        <4>2. g[q] = f[q + 3]
          BY <1>7, <3>1, <4>1
        <4> QED BY <3>1, <4>1, <4>2
      <3> QED BY <3>2, <3>3
    <2> HIDE DEF a
    <2> QED BY <2>1, <2>3
  <1>12. \A a, b \in 1..c : src(a) = src(b) => a = b
    BY <1>2, <1>8
  <1>13. \A a \in 1..c : src(a) # i
    BY <1>2, <1>8
  <1> HIDE DEF src
  <1>14. DeviceAlone(g)
    BY <1>1, <1>5, <1>10, <1>12 DEF DeviceAlone, c
  <1>15. ModeHolds(g, K)
    <2> SUFFICES ASSUME NEW a \in 1..c, id_at(g, a) \in Devices PROVE mode_at(g, a) = K[id_at(g, a)]
      BY DEF ModeHolds, c
    <2>1. src(a) \in 1..n /\ id_at(g, a) = id_at(f, src(a)) /\ mode_at(g, a) = mode_at(f, src(a))
      BY <1>5, <1>10
    <2>2. id_at(f, src(a)) # d
      BY <1>1, <1>2, <1>6, <1>13, <2>1
    <2> QED BY <1>1, <1>4, <2>1, <2>2
  <1>16. ModeAbsent(g, K)
    <2> SUFFICES ASSUME NEW e \in Devices, \A a \in 1..c : id_at(g, a) # e, e # d PROVE K[e] = NoMode
      BY <1>4 DEF ModeAbsent, c
    <2>1. ASSUME NEW b \in 1..n PROVE id_at(f, b) # e
      <3>1. CASE b = i
        BY <1>6, <3>1
      <3>2. CASE b # i
        BY <1>5, <1>11, <3>2
      <3> QED BY <3>1, <3>2
    <2> QED BY <1>1, <1>4, <2>1
  <1>17. ModeGood(g, K)
    BY <1>4, <1>7, <1>9, <1>14, <1>15, <1>16 DEF ModeGood
  <1> QED BY <1>17 DEF g, K

\* The only entry is deleted, or one before the last.
LEMMA ClearedGood == ASSUME Setting, ModeInv, clear_device_entry PROVE ModeInv'
  <1>1. PICK d \in Devices :
          /\ find_entry(file, d) # 0
          /\ file' = delete_entry(file, find_entry(file, d))
          /\ known' = [known EXCEPT ![d] = NoMode]
          /\ torn' = (torn \/ (find_entry(file, d) > 1 /\ find_entry(file, d) = count(file)))
    BY DEF clear_device_entry
  <1> DEFINE i == find_entry(file, d)  n == count(file)
  <1> SUFFICES ASSUME ModeGood(file, known), ~(i > 1 /\ i = n) PROVE ModeGood(file', known')
    BY <1>1 DEF ModeInv
  <1>2. /\ file \in Seq(Cell) /\ known \in [Devices -> Modes \cup {NoMode}]
        /\ n \in Nat /\ i \in 1..n /\ id_at(file, i) = d
    BY <1>1, DeviceFind, Cells DEF ModeGood
  <1>3. CASE i < n
    BY <1>1, <1>2, <1>3, DeleteGood
  <1>4. CASE ~(i < n)
    <2>1. n = 1 /\ i = 1
      BY <1>2, <1>4
    <2>2. file' = <<>>
      <3>1. file' = SubSeq(file, 1, 0)
        BY <1>1, <2>1 DEF delete_entry
      <3> QED BY <1>2, <3>1
    <2>3. \A e \in Devices : e # d => known[e] = NoMode
      BY <1>2, <2>1 DEF ModeGood, ModeAbsent
    <2>4. known' \in [Devices -> Modes \cup {NoMode}] /\ \A e \in Devices : known'[e] = NoMode
      BY <1>1, <1>2, <2>3
    <2>5. <<>> \in Seq(Cell) /\ JunkLast(<<>>) /\ count(<<>>) = 0
      BY DEF JunkLast, count, SIZE
    <2> QED BY <2>2, <2>4, <2>5 DEF ModeGood, DeviceAlone, ModeHolds, ModeAbsent
  <1> QED BY <1>3, <1>4

\* ifctl finds the mode it saved last, for as long as only entries before the last
\* were deleted and none was added since.
LEMMA ModesAlways == ASSUME Setting PROVE ModeSpec => []ModesFound
  <1>1. ModeInit => ModeInv
    <2> SUFFICES ASSUME ModeInit PROVE ModeGood(file, known) /\ torn \in BOOLEAN
      BY DEF ModeInv
    <2>1. file = <<>> /\ known \in [Devices -> Modes \cup {NoMode}] /\ \A d \in Devices : known[d] = NoMode
      BY DEF ModeInit
    <2>2. <<>> \in Seq(Cell) /\ JunkLast(<<>>) /\ count(<<>>) = 0
      BY DEF JunkLast, count, SIZE
    <2>3. torn \in BOOLEAN
      BY DEF ModeInit
    <2> QED BY <2>1, <2>2, <2>3 DEF ModeGood, DeviceAlone, ModeHolds, ModeAbsent
  <1>2. ModeInv /\ [ModeNext]_modes_vars => ModeInv'
    <2>1. ASSUME ModeInv, UNCHANGED modes_vars PROVE ModeInv'
      BY <2>1 DEF modes_vars, ModeInv
    <2> QED BY <2>1, StoreGood, AlsoGood, ClearedGood DEF ModeNext
  <1>3. ModeInv => ModesFound
    BY ModeFound
  <1> QED BY <1>1, <1>2, <1>3, PTL DEF ModeSpec

-----------------------------------------------------------------------------

(***************************************************************************)
(* The negotiation.  Every key the access point agrees to is made of its   *)
(* nonce and wsupp's for one and the same association.  So a 3/4 that      *)
(* wsupp takes is one of the association that goes on, for which nothing   *)
(* was uploaded yet; and since the replay counter of the access point only *)
(* grows, so do the group keys in the packets wsupp takes.                 *)
(***************************************************************************)
Key == Nat \X Nat
Waiting == {"ES_WAITING_1_4", "ES_WAITING_2_4", "ES_WAITING_3_4"}
Grouped == {"3", "g"}

EapType ==
  [state : {"ES_IDLE", "ES_NEGOTIATED"} \cup Waiting, sends : BOOLEAN, snonce : Nat, anonce : Nat,
   replay : Nat, kck : Key, ptk : Key, gtk : Nat, raw : BOOLEAN]
ApType ==
  [state : {"idle", "s1", "s3", "up"}, session : Nat, replay : Nat, first : Nat, ptk : Key, gtk : Nat,
   agreed : SUBSET Key]
PacketType == [t : {"none", "1", "2", "3", "4", "g", "g2"}, nonce : Nat, replay : Nat, mic : Key, gtk : Nat]
CardType == [ptks : Seq(Key), gtks : Seq(Nat)]

\* the access point
ApInv(a) ==
  /\ a \in ApType /\ a.gtk > 0
  /\ a.state \in {"s3", "up"} => a.ptk \in a.agreed
  /\ \A k \in a.agreed : k[1] = k[2] /\ k[1] <= a.session

\* a packet, while the access point is a
Sound(p, a) ==
  /\ p \in PacketType
  /\ p.t = "1" => p.nonce <= a.session
  /\ p.t = "2" => p.mic[2] = p.nonce /\ p.mic[1] <= p.nonce /\ p.nonce <= a.session
  /\ p.t \in Grouped => p.mic \in a.agreed /\ p.replay <= a.replay /\ 0 < p.gtk /\ p.gtk <= a.gtk

Ordered(p, q) == p.t \in Grouped /\ q.t \in Grouped /\ p.replay <= q.replay => p.gtk <= q.gtk

AirInv(S, a) == (\A p \in S : Sound(p, a)) /\ (\A p, q \in S : Ordered(p, q))

\* wsupp
EapInv(e, a) ==
  /\ e \in EapType
  /\ ~e.raw => a.state = "idle"
  /\ e.raw /\ e.state \in Waiting => e.snonce = a.session
  /\ e.raw /\ e.state \in {"ES_WAITING_2_4", "ES_WAITING_3_4"} =>
       e.kck = <<e.anonce, e.snonce>> /\ e.ptk = e.kck /\ e.anonce <= a.session

\* what it uploaded
CardInv(c, a) ==
  /\ c \in CardType
  /\ \A i \in DOMAIN c.ptks :
       c.ptks[i] \in a.agreed /\ \A j \in DOMAIN c.ptks : c.ptks[j] = c.ptks[i] => i = j
  /\ \A i \in DOMAIN c.gtks : 0 < c.gtks[i] /\ c.gtks[i] <= a.gtk
  /\ \A i, j \in DOMAIN c.gtks : i < j => c.gtks[i] <= c.gtks[j]

\* p has a group key as new as any uploaded
Newer(c, p) == \A i \in DOMAIN c.gtks : c.gtks[i] <= p.gtk

\* what wsupp may yet take is newer than what it uploaded
NextInv(e, c, a, S) ==
  /\ e.raw /\ e.state \in Waiting =>
       /\ \A i \in DOMAIN c.ptks : c.ptks[i][2] < a.session
       /\ \A p \in S : p.t \in Grouped /\ p.mic[2] = a.session => Newer(c, p)
  /\ e.raw /\ e.state = "ES_NEGOTIATED" =>
       \A p \in S : p.t \in Grouped /\ e.replay <= p.replay => Newer(c, p)

KInv == ApInv(ap) /\ AirInv(air, ap) /\ EapInv(eap, ap) /\ CardInv(card, ap) /\ NextInv(eap, card, ap, air)

-----------------------------------------------------------------------------
\* Append to a sequence.
LEMMA Appended ==
  ASSUME NEW T, NEW s \in Seq(T), NEW x \in T
  PROVE  LET u == Append(s, x) IN
         /\ u \in Seq(T) /\ DOMAIN s = 1..Len(s) /\ Len(s) \in Nat /\ DOMAIN u = 1..(Len(s) + 1)
         /\ \A i \in DOMAIN s : i \in DOMAIN u /\ u[i] = s[i]
         /\ u[Len(s) + 1] = x
  OBVIOUS

\* Nothing is agreed and nothing is in the air.
LEMMA InitKInv == KeyInit => KInv
  <1> SUFFICES ASSUME KeyInit PROVE KInv
    OBVIOUS
  <1>1. ap \in ApType /\ ap.gtk = 1 /\ ap.state = "idle" /\ ap.agreed = {}
    BY DEF KeyInit, ApType, Key, ZeroKey
  <1>2. ApInv(ap)
    BY <1>1 DEF ApInv
  <1>3. AirInv(air, ap)
    BY DEF KeyInit, AirInv
  <1>4. eap \in EapType /\ ~eap.raw
    BY DEF KeyInit, EapType, Key, ZeroKey
  <1>5. EapInv(eap, ap)
    BY <1>1, <1>4 DEF EapInv
  <1>6. card \in CardType /\ DOMAIN card.ptks = {} /\ DOMAIN card.gtks = {}
    BY DEF KeyInit, CardType
  <1>7. CardInv(card, ap)
    BY <1>6 DEF CardInv
  <1>8. NextInv(eap, card, ap, air)
    BY <1>4 DEF NextInv
  <1> QED BY <1>2, <1>3, <1>5, <1>7, <1>8 DEF KInv

\* A packet that carries no group key changes nothing for the others.
LEMMA AirAdds ==
  ASSUME NEW S, NEW a, AirInv(S, a), NEW p, Sound(p, a), p.t \notin Grouped
  PROVE  AirInv(S \cup {p}, a)
  BY DEF AirInv, Ordered

\* Nor for what wsupp may yet take.
LEMMA NextAdds ==
  ASSUME NEW e, NEW c, NEW a, NEW S, NextInv(e, c, a, S), NEW p, p.t \notin Grouped
  PROVE  NextInv(e, c, a, S \cup {p})
  BY DEF NextInv

\* A packet of wsupp: lost before the association, otherwise in the air.
LEMMA Sends ==
  ASSUME NEW p, send_packet(p), AirInv(air, ap), Sound(p, ap), p.t \notin Grouped
  PROVE  /\ AirInv(air', ap)
         /\ \A e, c : NextInv(e, c, ap, air) => NextInv(e, c, ap, air')
  <1>1. air' = air \/ air' = air \cup {p}
    BY DEF send_packet
  <1> QED BY <1>1, AirAdds, NextAdds

\* What holds of packets and keys goes on doing so while the access point
\* counts up.
Grows(a, b) ==
  /\ a \in ApType /\ b \in ApType
  /\ a.session <= b.session /\ a.replay <= b.replay /\ a.gtk <= b.gtk /\ a.agreed \subseteq b.agreed

\* For the packets in the air.
LEMMA AirGrows ==
  ASSUME NEW a, NEW b, Grows(a, b), NEW S, AirInv(S, a)
  PROVE  AirInv(S, b)
  <1> SUFFICES ASSUME NEW p \in S PROVE Sound(p, b)
    BY DEF AirInv
  <1>1. Sound(p, a)
    BY DEF AirInv
  <1> QED BY <1>1 DEF Grows, Sound, ApType, PacketType, Key, Grouped

\* And for the keys on the card.
LEMMA CardGrows ==
  ASSUME NEW a, NEW b, Grows(a, b), NEW c, CardInv(c, a)
  PROVE  CardInv(c, b)
  <1>1. \A i \in DOMAIN c.gtks : c.gtks[i] \in Nat
    BY DEF CardInv, CardType
  <1> QED BY <1>1 DEF Grows, CardInv, ApType

\* A new association: no key and no packet is of it yet.
LEMMA ProceedStep ==
  ASSUME KInv, proceed_with_connect
  PROVE  KInv'
  <1> DEFINE n == ap.session + 1
  <1>1. /\ ap \in ApType /\ ApInv(ap) /\ eap \in EapType /\ CardInv(card, ap) /\ AirInv(air, ap)
        /\ n \in Nat /\ ZeroKey \in Key
    BY DEF KInv, ApInv, EapInv, ApType, ZeroKey, Key
  <1>2. /\ ap' = [ap EXCEPT !.state = "s1", !.session = n, !.first = ap.replay, !.ptk = ZeroKey]
        /\ eap' = [eap EXCEPT !.state = "ES_WAITING_1_4", !.sends = FALSE, !.snonce = n, !.raw = TRUE]
        /\ card' = card /\ air' = air
    BY DEF proceed_with_connect
  <1> HIDE DEF n
  <1>3. /\ ap' \in ApType /\ ap'.session = n /\ ap'.state = "s1" /\ ap'.agreed = ap.agreed
        /\ ap'.gtk = ap.gtk /\ ap'.replay = ap.replay
    BY <1>1, <1>2 DEF ApType
  <1>4. eap' \in EapType /\ eap'.raw /\ eap'.snonce = n /\ eap'.state = "ES_WAITING_1_4"
    <2>1. ASSUME NEW b \in BOOLEAN, NEW r \in BOOLEAN
          PROVE  LET e == [eap EXCEPT !.state = "ES_WAITING_1_4", !.sends = b, !.snonce = n, !.raw = r] IN
                 e \in EapType /\ e.raw = r /\ e.snonce = n /\ e.state = "ES_WAITING_1_4"
      BY <1>1 DEF EapType, Waiting
    <2>2. FALSE \in BOOLEAN /\ TRUE \in BOOLEAN
      OBVIOUS
    <2> QED BY <1>2, <2>1, <2>2, Zenon
  <1>5. ap.session \in Nat /\ ap.session < n /\ ap.replay \in Nat /\ ap.gtk \in Nat
    BY <1>1 DEF n, ApType
  <1>6. Grows(ap, ap')
    BY <1>1, <1>3, <1>5 DEF Grows
  <1>7. ApInv(ap')
    BY <1>1, <1>3, <1>5 DEF ApInv, ApType, Key
  <1>8. AirInv(air', ap') /\ CardInv(card', ap')
    BY <1>1, <1>2, <1>6, AirGrows, CardGrows
  <1>9. EapInv(eap', ap')
    BY <1>3, <1>4 DEF EapInv
  <1>10. NextInv(eap', card', ap', air')
    <2>1. \A k \in ap.agreed : k[2] < n
      BY <1>1, <1>5 DEF ApInv, ApType, Key
    <2>2. \A i \in DOMAIN card.ptks : card.ptks[i][2] < n
      BY <1>1, <2>1 DEF CardInv
    <2>3. ASSUME NEW p \in air, p.t \in Grouped, p.mic[2] = n PROVE FALSE
      <3>1. p.mic \in ap.agreed
        BY <1>1, <2>3 DEF AirInv, Sound
      <3> QED BY <1>1, <1>5, <2>1, <2>3, <3>1
    <2> QED BY <1>2, <1>3, <1>4, <2>2, <2>3 DEF NextInv
  <1> QED BY <1>7, <1>8, <1>9, <1>10 DEF KInv

\* 2/4 goes out
LEMMA SecondStep ==
  ASSUME KInv, NEW e, EapInv(e, ap), e.raw, e.state \in Waiting, ap' = ap,
         e.kck = <<e.anonce, e.snonce>>, e.ptk = e.kck, e.anonce <= ap.session,
         eap.raw, eap.state \in Waiting, send_packet_2(e)
  PROVE  KInv'
  <1> DEFINE q == [NoPacket EXCEPT !.t = "2", !.nonce = e.snonce, !.replay = e.replay, !.mic = e.kck]
  <1>1. eap' = [e EXCEPT !.state = "ES_WAITING_3_4"] /\ send_packet(q) /\ card' = card
    BY DEF send_packet_2
  <1>2. e \in EapType /\ e.snonce = ap.session /\ ap \in ApType
    BY DEF EapInv, KInv, ApInv
  <1>3. q \in PacketType /\ q.t = "2" /\ q.nonce = e.snonce /\ q.mic = e.kck
    BY <1>2 DEF PacketType, NoPacket, EapType, ZeroKey, Key
  <1> HIDE DEF q
  <1>4. Sound(q, ap)
    BY <1>2, <1>3 DEF Sound, Grouped, EapType, ApType
  <1>5. /\ eap' \in EapType /\ eap'.state = "ES_WAITING_3_4" /\ eap'.raw = e.raw /\ eap'.snonce = e.snonce
        /\ eap'.anonce = e.anonce /\ eap'.kck = e.kck /\ eap'.ptk = e.ptk
    BY <1>1, <1>2 DEF EapType, Waiting
  <1>6. EapInv(eap', ap)
    BY <1>2, <1>5 DEF EapInv, Waiting
  <1>7. NextInv(eap', card, ap, air)
    BY <1>5 DEF KInv, NextInv, Waiting
  <1>8. AirInv(air', ap) /\ NextInv(eap', card, ap, air')
    <2>1. q.t \notin Grouped /\ AirInv(air, ap)
      BY <1>3 DEF Grouped, KInv
    <2> QED BY <1>1, <1>4, <1>7, <2>1, Sends
  <1> QED BY <1>1, <1>6, <1>8 DEF KInv

\* allow_eapol_sends lets a 2/4 that had to wait go.
LEMMA AllowStep ==
  ASSUME KInv, allow_eapol_sends
  PROVE  KInv'
  <1>1. /\ ap' = ap /\ ap.state # "idle" /\ eap.raw /\ eap \in EapType /\ EapInv(eap, ap)
    BY DEF allow_eapol_sends, KInv, EapInv
  <1>2. CASE eap.state = "ES_WAITING_1_4" /\ eap' = [eap EXCEPT !.sends = TRUE] /\ UNCHANGED <<card, air>>
    <2>1. ASSUME NEW b \in BOOLEAN
          PROVE  LET e == [eap EXCEPT !.sends = b] IN
                 /\ e \in EapType /\ e.raw = eap.raw /\ e.snonce = eap.snonce /\ e.state = eap.state
                 /\ e.kck = eap.kck /\ e.ptk = eap.ptk /\ e.anonce = eap.anonce /\ e.replay = eap.replay
      BY <1>1 DEF EapType
    <2>2. TRUE \in BOOLEAN
      OBVIOUS
    <2>3. /\ eap' \in EapType /\ eap'.raw = eap.raw /\ eap'.snonce = eap.snonce /\ eap'.state = eap.state
          /\ eap'.kck = eap.kck /\ eap'.ptk = eap.ptk /\ eap'.anonce = eap.anonce /\ eap'.replay = eap.replay
      BY <1>2, <2>1, <2>2, Zenon
    <2>4. EapInv(eap', ap)
      BY <1>1, <2>3 DEF EapInv
    <2>5. NextInv(eap', card, ap, air)
      BY <2>3 DEF KInv, NextInv
    <2> QED BY <1>1, <1>2, <2>4, <2>5 DEF KInv
  <1>3. CASE eap.state = "ES_WAITING_2_4" /\ send_packet_2(eap)
    BY <1>1, <1>3, SecondStep DEF EapInv, Waiting
  <1> QED BY <1>2, <1>3 DEF allow_eapol_sends

\* 1/4: the keys are made of its nonce and the one of this association.
LEMMA FirstStep ==
  ASSUME KInv, eap.raw, NEW p \in air, recv_packet_1(p)
  PROVE  KInv'
  <1> DEFINE x == [eap EXCEPT !.anonce = p.nonce, !.replay = p.replay]
             k == <<p.nonce, eap.snonce>>
             e == pmk_to_ptk(x)
  <1>1. /\ ap' = ap /\ eap.state = "ES_WAITING_1_4" /\ p.t = "1"
        /\ \/ send_packet_2(e)
           \/ eap' = [e EXCEPT !.state = "ES_WAITING_2_4"] /\ UNCHANGED <<card, air>>
    BY DEF recv_packet_1
  <1>2. eap \in EapType /\ EapInv(eap, ap) /\ eap.snonce = ap.session /\ p \in PacketType /\ p.nonce <= ap.session
    BY <1>1 DEF KInv, EapInv, Waiting, AirInv, Sound
  <1>3. /\ x \in EapType /\ x.anonce = p.nonce /\ x.snonce = eap.snonce /\ x.raw = eap.raw /\ x.state = eap.state
    BY <1>2 DEF EapType, PacketType
  <1>4. k \in Key
    BY <1>2 DEF Key, EapType, PacketType
  <1>5. e = [x EXCEPT !.kck = k, !.ptk = k]
    BY <1>3 DEF pmk_to_ptk
  <1> HIDE DEF x, k
  <1>6. /\ e \in EapType /\ e.raw = x.raw /\ e.state = x.state /\ e.anonce = x.anonce /\ e.snonce = x.snonce
        /\ e.kck = k /\ e.ptk = k
    BY <1>3, <1>4, <1>5 DEF EapType
  <1> HIDE DEF e
  <1>7. e.kck = <<e.anonce, e.snonce>> /\ e.ptk = e.kck /\ e.anonce <= ap.session /\ e.raw /\ e.state \in Waiting
    BY <1>1, <1>2, <1>3, <1>6 DEF k, Waiting
  <1>8. EapInv(e, ap)
    BY <1>2, <1>3, <1>6, <1>7 DEF EapInv
  <1>9. CASE send_packet_2(e)
    BY <1>1, <1>7, <1>8, <1>9, SecondStep DEF Waiting
  <1>10. CASE eap' = [e EXCEPT !.state = "ES_WAITING_2_4"] /\ UNCHANGED <<card, air>>
    <2>1. /\ eap' \in EapType /\ eap'.state = "ES_WAITING_2_4" /\ eap'.raw = e.raw /\ eap'.snonce = e.snonce
          /\ eap'.anonce = e.anonce /\ eap'.kck = e.kck /\ eap'.ptk = e.ptk
      BY <1>6, <1>10 DEF EapType, Waiting
    <2>2. EapInv(eap', ap)
      BY <1>2, <1>3, <1>6, <1>7, <2>1 DEF EapInv, Waiting
    <2>3. NextInv(eap', card, ap, air)
      BY <1>1, <2>1 DEF KInv, NextInv, Waiting
    <2> QED BY <1>1, <1>10, <2>2, <2>3 DEF KInv
  <1> QED BY <1>1, <1>9, <1>10

\* upload_ptk of a key agreed to that is not there yet.
LEMMA PtkUploaded ==
  ASSUME NEW c, NEW a, a \in ApType, CardInv(c, a), NEW k \in a.agreed, \A i \in DOMAIN c.ptks : c.ptks[i] # k,
         NEW d, d = [c EXCEPT !.ptks = Append(@, k)]
  PROVE  CardInv(d, a) /\ d.gtks = c.gtks
  <1>1. c \in CardType /\ c.ptks \in Seq(Key) /\ k \in Key
    BY DEF CardInv, CardType, ApType
  <1> DEFINE u == Append(c.ptks, k)
             n == Len(c.ptks) + 1
  <1>2. /\ u \in Seq(Key) /\ DOMAIN c.ptks = 1..Len(c.ptks) /\ Len(c.ptks) \in Nat /\ DOMAIN u = 1..n
        /\ \A i \in DOMAIN c.ptks : u[i] = c.ptks[i]
        /\ u[n] = k
    BY <1>1, Appended
  <1> HIDE DEF u
  <1>3. d \in CardType /\ d.ptks = u /\ d.gtks = c.gtks
    BY <1>1, <1>2 DEF CardType, u
  <1>4. \A i \in DOMAIN u : i = n \/ i \in DOMAIN c.ptks
    BY <1>2
  <1>5. ASSUME NEW i \in DOMAIN u
        PROVE  u[i] \in a.agreed /\ \A j \in DOMAIN u : u[j] = u[i] => i = j
    BY <1>2, <1>4 DEF CardInv
  <1> QED BY <1>3, <1>5 DEF CardInv

\* upload_gtk from a packet as new as any taken.
LEMMA GtkUploaded ==
  ASSUME NEW c, NEW a, a \in ApType, CardInv(c, a), NEW p, Sound(p, a), p.t \in Grouped, Newer(c, p),
         NEW d, d = [c EXCEPT !.gtks = Append(@, p.gtk)]
  PROVE  /\ CardInv(d, a)
         /\ \A q \in PacketType : p.gtk <= q.gtk => Newer(d, q)
  <1>1. c \in CardType /\ c.gtks \in Seq(Nat) /\ p.gtk \in Nat /\ 0 < p.gtk /\ p.gtk <= a.gtk
    BY DEF CardInv, CardType, Sound, PacketType
  <1> DEFINE u == Append(c.gtks, p.gtk)
             n == Len(c.gtks) + 1
  <1>2. /\ u \in Seq(Nat) /\ DOMAIN c.gtks = 1..Len(c.gtks) /\ Len(c.gtks) \in Nat /\ DOMAIN u = 1..n
        /\ \A i \in DOMAIN c.gtks : u[i] = c.gtks[i]
        /\ u[n] = p.gtk
    BY <1>1, Appended
  <1> HIDE DEF u
  <1>3. d \in CardType /\ d.gtks = u /\ d.ptks = c.ptks
    BY <1>1, <1>2 DEF CardType, u
  <1>4. \A i \in DOMAIN u : i = n \/ (i < n /\ i \in DOMAIN c.gtks)
    BY <1>2
  <1>5. \A i \in DOMAIN u : 0 < u[i] /\ u[i] <= a.gtk
    <2>1. \A i \in DOMAIN c.gtks : 0 < c.gtks[i] /\ c.gtks[i] <= a.gtk
      BY Zenon DEF CardInv
    <2> HIDE DEF n
    <2> QED BY <1>1, <1>2, <1>4, <2>1, Zenon
  <1>6. ASSUME NEW i \in DOMAIN u PROVE u[i] <= p.gtk /\ u[i] \in Nat
    <2>1. u[i] \in Nat
      BY <1>2
    <2>2. CASE i = n
      BY <1>1, <1>2, <2>1, <2>2
    <2>3. CASE i \in DOMAIN c.gtks
      BY <1>2, <2>1, <2>3 DEF Newer
    <2> QED BY <1>4, <2>2, <2>3
  <1>7. ASSUME NEW i \in DOMAIN u, NEW j \in DOMAIN u, i < j PROVE u[i] <= u[j]
    <2>1. CASE j = n
      BY <1>2, <1>6, <2>1
    <2>2. CASE j # n
      <3>1. i \in DOMAIN c.gtks /\ j \in DOMAIN c.gtks
        BY <1>2, <1>4, <1>7, <2>2
      <3> QED BY <1>2, <1>7, <3>1 DEF CardInv
    <2> QED BY <2>1, <2>2
  <1>8. CardInv(d, a)
    BY <1>3, <1>5, <1>7 DEF CardInv
  <1>9. ASSUME NEW q \in PacketType, p.gtk <= q.gtk PROVE Newer(d, q)
    BY <1>1, <1>3, <1>6, <1>9 DEF Newer, PacketType
  <1> QED BY <1>8, <1>9

\* After p, what is not older by its counter is not older by its group key.
LEMMA NextTaken ==
  ASSUME NEW S, NEW a, AirInv(S, a), NEW p \in S, p.t \in Grouped, NEW e, e.state = "ES_NEGOTIATED", e.replay = p.replay,
         NEW c, \A q \in PacketType : p.gtk <= q.gtk => Newer(c, q)
  PROVE  NextInv(e, c, a, S)
  <1>1. ASSUME NEW q \in S, q.t \in Grouped, e.replay <= q.replay PROVE Newer(c, q)
    <2>1. q \in PacketType /\ Ordered(p, q)
      BY DEF AirInv, Sound
    <2> QED BY <1>1, <2>1 DEF Ordered
  <1> QED BY <1>1 DEF NextInv, Waiting

\* Where only the access point changes.
LEMMA Quiet ==
  ASSUME KInv, ApInv(ap'), Grows(ap, ap'), ap'.session = ap.session, eap.raw \/ ap'.state = "idle",
         eap' = eap, card' = card, air' = air
  PROVE  KInv'
  <1>1. AirInv(air, ap') /\ CardInv(card, ap')
    BY AirGrows, CardGrows DEF KInv
  <1>2. EapInv(eap, ap') /\ NextInv(eap, card, ap', air)
    BY DEF KInv, EapInv, NextInv
  <1> QED BY <1>1, <1>2 DEF KInv

\* abort_connection, and gives_up with it.
LEMMA AbortStep ==
  ASSUME KInv, abort_connection
  PROVE  KInv'
  <1>1. ap' = [ap EXCEPT !.state = "idle"] /\ eap' = eap /\ card' = card /\ air' = air
    BY DEF abort_connection
  <1>2. ap \in ApType /\ ApInv(ap)
    BY DEF KInv, ApInv
  <1>3. /\ ap' \in ApType /\ ap'.state = "idle" /\ ap'.session = ap.session /\ ap'.replay = ap.replay
        /\ ap'.gtk = ap.gtk /\ ap'.agreed = ap.agreed
    BY <1>1, <1>2 DEF ApType
  <1>4. Grows(ap, ap') /\ ApInv(ap')
    BY <1>2, <1>3 DEF Grows, ApInv, ApType
  <1> QED BY <1>1, <1>3, <1>4, Quiet

\* 3/4: its key is of this association, for which none was uploaded.
LEMMA ThirdStep ==
  ASSUME KInv, eap.raw, NEW p \in air, recv_packet_3(p)
  PROVE  KInv'
  <1>1. CASE abort_connection
    BY <1>1, AbortStep
  <1> DEFINE e == [eap EXCEPT !.gtk = p.gtk, !.replay = p.replay]
             q == [NoPacket EXCEPT !.t = "4", !.replay = e.replay, !.mic = e.kck]
             z == [e EXCEPT !.state = "ES_NEGOTIATED"]
             c == [card EXCEPT !.ptks = Append(@, e.ptk)]
             d == [c EXCEPT !.gtks = Append(@, e.gtk)]
  <1>2. CASE p.nonce = eap.anonce /\ p.replay > eap.replay /\ p.mic = eap.kck /\ send_packet_4(e) /\ ap' = ap
    <2>1. /\ ap \in ApType /\ eap \in EapType /\ EapInv(eap, ap) /\ AirInv(air, ap) /\ CardInv(card, ap)
          /\ NextInv(eap, card, ap, air) /\ Sound(p, ap) /\ p \in PacketType
          /\ eap.state = "ES_WAITING_3_4" /\ p.t = "3"
      BY DEF KInv, ApInv, EapInv, AirInv, Sound, recv_packet_3
    <2>2. p.t \in Grouped /\ p.mic \in ap.agreed /\ eap.kck = <<eap.anonce, eap.snonce>> /\ eap.ptk = eap.kck
          /\ eap.snonce = ap.session /\ eap.state \in Waiting
      BY <2>1 DEF Grouped, Sound, EapInv, Waiting
    <2>3. e \in EapType /\ e.ptk = eap.ptk /\ e.kck = eap.kck /\ e.gtk = p.gtk /\ e.replay = p.replay /\ e.raw = eap.raw
      BY <2>1 DEF EapType, PacketType
    <2>4. q \in PacketType /\ q.t = "4"
      BY <2>1, <2>3 DEF PacketType, NoPacket, ZeroKey, Key, EapType
    <2>5. eap' = cleanup_keys(z) /\ send_packet(q) /\ card' = d
      BY <1>2 DEF send_packet_4, upload_gtk, upload_ptk
    <2>6. z \in EapType /\ z.state = "ES_NEGOTIATED" /\ z.raw = e.raw /\ z.replay = e.replay
      BY <2>3 DEF EapType
    <2> HIDE DEF e, q, z
    <2>7. eap' \in EapType /\ eap'.state = "ES_NEGOTIATED" /\ eap'.raw = eap.raw /\ eap'.replay = p.replay
      BY <2>3, <2>5, <2>6 DEF cleanup_keys, EapType, Key, ZeroKey
    <2>8. EapInv(eap', ap)
      BY <2>7 DEF EapInv, Waiting
    <2>9. e.ptk \in ap.agreed /\ e.ptk[2] = ap.session
      BY <1>2, <2>2, <2>3
    <2>10. \A i \in DOMAIN card.ptks : card.ptks[i] # e.ptk
      <3>1. \A i \in DOMAIN card.ptks : card.ptks[i][2] < ap.session
        BY <2>1, <2>2 DEF NextInv
      <3>2. ap.session \in Nat
        BY <2>1 DEF ApType
      <3> QED BY <2>9, <3>1, <3>2
    <2>11. CardInv(c, ap) /\ c.gtks = card.gtks
      BY <2>1, <2>9, <2>10, PtkUploaded
    <2>12. Newer(card, p)
      BY <1>2, <2>1, <2>2 DEF NextInv
    <2>13. Newer(c, p)
      BY <2>11, <2>12 DEF Newer
    <2> HIDE DEF c
    <2>14. d = [c EXCEPT !.gtks = Append(@, p.gtk)]
      BY <2>3
    <2> HIDE DEF d
    <2>15. CardInv(d, ap) /\ \A r \in PacketType : p.gtk <= r.gtk => Newer(d, r)
      BY <2>1, <2>2, <2>11, <2>13, <2>14, GtkUploaded
    <2>16. NextInv(eap', d, ap, air)
      BY <2>1, <2>2, <2>7, <2>15, NextTaken
    <2>17. Sound(q, ap) /\ q.t \notin Grouped
      BY <2>4 DEF Sound, Grouped
    <2>18. AirInv(air', ap) /\ NextInv(eap', d, ap, air')
      BY <2>1, <2>5, <2>16, <2>17, Sends
    <2> QED BY <1>2, <2>5, <2>8, <2>15, <2>18 DEF KInv
  <1> QED BY <1>1, <1>2 DEF recv_packet_3

\* Group rekeying: the counter is beyond that of the last packet taken.
LEMMA GroupStep ==
  ASSUME KInv, eap.raw, NEW p \in air, recv_group_1(p)
  PROVE  KInv'
  <1> DEFINE q == [NoPacket EXCEPT !.t = "g2", !.replay = p.replay, !.mic = eap.kck]
  <1>1. /\ ap \in ApType /\ eap \in EapType /\ EapInv(eap, ap) /\ AirInv(air, ap) /\ CardInv(card, ap)
        /\ NextInv(eap, card, ap, air) /\ Sound(p, ap) /\ p \in PacketType
        /\ eap.state = "ES_NEGOTIATED" /\ p.t = "g" /\ p.replay > eap.replay
    BY DEF KInv, ApInv, EapInv, AirInv, Sound, recv_group_1
  <1>2. /\ eap' = [eap EXCEPT !.gtk = p.gtk, !.replay = p.replay] /\ send_packet(q)
        /\ card' = [card EXCEPT !.gtks = Append(@, eap'.gtk)] /\ ap' = ap
    BY DEF recv_group_1, upload_gtk
  <1>3. q \in PacketType /\ q.t = "g2"
    BY <1>1 DEF PacketType, NoPacket, ZeroKey, Key, EapType
  <1> HIDE DEF q
  <1>4. /\ eap' \in EapType /\ eap'.state = "ES_NEGOTIATED" /\ eap'.raw = eap.raw /\ eap'.replay = p.replay
        /\ eap'.gtk = p.gtk
    BY <1>1, <1>2 DEF EapType, PacketType
  <1>5. EapInv(eap', ap)
    BY <1>4 DEF EapInv, Waiting
  <1>6. p.t \in Grouped /\ Newer(card, p)
    <2>1. p.t \in Grouped /\ eap.replay <= p.replay
      BY <1>1 DEF Grouped, EapType, PacketType
    <2> QED BY <1>1, <2>1 DEF NextInv
  <1>7. CardInv(card', ap) /\ \A r \in PacketType : p.gtk <= r.gtk => Newer(card', r)
    <2>1. card' = [card EXCEPT !.gtks = Append(@, p.gtk)]
      BY <1>2, <1>4
    <2> QED BY <1>1, <1>6, <2>1, GtkUploaded
  <1>8. NextInv(eap', card', ap, air)
    BY <1>1, <1>4, <1>6, <1>7, NextTaken
  <1>9. Sound(q, ap) /\ q.t \notin Grouped
    BY <1>3 DEF Sound, Grouped
  <1>10. AirInv(air', ap) /\ NextInv(eap', card', ap, air')
    BY <1>1, <1>2, <1>8, <1>9, Sends
  <1> QED BY <1>2, <1>5, <1>7, <1>10 DEF KInv

\* netdown wipes the keys and closes the socket.
LEMMA NetdownStep ==
  ASSUME KInv, netdown
  PROVE  KInv'
  <1> DEFINE e == [eap EXCEPT !.raw = FALSE]
  <1>1. eap' = reset_eapol_state(e) /\ ap' = [ap EXCEPT !.state = "idle"] /\ card' = card /\ air' = air
    BY DEF netdown
  <1>2. ap \in ApType /\ ApInv(ap) /\ eap \in EapType
    BY DEF KInv, ApInv, EapInv
  <1>3. /\ ap' \in ApType /\ ap'.state = "idle" /\ ap'.session = ap.session /\ ap'.replay = ap.replay
        /\ ap'.gtk = ap.gtk /\ ap'.agreed = ap.agreed
    BY <1>1, <1>2 DEF ApType
  <1>4. Grows(ap, ap') /\ ApInv(ap')
    BY <1>2, <1>3 DEF Grows, ApInv, ApType
  <1>5. e \in EapType /\ ~e.raw
    <2>1. ASSUME NEW r \in BOOLEAN PROVE LET x == [eap EXCEPT !.raw = r] IN x \in EapType /\ x.raw = r
      BY <1>2 DEF EapType
    <2>2. FALSE \in BOOLEAN
      OBVIOUS
    <2> QED BY <2>1, <2>2, Zenon
  <1> HIDE DEF e
  <1>6. cleanup_keys(e) \in EapType /\ cleanup_keys(e).raw = e.raw
    BY <1>5 DEF cleanup_keys, EapType, Key, ZeroKey
  <1>7. eap' \in EapType /\ eap'.raw = e.raw
    BY <1>1, <1>6 DEF reset_eapol_state, EapType, Key, ZeroKey
  <1>8. EapInv(eap', ap') /\ NextInv(eap', card', ap', air')
    BY <1>3, <1>5, <1>7 DEF EapInv, NextInv
  <1>9. AirInv(air', ap') /\ CardInv(card', ap')
    BY <1>1, <1>4, AirGrows, CardGrows DEF KInv
  <1> QED BY <1>4, <1>8, <1>9 DEF KInv

\* A new packet has a counter beyond all others, and the group key of now.
LEMMA ApSendsStep ==
  ASSUME KInv, ap_sends
  PROVE  KInv'
  <1> DEFINE t == CASE ap.state = "s1" -> "1" [] ap.state = "s3" -> "3" [] OTHER -> "g"
             k == IF t = "1" THEN ZeroKey ELSE ap.ptk
             q == ap_packet(t, k)
             n == ap.replay + 1
  <1>1. /\ ap.state # "idle" /\ ap' = [ap EXCEPT !.replay = n] /\ air' = air \cup {q}
        /\ eap' = eap /\ card' = card
    BY DEF ap_sends
  <1>2. ap \in ApType /\ ApInv(ap) /\ EapInv(eap, ap) /\ CardInv(card, ap) /\ NextInv(eap, card, ap, air) /\ AirInv(air, ap)
    BY DEF KInv, ApInv
  <1>3. n \in Nat /\ ap.replay \in Nat /\ ap.replay < n /\ ap.gtk \in Nat /\ ap.session \in Nat /\ 0 < ap.gtk
    BY <1>2 DEF ApType, ApInv
  <1>4. t \in {"1", "3", "g"} /\ (t \in Grouped => ap.state \in {"s3", "up"})
    BY <1>1, <1>2 DEF ApType, Grouped
  <1>5. k \in Key /\ (t \in Grouped => k \in ap.agreed)
    BY <1>2, <1>4 DEF ApType, Key, ZeroKey, Grouped, ApInv
  <1> HIDE DEF t, k, n
  <1>6. /\ ap' \in ApType /\ ap'.replay = n /\ ap'.session = ap.session /\ ap'.gtk = ap.gtk
        /\ ap'.agreed = ap.agreed /\ ap'.state = ap.state /\ ap'.ptk = ap.ptk
    BY <1>1, <1>2, <1>3 DEF ApType
  <1>7. Grows(ap, ap') /\ ApInv(ap')
    BY <1>2, <1>3, <1>6 DEF Grows, ApInv, ApType
  <1>8. /\ q \in PacketType /\ q.t = t /\ q.replay = n /\ q.mic = k
        /\ q.nonce <= ap.session /\ (t \in Grouped => q.gtk = ap.gtk)
    <2> DEFINE x == IF t = "g" THEN 0 ELSE ap.session
               y == IF t = "1" THEN 0 ELSE ap.gtk
    <2>1. x \in Nat /\ y \in Nat /\ x <= ap.session /\ (t \in Grouped => y = ap.gtk)
      BY <1>3 DEF Grouped
    <2>2. q = [NoPacket EXCEPT !.t = t, !.replay = n, !.mic = k, !.nonce = x, !.gtk = y]
      BY DEF ap_packet, n
    <2> HIDE DEF x, y
    <2>3. q = [t |-> t, nonce |-> x, replay |-> n, mic |-> k, gtk |-> y]
      BY <2>2 DEF NoPacket
    <2> QED BY <1>3, <1>4, <1>5, <2>1, <2>3 DEF PacketType
  <1> HIDE DEF q
  <1>9. Sound(q, ap')
    BY <1>3, <1>4, <1>5, <1>6, <1>8 DEF Sound, Grouped
  <1>10. ASSUME NEW p \in air PROVE Ordered(p, q) /\ Ordered(q, p)
    <2>1. Sound(p, ap) /\ p \in PacketType
      BY <1>2 DEF AirInv, Sound
    <2>2. p.t \in Grouped => p.replay <= ap.replay /\ p.gtk <= ap.gtk /\ p.replay \in Nat
      BY <2>1 DEF Sound, PacketType
    <2> QED BY <1>3, <1>8, <2>2 DEF Ordered
  <1>11. Ordered(q, q)
    BY <1>3, <1>8 DEF Ordered
  <1>12. AirInv(air', ap')
    <2>1. AirInv(air, ap')
      BY <1>2, <1>7, AirGrows
    <2> QED BY <1>1, <1>9, <1>10, <1>11, <2>1 DEF AirInv
  <1>13. CardInv(card', ap')
    BY <1>1, <1>2, <1>7, CardGrows
  <1>14. EapInv(eap', ap')
    BY <1>1, <1>2, <1>6 DEF EapInv
  <1>15. q.t \in Grouped => Newer(card, q)
    BY <1>2, <1>8 DEF CardInv, Newer
  <1>16. NextInv(eap', card', ap', air')
    BY <1>1, <1>2, <1>6, <1>15 DEF NextInv
  <1> QED BY <1>7, <1>12, <1>13, <1>14, <1>16 DEF KInv

\* The access point agrees only to a key of the current association.
LEMMA ApReceivesStep ==
  ASSUME KInv, ap_receives
  PROVE  KInv'
  <1>1. ap \in ApType /\ ApInv(ap) /\ EapInv(eap, ap) /\ AirInv(air, ap) /\ eap' = eap /\ card' = card /\ air' = air
    BY DEF KInv, ApInv, ap_receives
  <1>2. ap.state # "idle" => eap.raw
    BY <1>1 DEF EapInv
  <1>3. ASSUME NEW p \in air, ap.state = "s1", p.t = "2", p.mic = <<ap.session, p.nonce>>,
               ap' = [ap EXCEPT !.state = "s3", !.ptk = p.mic, !.agreed = @ \cup {p.mic}, !.first = ap.replay]
        PROVE  KInv'
    <2>1. p \in PacketType /\ p.mic \in Key /\ p.mic[2] = p.nonce /\ p.mic[1] <= p.nonce /\ p.nonce <= ap.session
      BY <1>1, <1>3 DEF AirInv, Sound, PacketType
    <2>2. p.mic[1] = ap.session /\ p.mic[2] = ap.session
      BY <1>1, <1>3, <2>1 DEF ApType, PacketType
    <2>3. /\ ap' \in ApType /\ ap'.state = "s3" /\ ap'.session = ap.session /\ ap'.replay = ap.replay
          /\ ap'.gtk = ap.gtk /\ ap'.agreed = ap.agreed \cup {p.mic} /\ ap'.ptk = p.mic
      BY <1>1, <1>3, <2>1 DEF ApType
    <2>4. ApInv(ap')
      BY <1>1, <2>2, <2>3 DEF ApInv, ApType
    <2>5. Grows(ap, ap')
      BY <1>1, <2>3 DEF Grows, ApType
    <2> QED BY <1>1, <1>2, <1>3, <2>3, <2>4, <2>5, Quiet
  <1>4. ASSUME ap.state = "s3", ap' = [ap EXCEPT !.state = "up"]
        PROVE  KInv'
    <2>1. /\ ap' \in ApType /\ ap'.state = "up" /\ ap'.session = ap.session /\ ap'.replay = ap.replay
          /\ ap'.gtk = ap.gtk /\ ap'.agreed = ap.agreed /\ ap'.ptk = ap.ptk
      BY <1>1, <1>4 DEF ApType
    <2>2. ApInv(ap') /\ Grows(ap, ap')
      BY <1>1, <1>4, <2>1 DEF ApInv, Grows, ApType
    <2> QED BY <1>1, <1>2, <1>4, <2>1, <2>2, Quiet
  <1> QED BY <1>3, <1>4 DEF ap_receives

\* A new group key is newer than all.
LEMMA ApRekeysStep ==
  ASSUME KInv, ap_rekeys
  PROVE  KInv'
  <1>1. /\ ap \in ApType /\ ApInv(ap) /\ EapInv(eap, ap) /\ eap' = eap /\ card' = card /\ air' = air
        /\ ap.state = "up" /\ ap' = [ap EXCEPT !.gtk = @ + 1]
    BY DEF KInv, ApInv, ap_rekeys
  <1>2. /\ ap' \in ApType /\ ap'.state = "up" /\ ap'.session = ap.session /\ ap'.replay = ap.replay
        /\ ap'.gtk = ap.gtk + 1 /\ ap'.agreed = ap.agreed /\ ap'.ptk = ap.ptk
    BY <1>1 DEF ApType
  <1>3. ApInv(ap') /\ Grows(ap, ap')
    BY <1>1, <1>2 DEF ApInv, Grows, ApType
  <1>4. eap.raw
    BY <1>1 DEF EapInv
  <1> QED BY <1>1, <1>2, <1>3, <1>4, Quiet

\* Every step keeps the invariant.
LEMMA KInvNext == KInv /\ [KeyNext]_wpa_vars => KInv'
  <1> SUFFICES ASSUME KInv, [KeyNext]_wpa_vars PROVE KInv'
    OBVIOUS
  <1>1. CASE proceed_with_connect
    BY <1>1, ProceedStep
  <1>2. CASE allow_eapol_sends
    BY <1>2, AllowStep
  <1>3. CASE handle_rawsock
    BY <1>3, FirstStep, ThirdStep, GroupStep DEF handle_rawsock
  <1>4. CASE netdown
    BY <1>4, NetdownStep
  <1>5. CASE gives_up
    BY <1>5, AbortStep DEF gives_up
  <1>6. CASE ap_sends
    BY <1>6, ApSendsStep
  <1>7. CASE ap_receives
    BY <1>7, ApReceivesStep
  <1>8. CASE ap_rekeys
    BY <1>8, ApRekeysStep
  <1>9. CASE UNCHANGED wpa_vars
    BY <1>9 DEF wpa_vars, KInv
  <1> QED BY <1>1, <1>2, <1>3, <1>4, <1>5, <1>6, <1>7, <1>8, <1>9 DEF KeyNext

\* Which says what is claimed.
LEMMA KInvSound == KInv => PtkOnce /\ GtkForward
  <1> SUFFICES ASSUME KInv PROVE PtkOnce /\ GtkForward
    OBVIOUS
  <1>1. CardInv(card, ap)
    BY DEF KInv
  <1> QED BY <1>1 DEF CardInv, PtkOnce, GtkForward

\* Whatever is lost, repeated or late, no pairwise key is uploaded twice and the
\* group keys only go forward.
LEMMA NegotiationAlways == KeySpec => [](PtkOnce /\ GtkForward)
  <1>1. KeySpec => []KInv
    BY InitKInv, KInvNext, PTL DEF KeySpec
  <1> QED BY <1>1, KInvSound, PTL

\* The key of a network is in the file until it is changed or forgotten, the mode
\* of a device is found until it is changed, taken away or dropped, unless the last
\* entry was dropped from among others or one was added after that, for any sizes
\* of the files; and of the keys negotiated none is uploaded twice or
\* out of order, however many associations and packets there are.
THEOREM WifiKeysCorrect == ASSUME Setting PROVE PskSpec /\ ModeSpec /\ KeySpec => []KeysSound
  <1>1. KeysFound /\ ModesFound /\ PtkOnce /\ GtkForward => KeysSound
    BY DEF KeysSound
  <1> QED BY <1>1, KeysAlways, ModesAlways, NegotiationAlways, PTL

=============================================================================
