------------------------------ MODULE WifiAps ------------------------------
(* wsupp and its access points: the scans. *)
EXTENDS Integers, Sequences, SequencesExt, FiniteSets

(***************************************************************************)
(* The table of access points wsupp has heard of: how scans fill and age   *)
(* it, how a station of the network is picked from it, and how wifi lists  *)
(* it, one entry on a request, while it changes.  Wsupp has the states     *)
(* around this with the table as a set.                                    *)
(*                                                                         *)
(* Information elements (IEs) are sequences of records; the lists in an    *)
(* element are complete.  An access point does not change their length     *)
(* (parse_scan_result writes a longer block over the shorter old one).     *)
(* Sending to the card does not fail.  The list is asked for while no      *)
(* connection is made: it does not show the marks connecting leaves.       *)
(***************************************************************************)
CONSTANTS
  Stations,   \* what may be heard: records [bss, freq, sig, ies]
  Ies,        \* the information elements, for every value of the field ies
  Ssids,      \* networks the user may name
  NSCANS,     \* slots of the table
  CHANGES,    \* bound on changes of what is on the air
  SCANS       \* bound on scans

VARIABLES
  air,        \* what is on the air: a set of Stations, one for each bss
  scans,      \* the table
  ss,         \* the scan: [st, req, trig, dumped]
  ap,         \* the network and the station in use
  cl,         \* wifi: [st, start, got, out]
  hist        \* bounds, and what the properties remember

ws_vars == <<air, scans, ss, ap, cl, hist>>

(***************************************************************************)
(* Information elements                                                    *)
(***************************************************************************)
None == [type |-> "none"]
find_ie(l, type) ==
  LET S == {i \in DOMAIN l : l[i].type = type}
  IN  IF S = {} THEN None ELSE l[CHOOSE i \in S : \A j \in S : i <= j]
Has(l, x) == x \in {l[i] : i \in DOMAIN l}

\* wsupp: what the first RSN element says about a station
parse_rsn_ie(ie) ==
  IF ie.ver # 1 \/ ~Has(ie.pair, "ccmp") \/ ~Has(ie.akms, "psk") THEN {}
  ELSE CASE ie.group = "tkip" -> {"TKIP", "GOOD"}
         [] ie.group = "ccmp" -> {"GOOD"}
         [] OTHER -> {}

check_ap_ies(sc, ssid) ==
  LET name == find_ie(Ies[sc.ies], "ssid") rsn == find_ie(Ies[sc.ies], "rsn")
  IN  [sc EXCEPT !.flags = @ \cup {"SEEN"} \cup
         (IF name = None \/ name # [type |-> "ssid", ssid |-> ssid] \/ rsn = None THEN {} ELSE parse_rsn_ie(rsn))]

\* wifi: the same elements, read by other code
tick_rsn_caps(caps, ie) ==
  IF ie.ver # 1 THEN caps
  ELSE caps \cup {"RSN"} \cup (IF Has(ie.akms, "psk") THEN {"PSK"} ELSE {})
         \cup (IF Has(ie.pair, "tkip") THEN {"TKIP_P"} ELSE {}) \cup (IF Has(ie.pair, "ccmp") THEN {"CCMP_P"} ELSE {})
         \cup (IF ie.group = "tkip" THEN {"TKIP_G"} ELSE IF ie.group = "ccmp" THEN {"CCMP_G"} ELSE {})
tick_vendor(caps, ie) == caps \cup {ie.sub}

access_tag(l) ==
  LET caps == FoldLeft(LAMBDA c, ie : CASE ie.type = "rsn" -> tick_rsn_caps(c, ie)
                                        [] ie.type = "vendor" -> tick_vendor(c, ie)
                                        [] OTHER -> c, {}, l)
  IN  CASE {"RSN", "PSK", "CCMP_P", "CCMP_G"} \subseteq caps -> "2CC"
        [] {"RSN", "PSK", "CCMP_P", "TKIP_G"} \subseteq caps -> "2CT"
        [] {"RSN", "PSK", "TKIP_P", "TKIP_G"} \subseteq caps -> "2TT"
        [] {"RSN", "PSK"} \subseteq caps -> "2??"
        [] "RSN" \in caps -> "2xP"
        [] "WPA" \in caps -> "WP1"
        [] "WPS" \in caps -> "WEP"
        [] OTHER -> ""

can_use_ap(l, ssid) ==
  LET caps == tick_rsn_caps({}, find_ie(l, "rsn"))
  IN  IF find_ie(l, "ssid") # [type |-> "ssid", ssid |-> ssid] THEN "badssid"
      ELSE IF find_ie(l, "rsn") = None THEN "nocrypt"
      ELSE IF {"RSN", "PSK", "CCMP_P"} \subseteq caps /\ caps \cap {"CCMP_G", "TKIP_G"} # {} THEN "canconn"
      ELSE "nocrypt"

(***************************************************************************)
(* Slots                                                                   *)
(***************************************************************************)
Zero == [bss |-> 0, freq |-> 0, sig |-> 0, ies |-> "", flags |-> {}]
grab_slot(t) ==
  LET S == {i \in DOMAIN t : t[i] = Zero}
  IN  IF S # {} THEN <<t, CHOOSE i \in S : \A j \in S : i <= j>>
      ELSE IF Len(t) >= NSCANS THEN <<t, 0>> ELSE <<Append(t, Zero), Len(t) + 1>>
\* the last slots go when they are empty
free_slot(t, S) ==
  LET z == [i \in DOMAIN t |-> IF i \in S THEN Zero ELSE t[i]]
      U == {i \in DOMAIN z : z[i] # Zero}
  IN  SubSeq(z, 1, IF U = {} THEN 0 ELSE CHOOSE n \in U : \A m \in U : m <= n)

Bsss(l) == {l[i].bss : i \in DOMAIN l} \ {0}
find_scan_slot(t, b) == {i \in DOMAIN t : t[i].freq # 0 /\ t[i].bss = b}
\* the table with room for b, and the slot: 0 when there is none.  In a full table
\* a weak entry that is about to go is given up.
grab_scan_slot(t, b) ==
  LET F == find_scan_slot(t, b)
      g == grab_slot(t)
      W == {i \in DOMAIN t : t[i].sig <= -8000 /\ "STALE" \in t[i].flags}
      w == CHOOSE i \in W : \A j \in W : i <= j
  IN  IF F # {} THEN <<t, CHOOSE i \in F : \A j \in F : i <= j>>
      ELSE IF g[2] # 0 THEN g
      ELSE IF W = {} THEN <<t, 0>> ELSE <<[t EXCEPT ![w] = Zero], w>>

(***************************************************************************)
(* Scans                                                                   *)
(***************************************************************************)
Idle == [st |-> "idle", req |-> 0, trig |-> FALSE, dumped |-> {}]
reset_scan_state == Idle
Freqs == {s.freq : s \in Stations}

\* a scan of one frequency, or of all of them (0); the scan of all of them that goes on
\* will do.  One of a single frequency is an error (-EBUSY), which nobody who needs a
\* scan can meet: it goes on only in the state "rescan".
start_scan(f) ==
  \/ /\ ss.st = "idle" /\ hist.scans < SCANS
     /\ ss' = [Idle EXCEPT !.st = "scanning", !.req = f]
     /\ hist' = [hist EXCEPT !.scans = @ + 1]
  \/ ss.st # "idle" /\ ss.req = 0 /\ UNCHANGED <<ss, hist>>

\* routine_fg_scan, routine_bg_scan, cmd_runscan
Scan == start_scan(0) /\ UNCHANGED <<air, scans, ap, cl>>

mark_stale_scan_slots(t, fs) ==
  [i \in DOMAIN t |-> IF t[i].freq \in fs THEN [t[i] EXCEPT !.flags = @ \cup {"STALE"}] ELSE t[i]]

\* the card has begun
nlm_trigger_scan ==
  /\ ss.st = "scanning" /\ ~ss.trig
  /\ scans' = mark_stale_scan_slots(scans, IF ss.req = 0 THEN Freqs ELSE {ss.req})
  /\ ss' = [ss EXCEPT !.trig = TRUE]
  /\ UNCHANGED <<air, ap, cl, hist>>

\* mutant of reset_ies_data
reset_ies_keep(t) == [i \in DOMAIN t |-> [t[i] EXCEPT !.ies = ""]]

reset_ies_data(t) == [i \in DOMAIN t |-> [t[i] EXCEPT !.ies = "", !.flags = @ \ {"SEEN", "GOOD", "TKIP"}]]

\* the card has finished: trigger_scan_dump
trigger_scan_dump ==
  /\ ss.st = "scanning" /\ ss.trig
  /\ scans' = IF ss.req = 0 THEN reset_ies_data(scans) ELSE scans
  /\ ss' = [ss EXCEPT !.st = "dump"]
  /\ hist' = [hist EXCEPT !.fresh = @ \/ ss.req = 0]
  /\ UNCHANGED <<air, ap, cl>>

\* nlm_scan_results: one entry of the dump
parse_scan_result(s) ==
  /\ ss.st = "dump" /\ s.bss \notin ss.dumped
  /\ LET g == grab_scan_slot(scans, s.bss)
     IN  /\ scans' = IF g[2] = 0 THEN scans
                     ELSE [g[1] EXCEPT ![g[2]] = [bss |-> s.bss, freq |-> s.freq, sig |-> s.sig, ies |-> s.ies,
                                                  flags |-> @.flags \ {"STALE"}]]
         /\ hist' = [hist EXCEPT !.fresh = @ /\ (ss.req = 0 \/ g[2] = 0 \/ g[1][g[2]].ies \in {"", s.ies}),
                                 !.lossy = @ \/ g[2] = 0,
                                 !.stay = @ \cap Bsss(scans'), !.tried = @ \cap Bsss(scans')]
  /\ ss' = [ss EXCEPT !.dumped = @ \cup {s.bss}]
  /\ UNCHANGED <<air, ap, cl>>

\* mutant of drop_stale_scan_slots: the loop ends with the table as it was
drop_stale_first(t) ==
  LET S == {i \in DOMAIN t : "STALE" \in t[i].flags}
  IN  IF S = {} THEN t ELSE free_slot(t, {CHOOSE i \in S : \A j \in S : i <= j})

drop_stale_scan_slots(t) == free_slot(t, {i \in DOMAIN t : "STALE" \in t[i].flags})

\* the stations tried that are still in the table, with the one that is picked now
Tried(t, picks) == (hist.tried \cap Bsss(t)) \cup (IF picks /\ ap'.st = "trying" THEN {ap'.bss} ELSE {})

(***************************************************************************)
(* Picking a station                                                       *)
(***************************************************************************)
band_score(sc) == IF sc.sig < -7500 THEN 0 ELSE IF sc.freq \div 1000 = 5 THEN 1 ELSE 0
\* sc is better than best
compare(sc, best) ==
  \/ band_score(sc) > band_score(best)
  \/ band_score(sc) = band_score(best) /\ sc.sig > best.sig

\* the table with the elements looked at, and the slots to choose from
Looked(t, ssid) ==
  [i \in DOMAIN t |-> IF t[i].freq = 0 \/ t[i].ies = "" \/ t[i].flags \cap {"TRIED", "SEEN"} # {}
                        THEN t[i] ELSE check_ap_ies(t[i], ssid)]
Usable(t) == {i \in DOMAIN t : t[i].freq # 0 /\ t[i].ies # "" /\ "TRIED" \notin t[i].flags /\ "GOOD" \in t[i].flags}
get_best_bss(t) ==
  FoldLeft(LAMBDA b, i : IF i \notin Usable(t) THEN b ELSE IF b = 0 \/ compare(t[i], t[b]) THEN i ELSE b,
           0, [i \in DOMAIN t |-> i])

NoAp == [st |-> "none", ssid |-> "", bss |-> 0, freq |-> 0, group |-> "", success |-> FALSE]

set_current_bss(t, i, a) ==
  /\ ap' = [a EXCEPT !.st = "trying", !.bss = t[i].bss, !.freq = t[i].freq,
                     !.group = IF "TKIP" \in t[i].flags THEN "tkip" ELSE "ccmp"]
  /\ scans' = [t EXCEPT ![i].flags = @ \cup {"TRIED"}]

\* pick_best_bss, or what is done when there is none
pick_best_bss(t, a, none) ==
  \E u \in {Looked(t, a.ssid)} :
    LET i == get_best_bss(u)
    IN  IF i # 0 THEN set_current_bss(u, i, a) ELSE ap' = none /\ scans' = u

clear_all_bss_marks(t) == [i \in DOMAIN t |-> [t[i] EXCEPT !.flags = @ \ {"GOOD", "TKIP", "SEEN", "TRIED"}]]
GaveUp(a) == IF a.success THEN [a EXCEPT !.st = "search"] ELSE NoAp

\* wifi ap
Connect(n) ==
  /\ ap.st \in {"none", "search", "net"} /\ cl.st = "idle"
  /\ pick_best_bss(clear_all_bss_marks(scans), [NoAp EXCEPT !.ssid = n], NoAp)
  /\ hist' = [hist EXCEPT !.fresh = TRUE, !.tried = {ap'.bss} \ {0}]
  /\ UNCHANGED <<air, ss, cl>>
\* the attempt has failed: try_another_bss
Fail ==
  /\ ap.st = "trying"
  /\ pick_best_bss(scans, ap, GaveUp(ap))
  /\ hist' = [hist EXCEPT !.tried = Tried(scans, TRUE)]
  /\ UNCHANGED <<air, ss, cl>>
find_current_bss == {i \in DOMAIN scans : ap.bss # 0 /\ scans[i].bss = ap.bss}
mark_current_bss_good ==
  /\ ap.st = "trying"
  /\ scans' = IF find_current_bss = {} THEN scans
              ELSE LET i == CHOOSE j \in find_current_bss : \A k \in find_current_bss : j <= k
                   IN  [scans EXCEPT ![i].flags = @ \ {"TRIED"}]
  /\ ap' = [ap EXCEPT !.st = "up", !.success = TRUE]
  /\ hist' = [hist EXCEPT !.tried = @ \ {ap.bss}]
  /\ UNCHANGED <<air, ss, cl>>
\* the connection is lost: its frequency is scanned again
rescan_current_bss ==
  /\ ap.st = "up"
  /\ start_scan(ap.freq) /\ ap' = [ap EXCEPT !.st = "rescan"]
  /\ UNCHANGED <<air, scans, cl>>

\* the network is looked for every ten seconds
searching_scan ==
  /\ ap.st = "search"
  /\ start_scan(0) /\ ap' = [ap EXCEPT !.st = "net"]
  /\ UNCHANGED <<air, scans, cl>>

\* the station in use is in the table t
current_bss_in_scans(t) == ap.bss # 0 /\ ap.bss \in Bsss(t)
\* another station is picked when a scan ends
Picks(t) == ap.st = "net" \/ (ap.st = "rescan" /\ ~current_bss_in_scans(t))
\* scan_ended, with the table t: reconnect_current, or try_another_bss
scan_ended(t) ==
  IF Picks(t) THEN pick_best_bss(t, ap, GaveUp(ap))
  ELSE ap' = [ap EXCEPT !.st = IF @ = "rescan" THEN "trying" ELSE @] /\ scans' = t
nlm_scan_done ==
  /\ ss.st = "dump" /\ ss' = reset_scan_state
  /\ LET t == drop_stale_scan_slots(scans)
     IN  /\ scan_ended(t)
         /\ hist' = [hist EXCEPT !.heard = (hist.heard \ {s.bss : s \in {x \in Stations : ss.req \in {0, x.freq}}}) \cup ss.dumped,
                                 !.fresh = @ /\ ap.st # "rescan", !.stay = @ \cap Bsss(t), !.tried = Tried(t, Picks(t))]
  /\ UNCHANGED <<air, cl>>
\* nlm_scan_aborted, nlm_scan_error
nlm_scan_aborted ==
  /\ ss.st = "scanning" /\ ss' = reset_scan_state /\ scan_ended(scans)
  /\ hist' = [hist EXCEPT !.fresh = @ /\ ap.st # "rescan", !.tried = Tried(scans, Picks(scans)),
                          !.lossy = @ \/ \E i \in DOMAIN scans : "STALE" \in scans[i].flags]
  /\ UNCHANGED <<air, cl>>

(***************************************************************************)
(* wifi scan: the list, an entry on each request                           *)
(***************************************************************************)
fetch_scan_list ==
  /\ cl.st = "idle" /\ ap.st = "none" /\ cl' = [cl EXCEPT !.st = "ask"]
  /\ hist' = [hist EXCEPT !.stay = Bsss(scans)]
  /\ UNCHANGED <<air, scans, ss, ap>>

first_nomempty(from) == {i \in DOMAIN scans : i > from /\ scans[i].freq # 0}

cmd_getscan(from) ==
  LET i == CHOOSE j \in first_nomempty(from) : \A k \in first_nomempty(from) : j <= k
  IN  [next |-> i, sc |-> [scans[i] EXCEPT !.flags = {}]]

\* the strongest first, then by frequency
scan_ord(a, b) == a.sig > b.sig \/ (a.sig = b.sig /\ a.freq < b.freq)
fmt_chan(f) ==
  CASE f = 2484 -> <<14, "b">>
    [] f \in 2412..2472 /\ (f - 2412) % 5 = 0 -> <<1 + (f - 2412) \div 5, "b">>
    [] f \in 5035..5865 /\ (f - 5035) % 5 = 0 -> <<7 + (f - 5035) \div 5, "a">>
    [] f \in 4915..4980 /\ (f - 4915) % 5 = 0 -> <<183 + (f - 4915) \div 5, "a">>
    [] OTHER -> <<f, "">>
print_scanline(sc) ==
  [bss |-> sc.bss, sig |-> sc.sig, chan |-> fmt_chan(sc.freq),
   tag |-> IF sc.ies = "" THEN "(no IEs)" ELSE access_tag(Ies[sc.ies])]
print_scan_results(l) == LET s == SortSeq(l, scan_ord) IN [i \in DOMAIN s |-> print_scanline(s[i])]

Fetch ==
  /\ cl.st = "ask"
  /\ cl' = IF first_nomempty(cl.start) = {} THEN [cl EXCEPT !.st = "done", !.out = print_scan_results(cl.got)]
           ELSE LET r == cmd_getscan(cl.start)
                IN  [cl EXCEPT !.got = Append(@, r.sc), !.start = r.next]
  /\ UNCHANGED <<air, scans, ss, ap, hist>>

(***************************************************************************)
\* what a dump gives was heard before it began
Change(s) ==
  /\ hist.changes < CHANGES /\ ss.st # "dump"
  /\ air' = (IF s \in air THEN air \ {s} ELSE {x \in air : x.bss # s.bss} \cup {s})
  /\ hist' = [hist EXCEPT !.changes = @ + 1]
  /\ UNCHANGED <<scans, ss, ap, cl>>

\* a table of an earlier scan
Table(A) ==
  LET n == IF Cardinality(A) < NSCANS THEN Cardinality(A) ELSE NSCANS
  IN  SubSeq([i \in 1..Cardinality(A) |-> SetToSeq(A)[i] @@ [flags |-> {}]], 1, n)

ScanInit ==
  /\ air \in {A \in SUBSET Stations : \A x, y \in A : x.bss = y.bss => x = y}
  /\ scans = Table(air) /\ ss = Idle /\ ap = NoAp
  /\ cl = [st |-> "idle", start |-> 0, got |-> <<>>, out |-> <<>>]
  /\ hist = [changes |-> 0, scans |-> 0, fresh |-> TRUE, lossy |-> FALSE, heard |-> Bsss(scans), stay |-> {}, tried |-> {}]

ScanNext ==
  \/ Scan \/ nlm_trigger_scan \/ trigger_scan_dump \/ nlm_scan_done \/ nlm_scan_aborted
  \/ \E s \in air : parse_scan_result(s)
  \/ \E n \in Ssids : Connect(n)
  \/ Fail \/ mark_current_bss_good \/ rescan_current_bss \/ searching_scan
  \/ fetch_scan_list \/ Fetch
  \/ \E s \in Stations : Change(s)

ScanSpec == ScanInit /\ [][ScanNext]_ws_vars

(***************************************************************************)
(* Properties                                                              *)
(***************************************************************************)
\* The table: no station is in it twice, and between scans it has those the card spoke
\* of in the last scan of their frequency, as far as there was room and no aborted scan
\* has left its marks (the next scan drops what they are on).
TableRight ==
  /\ \A i, j \in DOMAIN scans : scans[i].bss = scans[j].bss /\ scans[i].bss # 0 => i = j
  /\ scans # <<>> => scans[Len(scans)] # Zero
  /\ ss.st = "idle" => Bsss(scans) \subseteq hist.heard
  /\ ss.st = "idle" /\ ~hist.lossy => hist.heard \subseteq Bsss(scans)

\* Picking: what wsupp has found out about a station is what wifi finds in the same
\* elements, unless the station has changed them since and only its frequency was
\* scanned again; none is tried a second time while it stays in the table, and when
\* wsupp gives up every station of the network was tried.
PickRight ==
  /\ hist.fresh /\ ap.ssid # "" =>
       \A i \in DOMAIN scans : scans[i].ies # "" /\ "SEEN" \in scans[i].flags =>
         ("GOOD" \in scans[i].flags <=> can_use_ap(Ies[scans[i].ies], ap.ssid) = "canconn")
  /\ ap.ssid # "" => \A i \in DOMAIN scans : "TRIED" \in scans[i].flags <=> scans[i].bss \in hist.tried
  /\ ap.st = "search" /\ hist.fresh =>
       \A i \in DOMAIN scans : scans[i].ies # "" /\ "SEEN" \in scans[i].flags
         /\ can_use_ap(Ies[scans[i].ies], ap.ssid) = "canconn" => "TRIED" \in scans[i].flags

\* The list: a station in the table from the first request to the last is in it once,
\* the strongest come first, and two frequencies are never shown as one channel.
ListRight ==
  /\ cl.st = "done" =>
       /\ \A b \in hist.stay : Cardinality({i \in DOMAIN cl.out : cl.out[i].bss = b}) = 1
       /\ \A i, j \in DOMAIN cl.out : i < j => cl.out[i].sig >= cl.out[j].sig
  /\ \A i, j \in DOMAIN scans : fmt_chan(scans[i].freq) = fmt_chan(scans[j].freq) => scans[i].freq = scans[j].freq

ScansRight == TableRight /\ PickRight /\ ListRight
=============================================================================
