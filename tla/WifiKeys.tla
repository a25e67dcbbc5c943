------------------------------ MODULE WifiKeys ------------------------------
(* Keys of networks, saved and negotiated, and modes of interfaces. *)
EXTENDS Naturals, Sequences

(***************************************************************************)
(* ifctl's file of saved modes (ifctl_config.c): for each device the mode  *)
(* it was given last, which ifctl identify sets again.  ifctl mode takes   *)
(* the mode away from other devices, ifctl also does not, ifctl stop drops *)
(* the entry.  Failing system calls are left out.                          *)
(*                                                                         *)
(* The file is a sequence of cells, SIZE of them an entry: its mode, the   *)
(* id of the device, the rest.  delete_entry mixes up entries and bytes,   *)
(* so that cells matter: it leaves the file one cell shorter, with what    *)
(* the buffer held beyond it at the end, or as many cells long as there    *)
(* were entries before the last.                                           *)
(***************************************************************************)
CONSTANTS
  Devices,   \* devid
  Modes,
  ENTRIES    \* MAX_CFG_ENTRIES

VARIABLES
  file,      \* cells
  known,     \* history: the mode saved for each device
  torn       \* history: the last entry was deleted from among others, or one was
             \* added behind what an earlier deletion had left at the end

modes_vars == <<file, known, torn>>

SIZE == 3
NoMode == "none"
Junk == "junk"      \* what a cell beyond the end of the buffer holds
Zero == "zero"      \* what memzero leaves in a cell

\* the index a loop from the start finds first, 0 if there is none
First(S) == IF S = {} THEN 0 ELSE CHOOSE i \in S : \A j \in S : i <= j

count(f) == Len(f) \div SIZE
mode_at(f, i) == f[SIZE * (i - 1) + 1]
id_at(f, i) == f[SIZE * (i - 1) + 2]

find_entry(f, d) == First({i \in 1..count(f) : id_at(f, i) = d})

\* mutant of clear_entries: the mode only
clear_entries_none(f, m) == f

\* memzero of every entry with the mode
clear_entries(f, m) ==
  [p \in DOMAIN f |->
     LET i == ((p - 1) \div SIZE) + 1 IN IF i <= count(f) /\ mode_at(f, i) = m THEN Zero ELSE f[p]]

\* with create_entry: nothing if there is no room
set_device_mode(f, d, m) ==
  LET i == find_entry(f, d) IN
  CASE i # 0 -> [f EXCEPT ![SIZE * (i - 1) + 1] = m]
    [] i = 0 /\ Len(f) + SIZE <= ENTRIES * SIZE -> f \o <<m, d, "end">>
    [] OTHER -> f

\* cn - cf and ce - cf count entries, cfg->len bytes
delete_entry(f, i) ==
  IF i < count(f)
  THEN [p \in 1..(Len(f) - 1) |->
          CASE p <= SIZE * (i - 1) -> f[p]
            [] p > SIZE * (i - 1) /\ p + SIZE <= Len(f) -> f[p + SIZE]
            [] OTHER -> Junk]
  ELSE SubSeq(f, 1, i - 1)

load_device_mode(d) ==
  LET i == find_entry(file, d) IN IF i = 0 THEN NoMode ELSE mode_at(file, i)

\* the device has an entry, or there is room for one
room(f, d) == find_entry(f, d) # 0 \/ Len(f) + SIZE <= ENTRIES * SIZE

\* a new entry begins where an entry should
aligned(f, d) == find_entry(f, d) = 0 => Len(f) % SIZE = 0

store_device_mode ==
  \E d \in Devices, m \in Modes :
    LET f == clear_entries(file, m) IN
    /\ file' = set_device_mode(f, d, m)
    /\ known' = [e \in Devices |-> CASE e = d -> IF room(f, d) THEN m ELSE NoMode
                                     [] e # d /\ known[e] = m -> NoMode
                                     [] OTHER -> known[e]]
    /\ torn' = (torn \/ ~aligned(f, d))

store_device_also ==
  \E d \in Devices, m \in Modes :
    /\ file' = set_device_mode(file, d, m)
    /\ known' = [known EXCEPT ![d] = IF room(file, d) THEN m ELSE NoMode]
    /\ torn' = (torn \/ ~aligned(file, d))

clear_device_entry ==
  \E d \in Devices :
    LET i == find_entry(file, d) IN
    /\ i # 0
    /\ file' = delete_entry(file, i)
    /\ known' = [known EXCEPT ![d] = NoMode]
    /\ torn' = (torn \/ (i > 1 /\ i = count(file)))

ModeInit == file = <<>> /\ known = [d \in Devices |-> NoMode] /\ torn = FALSE
ModeNext == store_device_mode \/ store_device_also \/ clear_device_entry
ModeSpec == ModeInit /\ [][ModeNext]_modes_vars

(* The mode found for a device is the one saved last, if there was room    *)
(* for it, and ifctl mode leaves it to one device only, whichever entries  *)
(* were deleted before the last one.  (Deleting the last loses all others, *)
(* and after any deletion an entry that is added is not found again.)      *)
ModesFound == torn \/ \A d \in Devices : load_device_mode(d) = known[d]

(***************************************************************************)
(* wifi and its file of saved keys (wifi.c, wifi_pskmgm.c).  wifi connect  *)
(* takes the key of the network from the file, or asks for a passphrase,   *)
(* and saves it afterwards; wifi forget drops it.  Several wifi may run,   *)
(* but none is interrupted while it reads or saves.                        *)
(*                                                                         *)
(* The file is a sequence of entries.  save_config truncates it and then   *)
(* writes where reading it has left off, so what comes before is a hole    *)
(* that reads as zeros.  Failing system calls are left out.                *)
(***************************************************************************)
CONSTANTS
  Ssids,     \* networks
  Keys,      \* passphrases
  PSK_ENTRIES    \* MAX_PSK_ENTRIES

VARIABLES
  psk_file,      \* its entries; none if there is no file
  psk_known      \* history: the key saved last for each network, NoKey if none

psk_vars == <<psk_file, psk_known>>

NoKey == "none"
Hole == [ssid |-> NoKey, psk |-> NoKey]
Entry(s, k) == [ssid |-> s, psk |-> k]

\* the whole file, unless it is too large to be read: then wifi ends
can_read == Len(psk_file) <= PSK_ENTRIES

psk_find_entry(f, s) == First({i \in 1..Len(f) : f[i].ssid = s})

\* mutant of save_config: written where it is shorter now
save_config_over(old, buf) == buf \o SubSeq(old, Len(buf) + 1, Len(old))

save_config(old, buf) ==
  IF buf = <<>> THEN <<>> ELSE [i \in 1..Len(old) |-> Hole] \o buf

remove_entry(f, i) == [j \in 1..(Len(f) - 1) |-> IF j < i THEN f[j] ELSE f[j + 1]]
append_entry(f, sv) == Append(f, sv)

load_saved_psk(s) ==
  LET i == psk_find_entry(psk_file, s) IN IF i = 0 THEN NoKey ELSE psk_file[i].psk

maybe_store_psk(s, k) ==
  LET i == psk_find_entry(psk_file, s) IN
  psk_file' = IF i = 0 THEN append_entry(psk_file, Entry(s, k))
          ELSE save_config(psk_file, [psk_file EXCEPT ![i].psk = k])

(* The end of a wifi connect that found no saved key; another one may have *)
(* saved one since.  wait_for_connect returns for LINK_READY and also for  *)
(* DISCONNECT, after a key that did not work; for NO_CONNECT and for       *)
(* errors wifi ends at once.                                               *)
cmd_connect ==
  \E s \in Ssids, k \in Keys :
    /\ can_read
    /\ maybe_store_psk(s, k)
    /\ psk_known' = [psk_known EXCEPT ![s] = k]

cmd_forget ==
  \E s \in Ssids :
    LET i == psk_find_entry(psk_file, s) IN
    /\ can_read /\ i # 0
    /\ psk_file' = save_config(psk_file, remove_entry(psk_file, i))
    /\ psk_known' = [psk_known EXCEPT ![s] = NoKey]

PskInit == psk_file = <<>> /\ psk_known = [s \in Ssids |-> NoKey]
PskNext == cmd_connect \/ cmd_forget
PskSpec == PskInit /\ [][PskNext]_psk_vars

(* A key that was saved is the one in the file until it is changed or      *)
(* forgotten, whatever happened to other networks' keys, whatever holes    *)
(* there are in the file and however large it has grown.  (Grown beyond    *)
(* PSK_ENTRIES, and each change adds a hole as long as the file, it is     *)
(* refused by every later wifi connect and forget.)                        *)
KeysFound == \A s \in Ssids : load_saved_psk(s) = psk_known[s]

(***************************************************************************)
(* The key negotiation of wsupp (wsupp_eapol.c, wsupp_nlkeys.c): packets   *)
(* 1/4 and 3/4 of the access point, 2/4 and 4/4 of wsupp, and the          *)
(* access point's later group rekeying.  Packets are lost, repeated and    *)
(* overtake each other, also those of an earlier association: what was     *)
(* sent stays in the air and may arrive at any time, or never.             *)
(*                                                                         *)
(* A key is the pair of nonces it is made of, a MIC is the key it was      *)
(* made with and a wrapped GTK is readable with that key.  The access      *)
(* point is modelled as 802.11 has it, from the packets wsupp takes.       *)
(* Packets of other stations and ill-formed ones, which handle_rawsock     *)
(* drops before dispatch, are left out.                                    *)
(***************************************************************************)
CONSTANTS
  SESSIONS,   \* bound on associations
  REPLAYS     \* bound on the access point's replay counter

VARIABLES
  eap,        \* wsupp: eapolstate, eapolsends, nonces, replay, keys
  card,       \* the keys wsupp uploaded, in order
  ap,         \* the access point
  air         \* packets sent, by either

wpa_vars == <<eap, card, ap, air>>

ZeroKey == <<0, 0>>                   \* memzero
AccessPoint == {"1", "3", "g"}     \* its packets: 1/4, 3/4 and group rekeying
NoPacket == [t |-> "none", nonce |-> 0, replay |-> 0, mic |-> ZeroKey, gtk |-> 0]

pmk_to_ptk(e) == [e EXCEPT !.kck = <<e.anonce, e.snonce>>, !.ptk = <<e.anonce, e.snonce>>]

cleanup_keys(e) == [e EXCEPT !.anonce = 0, !.snonce = 0, !.ptk = ZeroKey, !.gtk = 0]
reset_eapol_state(e) == [cleanup_keys(e) EXCEPT !.kck = ZeroKey]

upload_ptk(c, e) == [c EXCEPT !.ptks = Append(@, e.ptk)]
upload_gtk(c, e) == [c EXCEPT !.gtks = Append(@, e.gtk)]

\* what wsupp sends is lost before it is associated
send_packet(p) == air' = IF ap.state = "idle" THEN air ELSE air \cup {p}

send_packet_2(e) ==
  /\ eap' = [e EXCEPT !.state = "ES_WAITING_3_4"]
  /\ send_packet([NoPacket EXCEPT !.t = "2", !.nonce = e.snonce, !.replay = e.replay, !.mic = e.kck])
  /\ UNCHANGED card

(* With prime_eapol_state and open_rawsock, wsupp starts a connection.     *)
(* The access point, once it is asked, begins a new association.           *)
proceed_with_connect ==
  /\ ap.session < SESSIONS /\ ap.state = "idle"
  /\ eap' = [eap EXCEPT !.state = "ES_WAITING_1_4", !.sends = FALSE,
                        !.snonce = ap.session + 1, !.raw = TRUE]
  /\ ap' = [ap EXCEPT !.state = "s1", !.session = @ + 1, !.first = ap.replay, !.ptk = ZeroKey]
  /\ UNCHANGED <<card, air>>

\* netlink says that the association is complete
allow_eapol_sends ==
  /\ ap.state # "idle" /\ ~eap.sends
  /\ \/ /\ eap.state = "ES_WAITING_1_4"
        /\ eap' = [eap EXCEPT !.sends = TRUE] /\ UNCHANGED <<card, air>>
     \/ eap.state = "ES_WAITING_2_4" /\ send_packet_2(eap)
  /\ UNCHANGED ap

recv_packet_1(p) ==
  LET e == pmk_to_ptk([eap EXCEPT !.anonce = p.nonce, !.replay = p.replay]) IN
  /\ eap.state = "ES_WAITING_1_4" /\ p.t = "1"
  /\ \/ eap.sends /\ send_packet_2(e)
     \/ ~eap.sends /\ eap' = [e EXCEPT !.state = "ES_WAITING_2_4"] /\ UNCHANGED <<card, air>>
  /\ UNCHANGED ap

\* mutant of send_packet_4: the keys are wiped before they are used
send_packet_4_wiped(e) ==
  LET v == cleanup_keys(e) IN
  /\ eap' = [v EXCEPT !.state = "ES_NEGOTIATED"]
  /\ send_packet([NoPacket EXCEPT !.t = "4", !.replay = e.replay, !.mic = e.kck])
  /\ card' = upload_gtk(upload_ptk(card, v), v)

send_packet_4(e) ==
  /\ eap' = cleanup_keys([e EXCEPT !.state = "ES_NEGOTIATED"])
  /\ send_packet([NoPacket EXCEPT !.t = "4", !.replay = e.replay, !.mic = e.kck])
  /\ card' = upload_gtk(upload_ptk(card, e), e)

\* abort_connection: the card leaves, and so the access point forgets it
abort_connection == ap' = [ap EXCEPT !.state = "idle"] /\ UNCHANGED <<eap, card, air>>

\* a repeated 1/4 is ignored
recv_packet_3(p) ==
  /\ eap.state = "ES_WAITING_3_4" /\ p.t = "3"
  /\ \/ /\ p.nonce # eap.anonce \/ p.replay <= eap.replay \/ p.mic # eap.kck
        /\ abort_connection
     \/ /\ p.nonce = eap.anonce /\ p.replay > eap.replay /\ p.mic = eap.kck
        /\ send_packet_4([eap EXCEPT !.gtk = p.gtk, !.replay = p.replay]) /\ UNCHANGED ap

\* with send_group_2
recv_group_1(p) ==
  /\ eap.state = "ES_NEGOTIATED" /\ p.t = "g" /\ p.replay > eap.replay /\ p.mic = eap.kck
  /\ eap' = [eap EXCEPT !.gtk = p.gtk, !.replay = p.replay]
  /\ send_packet([NoPacket EXCEPT !.t = "g2", !.replay = p.replay, !.mic = eap.kck])
  /\ card' = upload_gtk(card, eap') /\ UNCHANGED ap

handle_rawsock ==
  /\ eap.raw
  /\ \E p \in air : p.t \in AccessPoint /\ (recv_packet_1(p) \/ recv_packet_3(p) \/ recv_group_1(p))

\* snap_to_netdown: close_rawsock and reset_eapol_state
netdown ==
  /\ eap.raw
  /\ eap' = reset_eapol_state([eap EXCEPT !.raw = FALSE])
  /\ ap' = [ap EXCEPT !.state = "idle"]
  /\ UNCHANGED <<card, air>>

\* the connect timer, a disconnect
gives_up == ap.state # "idle" /\ abort_connection

(* The access point: it sends again what is not answered, each time with   *)
(* a new replay counter, and takes an answer to any of these.              *)

ap_packet(t, key) ==
  [NoPacket EXCEPT !.t = t, !.replay = ap.replay + 1, !.mic = key,
                   !.nonce = IF t = "g" THEN 0 ELSE ap.session,
                   !.gtk = IF t = "1" THEN 0 ELSE ap.gtk]

ap_sends ==
  LET t == CASE ap.state = "s1" -> "1" [] ap.state = "s3" -> "3" [] OTHER -> "g" IN
  /\ ap.state # "idle" /\ ap.replay < REPLAYS
  /\ ap' = [ap EXCEPT !.replay = @ + 1]
  /\ air' = air \cup {ap_packet(t, IF t = "1" THEN ZeroKey ELSE ap.ptk)}
  /\ UNCHANGED <<eap, card>>

ap_receives ==
  /\ \E p \in air :
       /\ p.replay > ap.first
       /\ \/ /\ ap.state = "s1" /\ p.t = "2" /\ p.mic = <<ap.session, p.nonce>>
             /\ ap' = [ap EXCEPT !.state = "s3", !.ptk = p.mic, !.agreed = @ \cup {p.mic},
                                 !.first = ap.replay]
          \/ /\ ap.state = "s3" /\ p.t = "4" /\ p.mic = ap.ptk
             /\ ap' = [ap EXCEPT !.state = "up"]
  /\ UNCHANGED <<eap, card, air>>

\* time for another group key
ap_rekeys ==
  /\ ap.state = "up" /\ ap.gtk < REPLAYS
  /\ ap' = [ap EXCEPT !.gtk = @ + 1]
  /\ UNCHANGED <<eap, card, air>>

KeyInit ==
  /\ eap = [state |-> "ES_IDLE", sends |-> FALSE, snonce |-> 0, anonce |-> 0, replay |-> 0,
            kck |-> ZeroKey, ptk |-> ZeroKey, gtk |-> 0, raw |-> FALSE]
  /\ card = [ptks |-> <<>>, gtks |-> <<>>]
  /\ ap = [state |-> "idle", session |-> 0, replay |-> 0, first |-> 0, ptk |-> ZeroKey, gtk |-> 1,
           agreed |-> {}]
  /\ air = {}

KeyNext ==
  \/ proceed_with_connect \/ allow_eapol_sends \/ handle_rawsock \/ netdown \/ gives_up
  \/ ap_sends \/ ap_receives \/ ap_rekeys

KeySpec == KeyInit /\ [][KeyNext]_wpa_vars

(* No pairwise key is uploaded to the card twice (which would have it      *)
(* start its packet numbers again), and none that the access point did     *)
(* not agree to, whatever is lost, repeated or late.                       *)
PtkOnce ==
  \A i \in DOMAIN card.ptks :
    card.ptks[i] \in ap.agreed /\ \A j \in DOMAIN card.ptks : card.ptks[j] = card.ptks[i] => i = j

(* The card never goes back to a group key older than the one it has.      *)
GtkForward ==
  \A i, j \in DOMAIN card.gtks : i < j => 0 < card.gtks[i] /\ card.gtks[i] <= card.gtks[j]

\* The two files and the negotiation, which have nothing to do with each other.
KeysSound == KeysFound /\ ModesFound /\ PtkOnce /\ GtkForward

\* No device and no network has the name that stands for zeros or for junk.
Setting == Zero \notin Devices /\ Junk \notin Devices /\ NoKey \notin Ssids
=============================================================================
