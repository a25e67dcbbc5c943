--------------------------------- MODULE Wsupp ---------------------------------
(***************************************************************************)
(* wsupp, the Wi-Fi supplicant: how it picks an access point (BSS) of the  *)
(* network it was told to use, connects, loses the connection and tries    *)
(* again.  wsupp_apsel.c decides, wsupp_nlauth.c and wsupp_nlscan.c follow *)
(* the card, which answers commands with netlink messages when it likes,   *)
(* if at all.  The keys are in WifiKeys; here a handshake works or fails.  *)
(*                                                                         *)
(* Sending a netlink command does not fail.  SIGCHLD is handled at once,   *)
(* between two steps of the poll loop, and also right after the kill() of  *)
(* abort_connection and ap_disconnect, which is when the script ends.      *)
(***************************************************************************)
EXTENDS Integers, Sequences, FiniteSets, FiniteSetsExt

CONSTANTS
  Bss,        \* access points of the network, numbered by preference
  DRVCONNECT, \* the driver has CONNECT only
  SCRIPT,     \* there is an /etc/net/wifi-link
  RESCANS,    \* 10 in searching_scan
  QUEUE,      \* bound on netlink messages not read yet
  Faults,     \* what may go wrong: "down", "kick", "silent", "keys", "busy"
  Commands    \* what wifi may ask for

VARIABLES
  ws,         \* the state of wsupp
  out,        \* commands sent and not taken by the card yet
  nlq,        \* messages from the card
  card,       \* the card: auth, scan, down
  cl          \* what a run of wifi waits for

wsupp_vars == <<ws, out, nlq, card, cl>>

NoBss == 0
World == [ws |-> ws, out |-> out, nlq |-> nlq, cl |-> cl]
Apply(w) == \E v \in {w} : ws' = v.ws /\ out' = v.out /\ nlq' = v.nlq /\ cl' = v.cl

set_oper(w, s) == [w EXCEPT !.ws.oper = s]
set_timer(w, cb) == [w EXCEPT !.ws.timer = cb]
clear_timer(w) == set_timer(w, "")

(* Reports to wifi, which waits for some of them *)

Heard == [idle |-> {}, scan |-> {"scan_end"}, neutral |-> {"disconnect"},
          connect |-> {"link_ready", "disconnect", "no_connect"}]
report(w, rep) == IF rep \in Heard[w.cl] THEN [w EXCEPT !.cl = "idle"] ELSE w

(* wsupp_nlauth.c, sending.  An error is only for the last command sent. *)

old(m) == IF m.of = "auth" THEN [m EXCEPT !.of = "old"] ELSE m
put_command(w, c) ==
  [w EXCEPT !.nlq = [i \in DOMAIN @ |-> old(@[i])],
            !.out = Append([i \in DOMAIN @ |-> old(@[i])], [cmd |-> c, of |-> "auth"])]

trigger_connection(w) ==
  IF DRVCONNECT THEN [put_command(w, "CONNECT") EXCEPT !.ws.auth = "connecting"]
  ELSE [put_command(w, "AUTHENTICATE") EXCEPT !.ws.auth = "authenticating"]

start_connection(w) == trigger_connection([w EXCEPT !.ws.retried = FALSE])

can_disconnect(w) == w.ws.auth = "connected"
start_disconnect(w) == [put_command(w, "DISCONNECT") EXCEPT !.ws.auth = "disconnecting"]
force_disconnect(w) == put_command(w, "DISCONNECT")
reset_auth_state(w) ==
  [w EXCEPT !.ws.auth = "idle", !.ws.retried = FALSE,
            !.nlq = [i \in DOMAIN @ |-> old(@[i])]]

(* wsupp_nlscan.c, sending *)

reset_scan_state(w) == [w EXCEPT !.ws.scan = "idle", !.ws.scanreq = FALSE]

can_scan(w) == w.ws.dev /\ (w.ws.scan = "idle" \/ ~w.ws.scanreq)
start_scan(w, freq) ==
  IF w.ws.scan # "idle" THEN w
  ELSE [w EXCEPT !.ws.scan = "scanning", !.ws.scanreq = freq,
                 !.out = Append(@, [cmd |-> "SCAN", of |-> "scan"])]

(* wsupp_bssid.c: scans is the set of stations with their flags *)

clear_bssid(w) == [w EXCEPT !.ws.bss = NoBss, !.ws.rescans = 0]
clear_ssid_bssid(w) == [clear_bssid(w) EXCEPT !.ws.ssid = FALSE, !.ws.success = FALSE]

\* those that may be tried: not yet tried, and with IEs
Candidates(w) == (w.ws.scans \cap w.ws.ies) \ w.ws.tried
pick_best_bss(w) ==
  LET b == Min(Candidates(w)) IN [w EXCEPT !.ws.bss = b, !.ws.tried = @ \cup {b}]
current_bss_in_scans(w) == w.ws.bss \in w.ws.scans
mark_current_bss_good(w) == [w EXCEPT !.ws.tried = @ \ {w.ws.bss}]
clear_all_bss_marks(w) == [w EXCEPT !.ws.tried = {}]

(* wsupp_script.c *)

force_script(w) == [w EXCEPT !.ws.running = FALSE]

(* wsupp_apsel.c *)

\* prime_eapol_state, open_rawsock and start_connection
proceed_with_connect(w) ==
  LET v == [w EXCEPT !.ws.aborterr = "", !.ws.eapol = "w1", !.ws.sends = FALSE, !.ws.raw = TRUE]
  IN  set_oper(set_timer(start_connection(v), "connect"), "CONNECTING")

\* close_rawsock, reset_eapol_state and the rest
snap_to_netdown(w) ==
  LET v == clear_all_bss_marks(clear_timer(reset_scan_state(reset_auth_state(
             [w EXCEPT !.ws.raw = FALSE]))))
      u == IF v.ws.success THEN v ELSE clear_ssid_bssid(v)
  IN  set_oper(u, IF u.ws.ssid THEN "NETDOWN" ELSE "STOPPED")

routine_scan(w, from, to, cb) ==
  IF w.ws.oper # from THEN w
  ELSE set_timer(IF can_scan(w) THEN set_oper(start_scan(w, FALSE), to) ELSE w, cb)
routine_fg_scan(w) == routine_scan(w, "MONITORING", "FG_SCAN", "fg")
routine_bg_scan(w) == routine_scan(w, "CONNECTED", "BG_SCAN", "bg")

searching_scan(w) ==
  LET v == IF w.ws.rescans > RESCANS THEN clear_bssid(w) ELSE [w EXCEPT !.ws.rescans = @ + 1]
  IN  IF w.ws.oper # "SEARCHING" THEN w
      ELSE set_timer(IF can_scan(v) THEN set_oper(start_scan(v, FALSE), "NET_SCAN") ELSE v,
                     "search")

expected_disconnect(w) == set_oper(set_timer(clear_ssid_bssid(w), "fg"), "MONITORING")

try_another_bss(w) ==
  IF Candidates(w) # {} THEN proceed_with_connect(pick_best_bss(w))
  ELSE LET v == report(force_disconnect(w), "no_connect") IN
       IF v.ws.success THEN set_oper(set_timer(v, "search"), "SEARCHING")
       ELSE set_oper(set_timer(clear_ssid_bssid(v), "fg"), "MONITORING")

reconnect_current(w) ==
  IF current_bss_in_scans(w) THEN proceed_with_connect(w) ELSE try_another_bss(w)

rescan_current_bss(w) ==
  LET v == [w EXCEPT !.ws.oper = "BSS_SCAN", !.ws.rescans = @ + 1] IN
  IF can_scan(v) THEN start_scan(v, TRUE) ELSE set_oper(set_timer(v, "search"), "SEARCHING")

\* returns in NET_SCAN if the scan could NOT be started
reassess_situation(w) ==
  IF ~can_scan(w) THEN set_oper(w, "NET_SCAN")
  ELSE set_oper(set_timer(start_scan(w, FALSE), "search"), "SEARCHING")

lost_good_connection(w) == rescan_current_bss([clear_timer(w) EXCEPT !.ws.rescans = 0])

snap_to_monitoring(w) ==
  set_oper(set_timer(clear_ssid_bssid(force_disconnect(w)), "fg"), "MONITORING")

\* mutant of unexpected_disconnect: not during a background scan
unexpected_disconnect_fg(w, err) ==
  CASE w.ws.oper \notin {"CONNECTING", "EAPOL", "CONNECTED"} -> w
    [] w.ws.oper = "CONNECTED" /\ err \in {"", "status"} -> lost_good_connection(w)
    [] OTHER -> CASE err = "ENETDOWN" -> snap_to_netdown(report(w, "no_connect"))
                  [] err = "EINVAL" -> snap_to_monitoring(report(w, "no_connect"))
                  [] OTHER -> try_another_bss(clear_timer(w))

\* a status of the access point is greater than zero
unexpected_disconnect(w, err) ==
  CASE w.ws.oper \notin {"CONNECTING", "EAPOL", "CONNECTED", "BG_SCAN"} -> w
    [] w.ws.oper \in {"CONNECTED", "BG_SCAN"} /\ err \in {"", "status"} -> lost_good_connection(w)
    [] OTHER -> CASE err = "ENETDOWN" -> snap_to_netdown(report(w, "no_connect"))
                  [] err = "EINVAL" -> snap_to_monitoring(report(w, "no_connect"))
                  [] OTHER -> try_another_bss(clear_timer(w))

try_fast_rescan(w) == IF w.ws.rescans = 0 THEN rescan_current_bss(w) ELSE reassess_situation(w)

connection_ended(w, err) ==
  LET aborting == w.ws.oper = "ABORTING"
      v == IF ~aborting THEN clear_timer(w)
           ELSE [clear_timer(w) EXCEPT !.ws.oper = w.ws.abortstate, !.ws.abortstate = "", !.ws.aborterr = ""]
      e == IF aborting THEN w.ws.aborterr ELSE err
  IN  IF v.ws.oper = "CONNECTING" /\ e = "ENOENT" THEN try_fast_rescan(v)
      ELSE LET u == report(v, "disconnect") IN
           IF u.ws.oper = "DISCONNECTING" THEN expected_disconnect(u)
           ELSE unexpected_disconnect(u, e)

abort_timeout(w) == connection_ended(reset_auth_state(w), "ETIMEDOUT")

script_exit(w) ==
  IF w.ws.oper \notin {"WAIT_DISCONN", "WAIT_ABORT"} THEN w
  ELSE LET v == set_oper(w, IF w.ws.oper = "WAIT_DISCONN" THEN "DISCONNECTING" ELSE "ABORTING")
       IN  IF can_disconnect(v) THEN set_timer(start_disconnect(v), "abort")
           ELSE connection_ended(v, "ESRCH")

check_script(w) == script_exit([w EXCEPT !.ws.running = FALSE])

\* early: the script is gone before the timer is set
abort_connection(w, err, early) ==
  LET v == [w EXCEPT !.ws.aborterr = err, !.ws.abortstate = w.ws.oper, !.ws.oper = "WAIT_ABORT"]
      u == set_oper(v, "ABORTING")
  IN  CASE v.ws.running /\ ~early -> set_timer(v, "swait")
        [] v.ws.running /\ early -> set_timer(check_script(v), "swait")
        [] ~v.ws.running /\ can_disconnect(u) -> set_timer(start_disconnect(u), "abort")
        [] OTHER -> connection_ended(u, "ENOTCONN")

\* mutant of eapol_success: the timer of the attempt stays
eapol_success_timed(w, early) ==
  IF w.ws.oper # "EAPOL" THEN w
  ELSE LET v == mark_current_bss_good(
                  [w EXCEPT !.ws.oper = "CONNECTED", !.ws.rescans = 0, !.ws.success = TRUE])
       IN  IF v.ws.running THEN abort_connection(v, "EBUSY", early)
           ELSE report([v EXCEPT !.ws.running = SCRIPT], "link_ready")

eapol_success(w, early) ==
  IF w.ws.oper # "EAPOL" THEN w
  ELSE LET v == set_timer(mark_current_bss_good(
                  [w EXCEPT !.ws.oper = "CONNECTED", !.ws.rescans = 0, !.ws.success = TRUE]), "bg")
       IN  IF v.ws.running THEN abort_connection(v, "EBUSY", early)
           ELSE report([v EXCEPT !.ws.running = SCRIPT], "link_ready")

\* with allow_eapol_sends
connection_ready(w, early) ==
  LET v == set_oper(w, "EAPOL") IN
  CASE w.ws.oper # "CONNECTING" -> w
    [] w.ws.oper = "CONNECTING" /\ w.ws.eapol = "w1" -> [v EXCEPT !.ws.sends = TRUE]
    [] w.ws.oper = "CONNECTING" /\ w.ws.eapol = "w2" -> [v EXCEPT !.ws.eapol = "w3"]
    [] OTHER -> abort_connection(v, "EINVAL", early)

scan_ended(w, err) ==
  LET v == report(w, "scan_end") IN
  CASE err = "ENETDOWN" -> snap_to_netdown(v)
    [] err # "ENETDOWN" /\ v.ws.oper = "NET_SCAN" -> try_another_bss(v)
    [] err # "ENETDOWN" /\ v.ws.oper = "BSS_SCAN" -> reconnect_current(v)
    [] err # "ENETDOWN" /\ v.ws.oper = "FG_SCAN" -> set_oper(v, "MONITORING")
    [] err # "ENETDOWN" /\ v.ws.oper = "BG_SCAN" -> set_oper(v, "CONNECTED")
    [] OTHER -> v

can_change_network(w) ==
  w.ws.oper \in {"STOPPED", "NETDOWN", "MONITORING", "SEARCHING", "FG_SCAN", "NET_SCAN"}
need_resume_first(w) == w.ws.oper \in {"STOPPED", "NETDOWN"}

\* set_network, connect_to_something
ap_connect(w) ==
  LET v == clear_all_bss_marks([clear_ssid_bssid(w) EXCEPT !.ws.ssid = TRUE]) IN
  IF ~can_change_network(w) \/ need_resume_first(w) THEN w
  ELSE IF Candidates(v) # {} THEN [proceed_with_connect(pick_best_bss(v)) EXCEPT !.cl = "connect"]
  ELSE clear_ssid_bssid(v)

ap_disconnect(w, early) ==
  LET v == reset_auth_state(clear_ssid_bssid(w)) IN
  CASE w.ws.running ->
         [set_timer(set_oper(IF early THEN check_script(w) ELSE w, "WAIT_DISCONN"), "swait")
            EXCEPT !.cl = "neutral"]
    [] ~w.ws.running /\ can_disconnect(w) ->
         [set_timer(set_oper(start_disconnect(w), "DISCONNECTING"), "abort")
            EXCEPT !.cl = "neutral"]
    [] OTHER -> CASE w.ws.oper \in {"STOPPED", "MONITORING", "FG_SCAN"} -> v
                  [] w.ws.oper = "NETDOWN" -> set_oper(v, "STOPPED")
                  [] OTHER -> set_oper(set_timer(force_disconnect(v), "fg"), "MONITORING")

\* ap_detach, close_netlink
cmd_detach(w) ==
  IF ~w.ws.dev \/ ~can_change_network(w) THEN w
  ELSE LET v == clear_timer(reset_scan_state(clear_ssid_bssid(reset_auth_state(w)))) IN
       set_oper([v EXCEPT !.ws.scans = {}, !.ws.ies = {}, !.ws.tried = {}, !.ws.stale = {},
                          !.ws.dev = FALSE, !.nlq = <<>>], "STOPPED")

\* also the end of cmd_setdev; cl waits for the end of the scan
ap_resume(w) ==
  IF ~need_resume_first(w) \/ ~can_scan(w) THEN w
  ELSE [set_oper(start_scan(w, FALSE), IF w.ws.success THEN "NET_SCAN" ELSE "MONITORING")
          EXCEPT !.cl = "scan"]

cmd_setdev(w) == IF w.ws.dev THEN w ELSE ap_resume([w EXCEPT !.ws.dev = TRUE])
cmd_runscan(w) == IF can_scan(w) THEN [start_scan(w, FALSE) EXCEPT !.cl = "scan"] ELSE w

dispatch_cmd(w, cmd, early) ==
  CASE cmd = "setdev" -> cmd_setdev(w)
    [] cmd = "detach" -> cmd_detach(w)
    [] cmd = "runscan" -> cmd_runscan(w)
    [] cmd = "resume" -> ap_resume(w)
    [] cmd = "connect" -> IF w.ws.dev THEN ap_connect(w) ELSE w
    [] cmd = "neutral" -> ap_disconnect(w, early)

(* Messages of the card *)

snap_to_external(w) == connection_ended([w EXCEPT !.ws.auth = "external"], "status")

nlm_authenticate(w) ==
  CASE w.ws.auth = "idle" -> w
    [] w.ws.auth = "authenticating" -> [put_command(w, "ASSOCIATE") EXCEPT !.ws.auth = "associating"]
    [] OTHER -> snap_to_external(w)

nlm_associate(w) ==
  CASE w.ws.auth = "idle" -> w
    [] w.ws.auth = "associating" -> [w EXCEPT !.ws.auth = "connecting"]
    [] OTHER -> snap_to_external(w)

\* goes on after snap_to_external
nlm_connect(w, ok, early) ==
  LET v == IF w.ws.auth = "connecting" THEN w ELSE snap_to_external(w) IN
  CASE w.ws.auth = "idle" -> w
    [] w.ws.auth # "idle" /\ ~ok -> connection_ended(v, "status")
    [] OTHER -> connection_ready([v EXCEPT !.ws.auth = "connected"], early)

nlm_disconnect(w) ==
  CASE w.ws.auth = "idle" -> w
    [] w.ws.auth = "retrying" -> trigger_connection(w)
    [] OTHER -> connection_ended([w EXCEPT !.ws.auth = "idle"], "")

\* with retry_connect
nlm_auth_error(w, err) ==
  CASE w.ws.auth = "idle" -> w
    [] err = "EALREADY" /\ ~w.ws.retried
         /\ w.ws.auth \in {"authenticating", "associating", "connecting"} ->
         [put_command(w, "DISCONNECT") EXCEPT !.ws.auth = "retrying", !.ws.retried = TRUE]
    [] OTHER -> connection_ended([w EXCEPT !.ws.auth = "idle"], err)

nlm_trigger_scan(w, Fs) ==
  IF w.ws.scan # "scanning" THEN w ELSE [w EXCEPT !.ws.stale = @ \cup (w.ws.scans \cap Fs)]

\* trigger_scan_dump: after a scan of all frequencies all IEs are dropped
nlm_scan_results(w) ==
  IF w.ws.scan # "scanning" THEN w
  ELSE [w EXCEPT !.ws.scan = "dump", !.out = Append(@, [cmd |-> "GET_SCAN", of |-> "scan"]),
                 !.ws.ies = IF w.ws.scanreq THEN @ ELSE {}]

nlm_scan_aborted(w) ==
  IF w.ws.scan # "scanning" THEN w ELSE scan_ended(reset_scan_state(w), "EINTR")

\* the results, parse_scan_result, and NLMSG_DONE
nlm_scan_done(w, Found) ==
  LET v == [w EXCEPT !.ws.scans = @ \cup Found, !.ws.ies = @ \cup Found, !.ws.stale = @ \ Found]
      drop == v.ws.stale
      u == [v EXCEPT !.ws.scans = @ \ drop, !.ws.ies = @ \ drop, !.ws.tried = @ \ drop,
                     !.ws.stale = {}]
  IN  IF w.ws.scan # "dump" THEN v ELSE scan_ended(reset_scan_state(u), "")

nlm_scan_error(w, err) == scan_ended(reset_scan_state(w), err)

genl_error(w, m, early) ==
  CASE m.of = "scan" -> nlm_scan_error(w, m.err)
    [] m.of = "auth" -> nlm_auth_error(w, m.err)
    [] OTHER -> abort_connection(w, m.err, early)

dispatch(w, m, early) ==
  CASE m.msg = "ERROR" -> genl_error(w, m, early)
    [] m.msg = "AUTHENTICATE" -> nlm_authenticate(w)
    [] m.msg = "ASSOCIATE" -> nlm_associate(w)
    [] m.msg = "CONNECT" -> nlm_connect(w, m.ok, early)
    [] m.msg = "DISCONNECT" -> nlm_disconnect(w)
    [] m.msg = "TRIGGER_SCAN" -> nlm_trigger_scan(w, m.set)
    [] m.msg = "SCAN_RESULTS" -> nlm_scan_results(w)
    [] m.msg = "SCAN_ABORTED" -> nlm_scan_aborted(w)
    [] m.msg = "SCAN_DUMP" -> nlm_scan_done(w, m.set)

(* The poll loop; the card takes commands when they are sent *)

handle_netlink ==
  /\ out = <<>> /\ nlq # <<>>
  /\ \E early \in BOOLEAN : Apply(dispatch([World EXCEPT !.nlq = Tail(@)], Head(nlq), early))
  /\ UNCHANGED card

handle_conn ==
  /\ out = <<>> /\ cl = "idle"
  /\ \E cmd \in Commands, early \in BOOLEAN : Apply(dispatch_cmd(World, cmd, early))
  /\ card' = IF ws'.dev THEN card ELSE [card EXCEPT !.scan = FALSE]

\* packets of the access point wsupp is tuned to; it talks once it is associated
handle_rawsock ==
  /\ out = <<>> /\ ws.raw /\ card.auth \in {"assoc", "conn"}
  /\ \/ /\ ws.eapol = "w1"
        /\ ws' = [ws EXCEPT !.eapol = IF ws.sends THEN "w3" ELSE "w2"]
        /\ UNCHANGED <<out, nlq, cl>>
     \/ /\ ws.eapol = "w3" /\ card.auth = "conn"
        /\ \E early \in BOOLEAN : Apply(eapol_success([World EXCEPT !.ws.eapol = "done"], early))
     \/ /\ ws.eapol = "w3" /\ "keys" \in Faults
        /\ \E early \in BOOLEAN : Apply(abort_connection(World, "EBADMSG", early))
  /\ UNCHANGED card

timer_expired ==
  LET w == clear_timer(World) IN
  /\ out = <<>> /\ nlq = <<>> /\ ws.timer # ""
  /\ CASE ws.timer = "connect" -> \E early \in BOOLEAN : Apply(abort_connection(w, "ETIMEDOUT", early))
       [] ws.timer = "fg" -> ~card.scan /\ Apply(routine_fg_scan(w))
       [] ws.timer = "bg" -> ~card.scan /\ Apply(routine_bg_scan(w))
       [] ws.timer = "search" -> Apply(searching_scan(w))
       [] ws.timer = "abort" -> Apply(abort_timeout(w))
       [] ws.timer = "swait" -> Apply(script_exit(force_script(w)))
  /\ UNCHANGED card

script_ends ==
  /\ out = <<>> /\ ws.running
  /\ Apply(check_script(World))
  /\ UNCHANGED card

(* The card *)

NoMsg == [msg |-> "", of |-> "", err |-> "", ok |-> FALSE, set |-> {}]
Msg(m) == [NoMsg EXCEPT !.msg = m]
Err(c, e) == [NoMsg EXCEPT !.msg = "ERROR", !.of = c.of, !.err = e]
says(m) == nlq' = Append(nlq, m)

\* what it does with a command
take_command ==
  LET c == Head(out) IN
  /\ out # <<>> /\ out' = Tail(out)
  /\ \/ card.down /\ says(Err(c, "ENETDOWN")) /\ UNCHANGED card
     \/ /\ ~card.down /\ c.cmd \in {"AUTHENTICATE", "CONNECT"}
        /\ \/ card.auth # "idle" /\ says(Err(c, "EALREADY")) /\ UNCHANGED card
           \/ card.auth = "idle" /\ says(Err(c, "ENOENT")) /\ UNCHANGED card
           \/ /\ card.auth = "idle" /\ UNCHANGED nlq
              /\ card' = [card EXCEPT !.auth = IF DRVCONNECT THEN "assoc" ELSE "auth"]
     \/ /\ ~card.down /\ c.cmd = "ASSOCIATE"
        /\ \/ card.auth = "authed" /\ card' = [card EXCEPT !.auth = "assoc"] /\ says(Msg("ASSOCIATE"))
           \/ card.auth # "authed" /\ says(Err(c, "EINVAL")) /\ UNCHANGED card
     \/ /\ ~card.down /\ c.cmd = "DISCONNECT"
        /\ \/ card.auth # "idle" /\ card' = [card EXCEPT !.auth = "idle"] /\ says(Msg("DISCONNECT"))
           \/ card.auth # "conn" /\ UNCHANGED <<card, nlq>>
     \/ /\ ~card.down /\ c.cmd = "SCAN"
        /\ \/ /\ card' = [card EXCEPT !.scan = TRUE]
              /\ says([Msg("TRIGGER_SCAN") EXCEPT !.set = IF ws.scanreq THEN {ws.bss} ELSE Bss])
           \/ "busy" \in Faults /\ says(Err(c, "EBUSY")) /\ UNCHANGED card
     \/ /\ ~card.down /\ c.cmd = "GET_SCAN" /\ UNCHANGED card
        /\ \E S \in SUBSET Bss : says([Msg("SCAN_DUMP") EXCEPT !.set = S])
  /\ UNCHANGED <<ws, cl>>

\* what it does by itself
goes_on ==
  /\ out = <<>> /\ ws.dev /\ Len(nlq) < QUEUE
  /\ \/ card.auth = "auth" /\ says(Msg("AUTHENTICATE")) /\ card' = [card EXCEPT !.auth = "authed"]
     \/ card.auth = "assoc" /\ says([Msg("CONNECT") EXCEPT !.ok = TRUE]) /\ card' = [card EXCEPT !.auth = "conn"]
     \/ card.auth = "assoc" /\ says(Msg("CONNECT")) /\ card' = [card EXCEPT !.auth = "idle"]
     \/ /\ card.auth \in {"auth", "authed", "assoc"} /\ "silent" \in Faults
        /\ card' = [card EXCEPT !.auth = "idle"] /\ UNCHANGED nlq
     \/ card.auth = "conn" /\ "kick" \in Faults /\ says(Msg("DISCONNECT")) /\ card' = [card EXCEPT !.auth = "idle"]
     \/ card.scan /\ says(Msg("SCAN_RESULTS")) /\ card' = [card EXCEPT !.scan = FALSE]
     \/ card.scan /\ says(Msg("SCAN_ABORTED")) /\ card' = [card EXCEPT !.scan = FALSE]
  /\ UNCHANGED <<ws, out, cl>>

\* rfkill, and back
goes_down ==
  /\ out = <<>> /\ "down" \in Faults /\ Len(nlq) < QUEUE
  /\ card' = [auth |-> "idle", scan |-> FALSE, down |-> ~card.down]
  /\ nlq' = nlq \o (IF card.auth = "conn" /\ ws.dev THEN <<Msg("DISCONNECT")>> ELSE <<>>)
                \o (IF card.scan /\ ws.dev THEN <<Msg("SCAN_ABORTED")>> ELSE <<>>)
  /\ UNCHANGED <<ws, out, cl>>

Init ==
  /\ ws = [oper |-> "STOPPED", timer |-> "", auth |-> "idle", retried |-> FALSE, scan |-> "idle",
           scanreq |-> FALSE, dev |-> FALSE, raw |-> FALSE, eapol |-> "idle", sends |-> FALSE,
           ssid |-> FALSE, bss |-> NoBss, success |-> FALSE, rescans |-> 0,
           scans |-> {}, ies |-> {}, tried |-> {}, stale |-> {},
           running |-> FALSE, aborterr |-> "", abortstate |-> ""]
  /\ out = <<>> /\ nlq = <<>> /\ cl = "idle"
  /\ card = [auth |-> "idle", scan |-> FALSE, down |-> FALSE]

Next ==
  \/ handle_netlink \/ handle_conn \/ handle_rawsock \/ timer_expired \/ script_ends
  \/ take_command \/ goes_on \/ goes_down

Spec == Init /\ [][Next]_wsupp_vars

Scanning == {"FG_SCAN", "BG_SCAN", "NET_SCAN", "BSS_SCAN"}
Online == {"CONNECTED", "BG_SCAN"}
Idle == {"STOPPED", "NETDOWN", "MONITORING"}

(* While wsupp believes in its connection (CONNECTED, BG_SCAN) the keys    *)
(* were negotiated, the card has that connection unless the news of its    *)
(* end is on its way, and the timer for the next look around is set:       *)
(* whatever the order of aborts, late errors, kicks, scans and of the      *)
(* script's exit.                                                          *)
LinkTrue ==
  ws.oper \in Online =>
    /\ ws.eapol = "done" /\ ws.timer = "bg"
    /\ card.auth = "conn" \/ \E i \in DOMAIN nlq : nlq[i].msg = "DISCONNECT"

(* wsupp waits for a scan only while there is one that will end, so that   *)
(* no state that scan_ended has to leave lasts for ever.                   *)
ScansEnd ==
  /\ ws.oper \in Scanning => ws.scan # "idle"
  /\ ws.scan # "idle" => out # <<>> \/ nlq # <<>> \/ card.scan

(* A wifi that waits, waits for something wsupp is still doing: it was     *)
(* told when the scan ended and, unless the radio is switched off, when    *)
(* its connection was made, refused, given up or ended.                    *)
WifiTold ==
  /\ cl = "scan" => ws.scan # "idle"
  /\ cl \in {"connect", "neutral"} /\ "down" \notin Faults => ws.oper \notin Idle \cup Online
=============================================================================
