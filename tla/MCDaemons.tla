------------------------------ MODULE MCDaemons ------------------------------
(***************************************************************************)
(* What must never happen, for TLC: small instances of components that are *)
(* too small for a run of their own.  They do not interact: a behaviour is *)
(* one of the instance it chooses at first.  They share the variables v1   *)
(* to v6, and one that has fewer leaves the rest alone; RingBuf has its    *)
(* own.                                                                    *)
(***************************************************************************)
EXTENDS RingBuf, TLC

VARIABLES part, v1, v2, v3, v4, v5, v6

all == <<part, vars, v1, v2, v3, v4, v5, v6>>

\* two applications out of two numbers, which may be running or not there
App == INSTANCE AppHub WITH
  top <- v1, kids <- v2, pipes <- v3, ready <- v4, sigs <- v5, users <- v6,
  Names <- {"a"}, Clients <- {"c"}, PIDS <- 2, FDS <- 2, NCONNS <- 1, XIDS <- 2, STARTS <- 2,
  MAXRUN <- 1, FORKS <- FALSE, Faults <- {"access", "brk", "pipe", "fork"}, Timers <- {},
  Stops <- {}

\* two applications, and apphub may be stopped
AppTwo == INSTANCE AppHub WITH
  top <- v1, kids <- v2, pipes <- v3, ready <- v4, sigs <- v5, users <- v6,
  Names <- {"a"}, Clients <- {"c"}, PIDS <- 2, FDS <- 2, NCONNS <- 1, XIDS <- 2, STARTS <- 2,
  MAXRUN <- 1, FORKS <- FALSE, Faults <- {}, Timers <- {"STOP"}, Stops <- {2}

\* one application that may fork, and apphub may be stopped
AppStop == INSTANCE AppHub WITH
  top <- v1, kids <- v2, pipes <- v3, ready <- v4, sigs <- v5, users <- v6,
  Names <- {"a"}, Clients <- {"c"}, PIDS <- 2, FDS <- 2, NCONNS <- 1, XIDS <- 1, STARTS <- 1,
  MAXRUN <- 0, FORKS <- TRUE, Faults <- {"fork", "pipe", "mmap"}, Timers <- {"MMAP", "STOP"}, Stops <- {2}

\* two clients and one terminal
Pty == INSTANCE PtyHub WITH
  top <- v1, kids <- v2, ttys <- v3, sigs <- v4, users <- v5, procs <- v6,
  Names <- {"a"}, Clients <- {"c", "d"}, PIDS <- 1, NPROCS <- 1, NCONNS <- 2, Fds <- {1, 2},
  XIDS <- 1, STARTS <- 1, FAILS <- FALSE, FORKS <- FALSE, Timers <- {}, Stops <- {}

\* two clients and one connection, and ptyhub may be stopped
PtyStop == INSTANCE PtyHub WITH
  top <- v1, kids <- v2, ttys <- v3, sigs <- v4, users <- v5, procs <- v6,
  Names <- {"a"}, Clients <- {"c", "d"}, PIDS <- 1, NPROCS <- 1, NCONNS <- 1, Fds <- {1},
  XIDS <- 1, STARTS <- 1, FAILS <- FALSE, FORKS <- FALSE, Timers <- {"MMAP", "STOP"}, Stops <- {2}

\* an application may leave a process behind
PtyFork == INSTANCE PtyHub WITH
  top <- v1, kids <- v2, ttys <- v3, sigs <- v4, users <- v5, procs <- v6,
  Names <- {"a"}, Clients <- {"c"}, PIDS <- 2, NPROCS <- 1, NCONNS <- 1, Fds <- {1},
  XIDS <- 1, STARTS <- 1, FAILS <- FALSE, FORKS <- TRUE, Timers <- {}, Stops <- {}

\* two starts out of two numbers, or more that fail
PtyXid == INSTANCE PtyHub WITH
  top <- v1, kids <- v2, ttys <- v3, sigs <- v4, users <- v5, procs <- v6,
  Names <- {"a"}, Clients <- {"c"}, PIDS <- 2, NPROCS <- 2, NCONNS <- 1, Fds <- {1},
  XIDS <- 2, STARTS <- 2, FAILS <- TRUE, FORKS <- FALSE, Timers <- {}, Stops <- {}

\* one server, and signals at any time
Dhcp == INSTANCE DhConf WITH
  dh <- v1, revents <- v2, signals <- v3, net <- v4, addr <- v5, leases <- v6,
  Servers <- {"s"}, LEASE <- 5, RETRY <- 1, AGAIN <- 2, MARGIN <- 2, SHORT <- 2,
  DISCOVERS <- 2, REQUESTS <- 1, Options <- {2, 3}, Files <- {"dhcp-gw", "dhcp-dns"},
  Orders <- {1, 2, 15}, DELAY <- 1, PACKETS <- 1, QUEUE <- 1

\* two servers whose answers may be mixed up
DhcpTwo == INSTANCE DhConf WITH
  dh <- v1, revents <- v2, signals <- v3, net <- v4, addr <- v5, leases <- v6,
  Servers <- {"s", "t"}, LEASE <- 5, RETRY <- 1, AGAIN <- 2, MARGIN <- 2, SHORT <- 2,
  DISCOVERS <- 2, REQUESTS <- 1, Options <- {1}, Files <- {}, Orders <- {}, DELAY <- 1, PACKETS <- 1,
  QUEUE <- 1

\* two servers, a clock that is right and a network without delay
Time == INSTANCE Timed WITH
  tm <- v1, servs <- v2, net <- v3, sig <- v4, off <- v5,
  Addrs <- {"x", "y"}, NSERVS <- 2, PINGS <- 1, POLLS <- 1, TINY <- 1, STEP <- 3, DELAY <- 0,
  LATE <- 2, OFF <- 0, Commands <- {"server", "retry", "reset", "force"}

\* one server, a clock that is wrong and delays
TimeOff == INSTANCE Timed WITH
  tm <- v1, servs <- v2, net <- v3, sig <- v4, off <- v5,
  Addrs <- {"x"}, NSERVS <- 1, PINGS <- 1, POLLS <- 1, TINY <- 1, STEP <- 3, DELAY <- 1,
  LATE <- 2, OFF <- 2, Commands <- {"server", "retry", "reset", "force"}

\* two keyboards, a command run when a key is held with a modifier
Key == INSTANCE KeyMon WITH
  km <- v1, fds <- v2, devs <- v3, news <- v4, kids <- v5, hist <- v6,
  Devs <- {"k", "l"}, Acts <- <<[code |-> "a", mods |-> {"ctrl"}, hold |-> TRUE]>>,
  Mods <- {"ctrl"}, Low <- {"a"}, NDEVS <- 2, PIDS <- 2, QUEUE <- 1, PLUGS <- 1

\* one access point, and a radio that may be switched off
Wifi == INSTANCE Wsupp WITH
  ws <- v1, out <- v2, nlq <- v3, card <- v4, cl <- v5,
  Bss <- {1}, DRVCONNECT <- FALSE, SCRIPT <- TRUE, RESCANS <- 1, QUEUE <- 1,
  Faults <- {"down", "kick"}, Commands <- {"setdev", "resume", "connect"}

\* a driver that only knows CONNECT and may not answer
WifiDrv == INSTANCE Wsupp WITH
  ws <- v1, out <- v2, nlq <- v3, card <- v4, cl <- v5,
  Bss <- {1}, DRVCONNECT <- TRUE, SCRIPT <- TRUE, RESCANS <- 1, QUEUE <- 1,
  Faults <- {"silent", "busy"}, Commands <- {"setdev", "detach", "connect", "neutral"}

\* two access points that may end the connection
WifiTwo == INSTANCE Wsupp WITH
  ws <- v1, out <- v2, nlq <- v3, card <- v4, cl <- v5,
  Bss <- {1, 2}, DRVCONNECT <- FALSE, SCRIPT <- TRUE, RESCANS <- 0, QUEUE <- 1,
  Faults <- {"kick"}, Commands <- {"setdev", "connect"}

\* scans on demand, a wrong passphrase, no script
WifiScan == INSTANCE Wsupp WITH
  ws <- v1, out <- v2, nlq <- v3, card <- v4, cl <- v5,
  Bss <- {1}, DRVCONNECT <- FALSE, SCRIPT <- FALSE, RESCANS <- 1, QUEUE <- 1,
  Faults <- {"busy", "keys"}, Commands <- {"setdev", "detach", "runscan", "connect"}

\* three networks and a file of six entries;
\* three devices and a file of three entries;
\* two associations
Wpa == INSTANCE WifiKeys WITH
  psk_file <- v1, psk_known <- v2, Ssids <- {"a", "b", "c"}, Keys <- {"k", "l"},
  PSK_ENTRIES <- 6, file <- v1, known <- v2, torn <- v3, Devices <- {"a", "b", "c"},
  Modes <- {"k", "l"}, ENTRIES <- 3, eap <- v1, card <- v2, ap <- v3, air <- v4, SESSIONS <- 2,
  REPLAYS <- 4

\* a script and a greeter, and devices that do not open; and xorgvt with its client
Vt == INSTANCE Console WITH
  vt <- v1, kern <- v2, phase <- v3, Pinned <- {1}, Primary <- 1, Greeters <- {10},
  Initial <- 4, Inputs <- {"kbd"}, NTERMS <- 2, NMDEVS <- 2, Faults <- {"open"}, STEPS <- 2,
  xv <- v1, procs <- v2, sigs <- v3

\* the same with one place for devices, and switches that do not end where they should
VtMiss == INSTANCE Console WITH
  vt <- v1, kern <- v2, phase <- v3, Pinned <- {1}, Primary <- 1, Greeters <- {10},
  Initial <- 4, Inputs <- {"kbd"}, NTERMS <- 2, NMDEVS <- 1, Faults <- {"miss"}, STEPS <- 2,
  xv <- v1, procs <- v2, sigs <- v3

\* three modules and one built in;
\* patterns of two terminals;
\* aliases that just fit the buffer;
\* one place for devices that come and go
Mod == INSTANCE Kmod WITH
  disk <- v1, index <- v2, tmp <- v3, loaded <- v4, done <- v5, Mods <- {1, 2, 3},
  Builtin <- {0}, SEEN <- 3, pattern <- v1, alias <- v2, found <- v3, Terminals <- {"v", "d"},
  Values <- {"0"}, PLEN <- 4, NLEN <- 3, pipe <- v1, buf <- v2, tried <- v3, ALIASES <- 4,
  MAXLEN <- 3, SIZE <- 4, dev <- v1, sock <- v2, um <- v3, file <- v4, udev_tried <- v5,
  Slots <- {1}, QLEN <- 3, PLUGS <- 3

\* messages of up to two attributes, and spawn requests, in small and large buffers
UcAtt(t, k, v) == [t |-> t, key |-> k, v |-> v]
UcAtts ==
  {UcAtt("flag", 1, 0), UcAtt("int", 2, 9), UcAtt("i64", 3, 8), UcAtt("bin", 4, <<"a", "b", "c">>),
   UcAtt("str", 2, <<"a", "b", "c">>), UcAtt("str", 3, <<"a", "b", "c", "d", "e">>),
   UcAtt("strn", 3, <<"a", "b", "c", "d", "e">>), UcAtt("nest", 5, <<>>),
   UcAtt("nest", 5, <<UcAtt("int", 1, 3), UcAtt("str", 2, <<"a">>)>>)}
UpTo(S, n) == UNION {[1..k -> S] : k \in 0..n}
UcNested ==
  <<UcAtt("str", 1, <<"x">>), UcAtt("int", 2, 9),
    UcAtt("nest", 5, <<UcAtt("nest", 2, <<UcAtt("bin", 4, <<"a", "b", "c">>)>>), UcAtt("flag", 6, 0)>>)>>
UcStrs == {<<>>, <<"a">>, <<"a", "b", "c", "d">>}

\* requests of up to two attributes, and replies of up to five messages in three packets
NlAtts ==
  {UcAtt("flag", 1, 0), UcAtt("byte", 2, 9), UcAtt("int", 3, 8), UcAtt("bin", 4, <<"a", "b", "c">>),
   UcAtt("str", 2, <<"a", "b", "c">>), UcAtt("str", 3, <<"a", "b", "c", "d", "e">>), UcAtt("nest", 5, <<>>),
   UcAtt("nest", 5, <<UcAtt("int", 1, 3), UcAtt("str", 2, <<"a">>)>>), UcAtt("nest", 5, <<UcAtt("flag", 1, 0)>>)}
NlLong == <<UcAtt("str", 2, <<"a", "b">>), UcAtt("nest", 5, <<UcAtt("byte", 1, 3), UcAtt("bin", 4, <<"a", "b">>)>>)>>
NlOne == <<UcAtt("int", 3, 8)>>
NlReplies ==
  {<<>>, <<<<<<>>, NlLong>>, <<NlOne>>>>, <<<<NlLong, NlOne, <<>>>>>>,
   <<<<NlOne>>, <<<<>>, <<>>>>, <<NlLong>>>>, <<<<NlOne, NlOne>>, <<NlLong, NlLong>>, <<<<>>>>>>}

Msg == INSTANCE Messages WITH
  msg <- v1, uc <- v2, wire <- v3, rcv <- v4, st <- v5,
  Messages <- UpTo(UcAtts, 2) \cup {UcNested}, Spawns <- UpTo(UcStrs, 3) \X UpTo(UcStrs, 2),
  Caps <- {8, 16, 18, 20, 64}, RCaps <- {8, 14, 20, 80}, MAXSTR <- 5, LIMIT <- 36, req <- v1, nc <- v2,
  net <- v3, nr <- v4, got <- v5, nl_st <- v6, Requests <- UpTo(NlAtts, 2),
  Replies <- NlReplies, NlCaps <- {4, 8, 16, 18, 20, 64}, NRBUF <- 60, NLMSG <- 4, FIXED <- 8

\* two items after each other, in buffers that are too small and large enough
FmItem(t, v) == [t |-> t, v |-> v, w |-> 0, pad |-> "none"]
FmPadded(t, v, w, c) == [t |-> t, v |-> v, w |-> w, pad |-> c]
FmItems ==
  {FmItem("int", <<0>>), FmItem("int", <<-12>>), FmItem("int", <<105>>), FmItem("xint", <<171>>),
   FmItem("hex", <<7>>), FmItem("ulp", <<3>>), FmItem("str", <<"x", "y">>), FmItem("str", <<>>),
   FmItem("bytes", <<10, 200>>), FmItem("mac", <<1, 2, 3, 4, 5, 255>>), FmItem("ip", <<10, 0, 0, 255>>),
   FmPadded("int", <<42>>, 4, " "), FmPadded("uint", <<5>>, 3, "0"), FmPadded("str", <<"x">>, 3, "-")}
  \cup {FmItem("size", <<n>>) :
         n \in {0, 1023, 1024, 1535, 1536, 1048575, 1048576, 1101004, 10433331, 10485759, 10485760, 1073741823}}

\* strings of up to three characters, two of them digits
Text == INSTANCE LibText WITH
  in <- v1, out <- v2, Chars <- {1, 2, 3}, Digits <- {1, 2}, MAXLEN <- 3,
  Cases <- {"memcmp", "memmove", "strcmp", "strcmpn", "strncmp", "natcmp", "strchr", "strstr", "basename", "getenv", "argbits"},
  mem <- v1, p <- v2, e <- v3, want <- v4, past <- v5, left <- v6, Items <- FmItems,
  Caps <- {0, 1, 2, 3, 5, 8, 21}, MAXITEMS <- 2

\* arrays of up to seven elements with three keys;
\* twelve bytes through a buffer of three, and a write that fails;
\* three blocks in pages of four bytes, until brk fails
Util == INSTANCE LibUtil WITH
  arr <- v1, calls <- v2, orig <- v3, Keys <- {1, 2, 3}, MAXLEN <- 7, bo <- v1, given <- v2,
  file <- v3, todo <- v4, faults <- v5, BUFLEN <- 3, Lengths <- {1, 2, 3, 4, 6, 7},
  TOTAL <- 12, FAULTS <- 1, kind <- v1, h <- v2, blocks <- v3, st <- v4, PAGE <- 4,
  Starts <- {8, 10}, LIMIT <- 22, Sizes <- {1, 4, 6, 9}, SIZE <- 3, BLOCKS <- 3

\* three access points, one of which may change what it offers
Ssid(n) == [type |-> "ssid", ssid |-> n]
Rsn(g, p, k) == [type |-> "rsn", ver |-> 1, group |-> g, pair |-> p, akms |-> k]
HeardIes ==
  [k1 |-> <<Ssid("a"), Rsn("ccmp", <<"ccmp">>, <<"psk">>)>>,
   k2 |-> <<Ssid("a"), Rsn("tkip", <<"tkip">>, <<"psk">>)>>,
   k3 |-> <<[type |-> "vendor", sub |-> "WPA"], Ssid("a"), Rsn("tkip", <<"tkip", "ccmp">>, <<"eap", "psk">>)>>]
Heard(b, f, s, k) == [bss |-> b, freq |-> f, sig |-> s, ies |-> k]

\* two scans of two access points
Aps == INSTANCE WifiAps WITH
  Ies <- HeardIes, Ssids <- {"a"}, NSCANS <- 2, CHANGES <- 1, SCANS <- 2,
  Stations <- {Heard(1, 2412, -6000, "k1"), Heard(1, 2412, -6000, "k2"), Heard(2, 5180, -7000, "k3")},
  air <- v1, scans <- v2, ss <- v3, ap <- v4, cl <- v5, hist <- v6

\* one scan of three, more than the table has slots
ApsFull == INSTANCE WifiAps WITH
  Ies <- HeardIes, Ssids <- {"a"}, NSCANS <- 2, CHANGES <- 1, SCANS <- 1,
  Stations <- {Heard(1, 2412, -6000, "k1"), Heard(1, 2412, -6000, "k2"), Heard(2, 5180, -7000, "k3"), Heard(3, 2412, -8500, "k1")},
  air <- v1, scans <- v2, ss <- v3, ap <- v4, cl <- v5, hist <- v6

\* three runs of tictl and two slots, with timed idle, selecting or polling
Run(c, s) == [cmd |-> c, servers |-> s]
Serv(a, f) == [addr |-> a, flags |-> f, rtt |-> 0]
TimedAt(state, current, tistate, s1, s2) ==
  [tm |-> [state |-> state, current |-> current, failures |-> 0, bestidx |-> 0, bestrtt |-> 0, interval |-> 0,
           tistate |-> tistate, alarm |-> FALSE, sock |-> FALSE, ref |-> FALSE, lo |-> 0, hi |-> 0, quit |-> FALSE],
   servs |-> <<s1, s2>>, net |-> {}, dt |-> 0]
TimedIdle == TimedAt("IDLE", 0, "NONE", Serv("none", {}), Serv("none", {}))
TimedPolls == TimedAt("POLL_WAIT", 2, "ARMED", Serv("a", {"SET", "PING", "FAIL"}), Serv("b", {"SET", "PING", "RTT"}))
TimedPings ==
  [TimedAt("PING_SENT", 1, "NONE", Serv("a", {"SET", "PING"}), Serv("b", {"SET"})) EXCEPT
     !.tm.alarm = TRUE, !.tm.sock = TRUE, !.tm.ref = TRUE, !.net = {[srv |-> "a", new |-> TRUE]}]
TictlCase(tw, n, x, y, z) == [w |-> tw, ints |-> n, run |-> [p |-> x, q |-> y, r |-> z]]
Tictl == INSTANCE TimeCtl WITH w <- v1, conns <- v2, pp <- v3, cl <- v4, hist <- v5,
  Clients <- {"p", "q", "r"}, NCONNS <- 2, NSERVS <- 2, TXBUF <- 44, LEFT <- 3661, TICKS <- 1,
  Times <- {0, 1, 59, 60, 61, 3599, 3600, 3661, 86399, 86400, 90061, 180000},
  Cases <- {TictlCase(TimedIdle, 1, Run("server", <<"a", "b">>), Run("server", <<"c">>), Run("list", <<>>)),
            TictlCase(TimedPolls, 0, Run("server", <<"c", "b">>), Run("reset", <<>>), Run("list", <<>>)),
            TictlCase(TimedPings, 0, Run("server", <<"a", "b", "c">>), Run("retry", <<>>), Run("status", <<>>)),
            TictlCase(TimedPolls, 0, Run("sync", <<>>), Run("server", <<"c">>), Run("status", <<>>))}

InitAll ==
  /\ Init
  /\ \/ part = "ring" /\ v1 = 0 /\ v2 = 0 /\ v3 = 0 /\ v4 = 0 /\ v5 = 0 /\ v6 = 0
     \/ part = "app" /\ App!Init
     \/ part = "apptwo" /\ AppTwo!Init
     \/ part = "appstop" /\ AppStop!Init
     \/ part = "pty" /\ Pty!Init
     \/ part = "ptystop" /\ PtyStop!Init
     \/ part = "ptyfork" /\ PtyFork!Init
     \/ part = "ptyxid" /\ PtyXid!Init
     \/ part = "dhcp" /\ Dhcp!Init
     \/ part = "dhcptwo" /\ DhcpTwo!Init
     \/ part = "time" /\ Time!Init /\ v6 = 0
     \/ part = "timeoff" /\ TimeOff!Init /\ v6 = 0
     \/ part = "key" /\ Key!Init
     \/ part = "wifi" /\ Wifi!Init /\ v6 = 0
     \/ part = "wifidrv" /\ WifiDrv!Init /\ v6 = 0
     \/ part = "wifitwo" /\ WifiTwo!Init /\ v6 = 0
     \/ part = "wifiscan" /\ WifiScan!Init /\ v6 = 0
     \/ part = "wpa" /\ Wpa!KeyInit /\ v5 = 0 /\ v6 = 0
     \/ part = "psk" /\ Wpa!PskInit /\ v3 = 0 /\ v4 = 0 /\ v5 = 0 /\ v6 = 0
     \/ part = "modes" /\ Wpa!ModeInit /\ v4 = 0 /\ v5 = 0 /\ v6 = 0
     \/ part = "vt" /\ Vt!MuxInit /\ v4 = 0 /\ v5 = 0 /\ v6 = 0
     \/ part = "vtmiss" /\ VtMiss!MuxInit /\ v4 = 0 /\ v5 = 0 /\ v6 = 0
     \/ part = "xorg" /\ Vt!XorgInit /\ v4 = 0 /\ v5 = 0 /\ v6 = 0
     \/ part = "mod" /\ Mod!DepsInit /\ v6 = 0
     \/ part = "alias" /\ Mod!AliasInit /\ v4 = 0 /\ v5 = 0 /\ v6 = 0
     \/ part = "modpipe" /\ Mod!PipeInit /\ v4 = 0 /\ v5 = 0 /\ v6 = 0
     \/ part = "udev" /\ Mod!UdevInit /\ v6 = 0
     \/ part = "ucmsg" /\ Msg!UcInit /\ v6 = 0
     \/ part = "nlmsg" /\ Msg!NlInit
     \/ part = "qsort" /\ Util!SortInit /\ v4 = 0 /\ v5 = 0 /\ v6 = 0
     \/ part = "string" /\ Text!StrInit /\ v3 = 0 /\ v4 = 0 /\ v5 = 0 /\ v6 = 0
     \/ part = "format" /\ Text!FmtInit
     \/ part = "bufout" /\ Util!OutInit /\ v6 = 0
     \/ part = "heap" /\ Util!HeapInit /\ v5 = 0 /\ v6 = 0
     \/ part = "scans" /\ Aps!ScanInit
     \/ part = "scansfull" /\ ApsFull!ScanInit
     \/ part = "timectl" /\ Tictl!Init /\ v6 = 0

NextAll ==
  /\ UNCHANGED part
  /\ \/ part = "ring" /\ Next /\ UNCHANGED <<v1, v2, v3, v4, v5, v6>>
     \/ part = "app" /\ App!Next /\ UNCHANGED vars
     \/ part = "apptwo" /\ AppTwo!Next /\ UNCHANGED vars
     \/ part = "appstop" /\ AppStop!Next /\ UNCHANGED vars
     \/ part = "pty" /\ Pty!Next /\ UNCHANGED vars
     \/ part = "ptystop" /\ PtyStop!Next /\ UNCHANGED vars
     \/ part = "ptyfork" /\ PtyFork!Next /\ UNCHANGED vars
     \/ part = "ptyxid" /\ PtyXid!Next /\ UNCHANGED vars
     \/ part = "dhcp" /\ Dhcp!Next /\ UNCHANGED vars
     \/ part = "dhcptwo" /\ DhcpTwo!Next /\ UNCHANGED vars
     \/ part = "time" /\ Time!Next /\ UNCHANGED <<vars, v6>>
     \/ part = "timeoff" /\ TimeOff!Next /\ UNCHANGED <<vars, v6>>
     \/ part = "key" /\ Key!Next /\ UNCHANGED vars
     \/ part = "wifi" /\ Wifi!Next /\ UNCHANGED <<vars, v6>>
     \/ part = "wifidrv" /\ WifiDrv!Next /\ UNCHANGED <<vars, v6>>
     \/ part = "wifitwo" /\ WifiTwo!Next /\ UNCHANGED <<vars, v6>>
     \/ part = "wifiscan" /\ WifiScan!Next /\ UNCHANGED <<vars, v6>>
     \/ part = "wpa" /\ Wpa!KeyNext /\ UNCHANGED <<vars, v5, v6>>
     \/ part = "psk" /\ Wpa!PskNext /\ UNCHANGED <<vars, v3, v4, v5, v6>>
     \/ part = "modes" /\ Wpa!ModeNext /\ UNCHANGED <<vars, v4, v5, v6>>
     \/ part = "vt" /\ Vt!MuxNext /\ UNCHANGED <<vars, v4, v5, v6>>
     \/ part = "vtmiss" /\ VtMiss!MuxNext /\ UNCHANGED <<vars, v4, v5, v6>>
     \/ part = "xorg" /\ Vt!XorgNext /\ UNCHANGED <<vars, v4, v5, v6>>
     \/ part = "mod" /\ Mod!DepsNext /\ UNCHANGED <<vars, v6>>
     \/ part = "alias" /\ Mod!AliasNext /\ UNCHANGED <<vars, v4, v5, v6>>
     \/ part = "modpipe" /\ Mod!PipeNext /\ UNCHANGED <<vars, v4, v5, v6>>
     \/ part = "udev" /\ Mod!UdevNext /\ UNCHANGED <<vars, v6>>
     \/ part = "ucmsg" /\ Msg!UcNext /\ UNCHANGED <<vars, v6>>
     \/ part = "nlmsg" /\ Msg!NlNext /\ UNCHANGED vars
     \/ part = "qsort" /\ Util!SortNext /\ UNCHANGED <<vars, v4, v5, v6>>
     \/ part = "string" /\ Text!StrNext /\ UNCHANGED <<vars, v3, v4, v5, v6>>
     \/ part = "format" /\ Text!FmtNext /\ UNCHANGED vars
     \/ part = "bufout" /\ Util!OutNext /\ UNCHANGED <<vars, v6>>
     \/ part = "heap" /\ Util!HeapNext /\ UNCHANGED <<vars, v5, v6>>
     \/ part = "scans" /\ Aps!ScanNext /\ UNCHANGED vars
     \/ part = "scansfull" /\ ApsFull!ScanNext /\ UNCHANGED vars
     \/ part = "timectl" /\ Tictl!Next /\ UNCHANGED <<vars, v6>>

SpecAll == InitAll /\ [][NextAll]_all

(* Properties, those of the component chosen *)

\* apphub, with two applications at a time: every application started, until it is collected, is in the table
\* under its number with its pid; nprocs_running is never too low; while no
\* SIGCHLD is pending no application that has ended is in the table as a running
\* one; and on exit every application still running has been told to terminate.
AppTable ==
  /\ part = "app" => App!Supervised /\ App!NotEarly /\ App!Collected
  /\ part = "apptwo" => AppTwo!Supervised /\ AppTwo!NotEarly /\ AppTwo!Collected /\ AppTwo!StopTold
  /\ part = "appstop" => AppStop!Supervised /\ AppStop!NotEarly /\ AppStop!StopTold

\* ptyhub: the terminal of a running application is read by one client or by
\* ptyhub, never by both, by two or by none, and no entry names a connection that
\* is closed.
PtyTerminals ==
  /\ part = "pty" => Pty!Setting /\ Pty!PtyTerminals
  /\ part = "ptystop" => PtyStop!Setting /\ PtyStop!PtyTerminals
  /\ part = "ptyfork" => PtyFork!Setting /\ PtyFork!PtyTerminals
  /\ part = "ptyxid" => PtyXid!Setting /\ PtyXid!PtyTerminals

\* apphub and ptyhub implement AppLife: what their numbers mean to a client, which
\* only changes with their tables (struct top in v1, the table of ptyhub in v6).
XidsKept ==
  /\ part = "app" => App!Life!LifeInit
  /\ [][part = "app" /\ v1'.procs # v1.procs => App!LifeStep]_all
  /\ part = "ptyxid" => PtyXid!Life!LifeInit
  /\ [][part = "ptyxid" /\ v6' # v6 => PtyXid!LifeStep]_all

\* dhconf: an address on the interface is the one of the lease held and does not
\* outlive it, and after SIGINT or SIGHUP there is none; whenever it goes to sleep
\* a timer will wake it up, and every option of the lease is handed to the script the
\* code has for it.
DhcpSound ==
  /\ part = "dhcp" => Dhcp!Setting /\ Dhcp!DhcpSound
  /\ part = "dhcptwo" => DhcpTwo!Setting /\ DhcpTwo!DhcpSound

\* timed: the server it pings or polls is one not given up; unless idle it waits
\* for something that will come; and it is idle only if no measured server is left.
\* No run of tictl is left without a reply, and the servers it gave are the ones
\* listed.
TimeGoesOn ==
  /\ part = "time" => Time!Setting /\ Time!TimeGoesOn
  /\ part = "timeoff" => TimeOff!Setting /\ TimeOff!TimeGoesOn
  /\ part = "timectl" => Tictl!ControlRight

\* timed: an adjustment leaves the clock no further off than it was, or at
\* most half the round trip.
TimeSyncSound == [][part = "timeoff" => TimeOff!SyncStep]_all

\* keymon: an action has one process at a time, which keymon knows; every keyboard
\* that is open is polled; a modifier counts on whatever keyboard it is pressed,
\* and only if it is down on one; and an action is held for only while its key is
\* down.
\* vtmux and xorgvt: only the session on the active terminal has devices that work,
\* a session that lost them has been told, one that has ended makes place for
\* another; and xorgvt, when the X server or its client has died, leaves only after
\* telling the other to end.
ConsoleSound ==
  /\ part = "key" => /\ Key!OneEach /\ Key!Watched
                     /\ Key!ModsSeen /\ Key!ModsDown /\ Key!HoldMeans
  /\ part = "vt" => Vt!VtSafe
  /\ part = "vtmiss" => VtMiss!VtSafe
  /\ part = "xorg" => Vt!LeavesNone

\* wsupp: while it says it is connected the keys were negotiated, the card has the
\* connection or the news of its end is on its way, and the next scan is set; it
\* waits only for a scan that will end, and a wifi that waits waits for something
\* wsupp is still doing.  The table of access points is what the scans heard, every
\* usable station in it is tried once, and the list wifi shows has each station once.
WifiSound ==
  /\ part = "wifi" => Wifi!LinkTrue /\ Wifi!ScansEnd /\ Wifi!WifiTold
  /\ part = "wifidrv" => WifiDrv!LinkTrue /\ WifiDrv!ScansEnd /\ WifiDrv!WifiTold
  /\ part = "wifitwo" => WifiTwo!LinkTrue /\ WifiTwo!ScansEnd /\ WifiTwo!WifiTold
  /\ part = "wifiscan" => WifiScan!LinkTrue /\ WifiScan!ScansEnd /\ WifiScan!WifiTold
  /\ part = "scans" => Aps!ScansRight
  /\ part = "scansfull" => ApsFull!ScansRight

\* wifi and ifctl: the key or mode they saved last is the one they find again,
\* whatever was saved, changed or forgotten for others; in ifctl's file until its last
\* entry is deleted from among others or one is added after a deletion.  wsupp: no
\* pairwise key is given to the card twice or without the access point's agreement, and
\* the card never goes back to an older group key.
KeysSound ==
  /\ part = "psk" => Wpa!Setting /\ Wpa!KeysFound
  /\ part = "modes" => Wpa!Setting /\ Wpa!ModesFound
  /\ part = "wpa" => Wpa!Setting /\ Wpa!PtkOnce /\ Wpa!GtkForward

\* depmod, modprobe and udevmod: a module's line has all that it needs, once; what
\* modprobe says is loaded is there with all of its line, and a line that is in order is
\* loaded; an alias is matched as its pattern says, and goes through the pipe whole; and
\* once its events are handled a device has the tags it should have and its alias was
\* tried, cut short only at the scan and only if it is too long for its buffer.
ModulesFound ==
  /\ part = "mod" => Mod!ModulesSafe
  /\ part = "alias" => Mod!AliasFound
  /\ part = "modpipe" => Mod!AliasesWhole
  /\ part = "udev" => Mod!UdevSafe

\* The library, and the routines every program has its own copy of: a control or
\* netlink message that fits its buffer and the width of its length arrives as it was,
\* and one that does not is refused, unless it is a spawn request; an array is sorted; strings are compared, searched and moved, numbers and
\* sizes written as they should be; bytes given to bufout are written once and in
\* order; and blocks of a heap do not overlap, in memory brk has granted.
LibrarySound ==
  /\ part = "ucmsg" => Msg!MsgKept
  /\ part = "nlmsg" => Msg!NetlinkKept
  /\ part = "qsort" => Util!SortRight
  /\ part = "string" => Text!TextRight
  /\ part = "format" => Text!TextSound
  /\ part = "bufout" => Util!OutputKept
  /\ part = "heap" => Util!BlocksFit
=============================================================================
