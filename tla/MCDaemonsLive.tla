---------------------------- MODULE MCDaemonsLive ----------------------------
(***************************************************************************)
(* What must eventually happen, for TLC: small instances of components     *)
(* that are too small for a run of their own.  They do not interact: a     *)
(* behaviour is one of the component it chooses at first.  The components  *)
(* share the variables v1 to v17, and one that has fewer leaves the rest   *)
(* alone; UcListen has its own.                                            *)
(***************************************************************************)
EXTENDS UcListen, SequencesExt

VARIABLES part, v1, v2, v3, v4, v5, v6, v7, v8, v9, v10, v11, v12, v13, v14, v15, v16, v17

rest == <<v7, v8, v9, v10, v11, v12, v13, v14, v15, v16, v17>>
shared == <<v1, v2, v3, v4, v5, v6, rest>>
all == <<part, listen_vars, shared>>

\* one client and one application, which may be stopped; pipe(2) may fail
App == INSTANCE AppHub WITH
  top <- v1, kids <- v2, pipes <- v3, ready <- v4, sigs <- v5, users <- v6,
  Names <- {"a"}, Clients <- {"c"}, PIDS <- 2, FDS <- 2, NCONNS <- 1, XIDS <- 1,
  STARTS <- 1, MAXRUN <- 1, FORKS <- FALSE, Faults <- {"fork"},
  Timers <- {"MMAP", "STOP"}, Stops <- {2}

Pty == INSTANCE PtyHub WITH
  top <- v1, kids <- v2, ttys <- v3, sigs <- v4, users <- v5, procs <- v6,
  Names <- {"a"}, Clients <- {"c"}, PIDS <- 1, NPROCS <- 1, NCONNS <- 1, Fds <- {1},
  XIDS <- 1, STARTS <- 1, FAILS <- FALSE, FORKS <- FALSE, Timers <- {"MMAP", "STOP"}, Stops <- {2}

\* one server, and few attempts
Dhcp == INSTANCE DhConf WITH
  dh <- v1, revents <- v2, signals <- v3, net <- v4, addr <- v5, leases <- v6,
  Servers <- {"s"}, LEASE <- 5, RETRY <- 1, AGAIN <- 2, MARGIN <- 2, SHORT <- 2,
  DISCOVERS <- 2, REQUESTS <- 1, Options <- {1, 3}, Files <- {"dhcp-gw", "dhcp-dns"}, Orders <- {}, DELAY <- 1, PACKETS <- 1,
  QUEUE <- 1

\* two servers, a clock that is right and a network without delay
Time == INSTANCE Timed WITH
  tm <- v1, servs <- v2, net <- v3, sig <- v4, off <- v5,
  Addrs <- {"x", "y"}, NSERVS <- 2, PINGS <- 1, POLLS <- 1, TINY <- 1, STEP <- 3, DELAY <- 0,
  LATE <- 2, OFF <- 0, Commands <- {"server", "retry", "reset", "force"}

\* one interface; two runs of ifctl set its mode, stop it and manage its DHCP
Ifm == INSTANCE IfMon WITH
  alive <- v1, links <- v2, nlinks <- v3, conns <- v4, nconns <- v5, polled <- v6, ready <- v7,
  at <- v8, kid <- v9, kern <- v10, ev <- v11, events <- v12, backlog <- v13, cl <- v14,
  runs <- v15, inbox <- v16, dropped <- v17,
  Ifis <- {1}, Ignored <- {}, NLINKS <- 1, NCONNS <- 2, Clients <- {"c1", "c2"},
  Commands <- {"also", "stop", "auto_dhcp"}, LinkStates <- {"run"}, Modes <- {"lan"},
  Outcomes <- {"ok", "ENOENT", "EAGAIN"}, Statuses <- {0, 1}, NPIDS <- 2, QLEN <- 2,
  RUNS <- 2, EVENTS <- 1

NoRest ==
  /\ v7 = 0 /\ v8 = 0 /\ v9 = 0 /\ v10 = 0 /\ v11 = 0 /\ v12 = 0
  /\ v13 = 0 /\ v14 = 0 /\ v15 = 0 /\ v16 = 0 /\ v17 = 0

InitAll ==
  /\ \/ part = "listen" /\ v1 = 0 /\ v2 = 0 /\ v3 = 0 /\ v4 = 0 /\ v5 = 0 /\ v6 = 0 /\ NoRest
     \/ part = "app" /\ App!Init /\ NoRest
     \/ part = "pty" /\ Pty!Init /\ NoRest
     \/ part = "dhcp" /\ Dhcp!Init /\ NoRest
     \/ part = "time" /\ Time!Init /\ v6 = 0 /\ NoRest
     \/ part = "ifm" /\ Ifm!Init
  /\ ListenInit /\ (part # "listen" => dirent = "none")

NextAll ==
  /\ UNCHANGED part
  /\ \/ part = "listen" /\ ListenNext /\ UNCHANGED shared
     \/ part = "app" /\ App!Next /\ UNCHANGED <<listen_vars, rest>>
     \/ part = "pty" /\ Pty!Next /\ UNCHANGED <<listen_vars, rest>>
     \/ part = "dhcp" /\ Dhcp!Next /\ UNCHANGED <<listen_vars, rest>>
     \/ part = "time" /\ Time!Next /\ UNCHANGED <<listen_vars, v6, rest>>
     \/ part = "ifm" /\ Ifm!Next /\ UNCHANGED listen_vars

\* the fairness of the component chosen, its conditions numbered: uc_listen of
\* each instance, and Waits and Moves of the others
Waits(k) ==
  CASE part = "listen" -> k <= Cardinality(Inst) /\ ENABLED uc_listen(SetToSeq(Inst)[k])
    [] part = "app" -> k <= 3 /\ App!Waits(k)
    [] part = "pty" -> k <= 4 /\ Pty!Waits(k)
    [] part = "dhcp" -> k <= 3 /\ Dhcp!Waits(k)
    [] part = "time" -> k <= 3 /\ Time!Waits(k)
    [] part = "ifm" -> Ifm!Waits(k)
Moves(k) ==
  CASE part = "listen" -> uc_listen(SetToSeq(Inst)[k])
    [] part = "app" -> App!Moves(k)
    [] part = "pty" -> Pty!Moves(k)
    [] part = "dhcp" -> Dhcp!Moves(k)
    [] part = "time" -> Time!Moves(k)
    [] part = "ifm" -> Ifm!Moves(k)

\* tictl is not run for ever in the middle of a selection (Quiet of Timed)
Quiet == <>[][part = "time" => \A cmd \in {"server", "retry", "reset", "force"} : ~Time!dispatch_cmd(cmd)]_all

SpecAll ==
  /\ InitAll /\ [][NextAll]_all
  /\ \A k \in 1..5 : []<>~Waits(k) \/ []<><<Moves(k)>>_all
  /\ Quiet

(* Properties, those of the component chosen *)

\* A client of apphub that has sent its request gets an answer or is disconnected,
\* whatever applications write and do meanwhile.  A client holding the terminal of
\* an application that has ended is told once ptyhub collects it, unless it leaves
\* or gives the terminal back.  The application leaves no process behind here (FORKS):
\* of one that does, ptyhub is the parent, and check_children returns at such a process
\* before it comes to others that have ended; their clients are then told at the next
\* SIGCHLD, if there is one.
ClientsAnswered ==
  /\ (part = "app" /\ App!Asked("c")) ~> (part = "app" => ~App!Asked("c"))
  /\ (part = "pty" /\ Pty!Ended("c", 1)) ~> (part = "pty" => Pty!Told("c", 1))

\* Told to stop, apphub and ptyhub end, whatever the application does: ignoring the
\* signal, ending before it or after the timeout.
StopEnds ==
  /\ (part = "app" /\ App!Stopping) ~> (part = "app" => ~App!Alive(App!World))
  /\ (part = "pty" /\ Pty!Stopping) ~> (part = "pty" => ~Pty!Alive(Pty!World))

\* An attempt of dhconf to get a lease ends, with a lease or an error; selecting a
\* server in timed ends, with a server to poll or with none.
AttemptsEnd ==
  /\ (part = "dhcp" /\ Dhcp!Trying) ~> (part = "dhcp" => Dhcp!Settled)
  /\ (part = "time" /\ Time!Selecting) ~> (part = "time" => Time!Selected)

\* A client of ifmon that waits for its mode script is told of the result, unless
\* the interface has been stopped or dropped by another one meanwhile; one that
\* waits for an interface to be stopped is told of it, but for the two ways in which
\* a stop hangs (StopHangs of IfMon), a defect of the code.
IfctlAnswered ==
  \A c \in {"c1", "c2"} :
    /\ (part = "ifm" /\ Ifm!ModeAsked(c, 1)) ~> (part = "ifm" => Ifm!ModeOver(c, 1))
    /\ (part = "ifm" /\ Ifm!StopAsked(c, 1)) ~> (part = "ifm" => Ifm!StopOver(c, 1))
=============================================================================
