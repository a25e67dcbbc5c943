-------------------------------- MODULE SvcCtl --------------------------------
(***************************************************************************)
(* svcctl talking to svchub: the clients of SvcHub are processes that run  *)
(* one command of the tool each, over a connection of their own, with the  *)
(* packets in flight modelled.  A connection and the client at its other   *)
(* end share the index of the slot check_socket gave them.                 *)
(***************************************************************************)
EXTENDS SvcHub, Sequences

CONSTANTS
  Commands,   \* svcctl commands that are run: start, spawn, stop, restart, remove
  QLEN        \* packets a socket holds for a client that does not read

ASSUME CtlAssumption ==
  /\ Commands \subseteq {"start", "spawn", "stop", "restart", "remove"}
  /\ QLEN \in Nat \ {0, 1}
  /\ {{}, {P_ONCE}} \subseteq Kinds   \* what start and spawn ask svchub for

VARIABLES
  cl,      \* the client: what it runs, on which service, what it waits for
  req,     \* the request packet svchub has not read yet
  inbox    \* packets the client has not read yet

ctlvars == <<cl, req, inbox>>
allvars == <<vars, ctlvars>>

\* at: "none" no client, "reply" in recv_reply, "died" in wait_notification,
\* "gone" has exited, "confused" failed on an unexpected notification
NoClient == [at |-> "none", cmd |-> "none", name |-> ""]

\* the first request of a command
request(cmd) ==
  CASE cmd = "start" -> "START" [] cmd = "spawn" -> "SPAWN" [] OTHER -> "STOP"

\* the second request of restart and remove, whose reply is never read
second(cmd) == CASE cmd = "restart" -> "START" [] cmd = "remove" -> "REMOVE" [] OTHER -> "none"

\* svcctl is run: it connects and sends its request
Run_svcctl(cmd, n) ==
  /\ check_socket
  /\ cl' = [cl EXCEPT ![grab_conn_slot] = [at |-> "reply", cmd |-> cmd, name |-> n]]
  /\ req' = [req EXCEPT ![grab_conn_slot] = request(cmd)]
  /\ inbox' = [inbox EXCEPT ![grab_conn_slot] = <<>>]

\* dispatch in svchub; wait is what cmd_stop stores in cn->pid
dispatch(c, r, wait) ==
  LET n == cl[c].name
      fl == IF req[c] = "SPAWN" THEN {P_ONCE} ELSE {}
  IN  \/ req[c] \in {"START", "SPAWN"} /\ cmd_start(n, fl, r) /\ wait = 0
      \/ req[c] = "STOP"   /\ cmd_stop(n, r, wait)
      \/ req[c] = "REMOVE" /\ cmd_remove(n, r) /\ wait = 0

Exited(c) == cl[c].at \in {"gone", "confused"}

Replies == StartErrors \cup {"ENOENT", "EAGAIN", "ESRCH", "ENODATA"}

\* check_conn in svchub: dispatch, then the reply; if the client has exited
\* the reply fails and the connection is closed
check_conn(c) ==
  /\ may_send(c) /\ req[c] # "none"
  /\ req' = [req EXCEPT ![c] = "none"]
  /\ \E r \in Replies, wait \in Pids \cup {0} :
     /\ dispatch(c, r, wait)
     /\ reply(c, wait)
     /\ inbox' = IF Exited(c) THEN inbox ELSE [inbox EXCEPT ![c] = Append(@, r)]
  /\ conns'[c].fd = CLOSED <=> Exited(c)
  /\ cl' = IF Exited(c) THEN [cl EXCEPT ![c] = NoClient] ELSE cl

\* svchub sees that the client of c has exited, with no packet left to read
hangup(c) ==
  /\ Exited(c) /\ req[c] = "none"
  /\ close_conn(c)
  /\ cl' = [cl EXCEPT ![c] = NoClient]
  /\ UNCHANGED <<req, inbox>>

-----------------------------------------------------------------------------
(* svcctl *)

\* the process ends, with a last packet sent or not; nobody reads its inbox
exits(c, last) ==
  /\ cl' = [cl EXCEPT ![c].at = "gone"]
  /\ req' = [req EXCEPT ![c] = last]
  /\ inbox' = [inbox EXCEPT ![c] = <<>>]

\* fail("unexpected notification")
confused(c) ==
  /\ cl' = [cl EXCEPT ![c].at = "confused"]
  /\ inbox' = [inbox EXCEPT ![c] = <<>>]
  /\ UNCHANGED req

\* the reply to the first request, read by recv_empty_reply in cmd_start and its
\* like, by cmd_stop, cmd_restart and cmd_remove
recv_reply(c) ==
  LET m == Head(inbox[c])
      cmd == cl[c].cmd
      stops == request(cmd) = "STOP"
      again == cmd \in {"restart", "remove"} /\ m = "EAGAIN"
  IN  /\ cl[c].at = "reply" /\ inbox[c] # <<>>
      /\ \/ m = "REP_DIED" /\ confused(c)
         \/ /\ m = "0" /\ stops
            /\ cl' = [cl EXCEPT ![c].at = "died"]
            /\ inbox' = [inbox EXCEPT ![c] = Tail(@)]
            /\ UNCHANGED req
         \/ again /\ exits(c, second(cmd))
         \/ m # "REP_DIED" /\ ~(m = "0" /\ stops) /\ ~again /\ exits(c, "none")
      /\ UNCHANGED vars

\* wait_notification in cmd_stop, cmd_restart and cmd_remove; the last two then
\* send their second request and leave
wait_notification(c) ==
  /\ cl[c].at = "died" /\ inbox[c] # <<>>
  /\ IF Head(inbox[c]) = "REP_DIED" THEN exits(c, second(cl[c].cmd)) ELSE confused(c)
  /\ UNCHANGED vars

\* the user interrupts svcctl; a request already sent is still delivered
Interrupt(c) ==
  /\ cl[c].at \in {"reply", "died"}
  /\ exits(c, req[c])
  /\ UNCHANGED vars

\* svchub reaps a child; REP_DIED goes to the clients notify_dead tells, and the
\* connections it drops are those of clients that have exited, or have not read
\* anything for so long that uc_wait_writable times out (svcctl fails on the EOF)
reap(p) ==
  LET i == First(find_by_pid(p))
      notified == IF p # scrpid /\ find_by_pid(p) # {} /\ death(procs[i], kid[p].status) = "stopped"
                  THEN told(p) ELSE {}
      dropped == {c \in notified : Exited(c) \/ Len(inbox[c]) >= QLEN}
  IN  /\ reap_one(p)
      /\ \A c \in notified : conns'[c].fd = CLOSED <=> c \in dropped
      /\ inbox' = [c \in Conns |-> CASE c \in dropped            -> <<>>
                                      [] c \in notified \ dropped -> Append(inbox[c], "REP_DIED")
                                      [] OTHER                    -> inbox[c]]
      /\ cl' = [c \in Conns |-> IF c \in dropped THEN NoClient ELSE cl[c]]
      /\ req' = [c \in Conns |-> IF c \in dropped THEN "none" ELSE req[c]]

InitCtl ==
  /\ Init
  /\ cl = [c \in Conns |-> NoClient]
  /\ req = [c \in Conns |-> "none"]
  /\ inbox = [c \in Conns |-> <<>>]

SystemStep ==
  /\ \/ check_children \/ reap_done \/ handle_alarm
     \/ \E i \in Slots : process_proc(i) \/ Tick(i) \/ KidWrites(i)
     \/ \E p \in Pids : KidDies(p) \/ Halt(p)
     \/ AlarmFires \/ AllStopped
  /\ UNCHANGED ctlvars

NextCtl ==
  \/ \E cmd \in Commands, n \in Names : Run_svcctl(cmd, n)
  \/ \E c \in Conns : check_conn(c) \/ recv_reply(c) \/ wait_notification(c) \/ Interrupt(c) \/ hangup(c)
  \/ \E p \in Pids : reap(p)
  \/ SystemStep

SpecCtl == InitCtl /\ [][NextCtl]_allvars

\* svchub answers and reaps, svcctl reads, and services die of the SIGTERM that
\* stop_proc sends them
FairCtl ==
  /\ \A c \in Conns : SF_allvars(check_conn(c)) /\ WF_allvars(recv_reply(c)) /\ WF_allvars(wait_notification(c))
  /\ SF_allvars(check_children /\ UNCHANGED ctlvars)
  /\ WF_allvars(\E p \in Pids : reap(p))
  /\ WF_allvars(reap_done /\ UNCHANGED ctlvars)
  /\ \A i \in Slots, p \in Pids :
       WF_allvars(P_KILLED \in procs[i].flags /\ procs[i].pid = p /\ KidDies(p) /\ UNCHANGED ctlvars)

LiveSpecCtl == SpecCtl /\ FairCtl

-----------------------------------------------------------------------------
(* Properties *)

\* svcctl never meets a notification it does not expect: the reply to STOP is
\* sent before REP_DIED can be, and nothing else is sent to a client.
NeverConfused == \A c \in Conns : cl[c].at # "confused"

\* A client in wait_notification will be woken: REP_DIED is in its inbox, or
\* svchub knows that the connection waits and the process is still there.
WaiterCovered ==
  \A c \in Conns : cl[c].at = "died" /\ forced = 0 =>
     \/ inbox[c] # <<>>
     \/ \E i \in AliveSlots : procs[i].pid = conns[c].pid /\ P_KILLED \in procs[i].flags

\* Every command ends, if services die when told to and until the shutdown
\* script takes over: svcctl gets all the packets it waits for.
CommandsEnd ==
  \A c \in Conns :
    cl[c].at \in {"reply", "died"} ~> (cl[c].at \notin {"reply", "died"} \/ state = S_SHUTDOWN \/ Ended)

-----------------------------------------------------------------------------
(* Small instances *)

\* processes differ in their pids only: any two may be swapped
Symmetric == {[p \in Pids |-> IF p = q THEN r ELSE IF p = r THEN q ELSE p] : q, r \in Pids}

\* bound: clients are followed up to the start of the shutdown script
BeforeShutdown == state # S_SHUTDOWN /\ ~Ended
=============================================================================
