------------------------------- MODULE UcListen -------------------------------
(***************************************************************************)
(* uc_listen, with which every service of the project opens its control    *)
(* socket: several instances of a service started at the same path, one    *)
(* system call per step.  A socket bound at the path stays in the file     *)
(* system when its process dies; uc_listen removes it if nobody answers.   *)
(***************************************************************************)
EXTENDS Integers, FiniteSets

CONSTANT Inst   \* instances of the service

ASSUME ListenAssumption == Inst \cap {"none", "stale"} = {}

VARIABLES
  pc,        \* where each instance is
  dirent,    \* the socket at the path: none, its instance, or stale (owner dead)
  died,      \* history: some instance has died
  overlap    \* history: an instance was started while another was starting

hist == <<died, overlap>>
listen_vars == <<pc, dirent, hist>>

\* between the first call and listen(2)
Starting == {i \in Inst : pc[i] \in {"bind", "connect", "unlink", "rebind", "listen"}}
\* not running: not started or dead, or gone after uc_listen returned an error
Down == {"off", "failed"}
Up == {i \in Inst : pc[i] = "up"}

\* the service is started
Start(i) ==
  /\ pc[i] \in Down
  /\ pc' = [pc EXCEPT ![i] = "bind"]
  /\ overlap' = (overlap \/ Starting # {})
  /\ UNCHANGED <<dirent, died>>

\* mutant of sys_bind: the instance goes on without its dirent
sys_bind_anyway(i, busy) ==
  dirent' = (IF dirent = "none" THEN i ELSE dirent) /\ pc' = [pc EXCEPT ![i] = "listen"]

\* bind(2): makes the dirent, or fails with EADDRINUSE
sys_bind(i, busy) ==
  IF dirent = "none"
  THEN dirent' = i /\ pc' = [pc EXCEPT ![i] = "listen"]
  ELSE dirent' = dirent /\ pc' = [pc EXCEPT ![i] = busy]

bind(i) ==
  /\ pc[i] = "bind"
  /\ sys_bind(i, "connect")
  /\ UNCHANGED hist

\* mutant of refused: a socket in use is taken for a stale one
refused_always == TRUE

\* mutant of refused: only a socket bound by nobody counts
refused_never == FALSE

\* connect(2) is refused by a socket that is bound but not listening, and by
\* one whose process is gone; it succeeds on a live one, and fails otherwise
\* if the dirent has been removed
refused == dirent \in {"stale"} \cup (Inst \ Up)

connect(i) ==
  /\ pc[i] = "connect"
  /\ pc' = [pc EXCEPT ![i] = IF refused THEN "unlink" ELSE "failed"]
  /\ UNCHANGED <<dirent, hist>>

\* unlink(2) removes whatever is at the path by now
unlink(i) ==
  /\ pc[i] = "unlink"
  /\ dirent' = "none"
  /\ pc' = [pc EXCEPT ![i] = IF dirent = "none" THEN "failed" ELSE "rebind"]
  /\ UNCHANGED hist

rebind(i) ==
  /\ pc[i] = "rebind"
  /\ sys_bind(i, "failed")
  /\ UNCHANGED hist

listen(i) ==
  /\ pc[i] = "listen"
  /\ pc' = [pc EXCEPT ![i] = "up"]
  /\ UNCHANGED <<dirent, hist>>

\* the process dies without removing its socket
Die(i) ==
  /\ pc[i] \notin Down
  /\ pc' = [pc EXCEPT ![i] = "off"]
  /\ dirent' = IF dirent = i THEN "stale" ELSE dirent
  /\ died' = TRUE
  /\ UNCHANGED overlap

ListenInit ==
  /\ pc = [i \in Inst |-> "off"]
  /\ dirent \in {"none", "stale"}
  /\ died = FALSE /\ overlap = FALSE

uc_listen(i) == bind(i) \/ connect(i) \/ unlink(i) \/ rebind(i) \/ listen(i)

ListenNext == \E i \in Inst : Start(i) \/ uc_listen(i) \/ Die(i)

ListenSpec == ListenInit /\ [][ListenNext]_listen_vars

\* an instance keeps making system calls; none has to start or die
ListenLiveSpec == ListenSpec /\ \A i \in Inst : WF_listen_vars(uc_listen(i))

-----------------------------------------------------------------------------
(* Properties *)

ListenTypeOK ==
  /\ pc \in [Inst -> {"off", "failed", "bind", "connect", "unlink", "rebind", "listen", "up"}]
  /\ dirent \in Inst \cup {"none", "stale"}
  /\ died \in BOOLEAN /\ overlap \in BOOLEAN

\* doc/control.txt: "The socket dirent is used as a lock to prevent the second
\* invocation."  No two instances of a service listen at a time.
Exclusive == \A i, j \in Up : i = j

\* The dirent is a lock as long as instances are started one after the other,
\* whatever they leave behind when they die.  With starts that overlap it is none,
\* though doc/control.txt:31 makes no exception: of two instances that both find a
\* stale socket, the second unlinks the one the first has bound by then, and both
\* listen.  The comment of uc_listen knows ("It is racy"); the claim is only about
\* what is left.
LockHolds == ~overlap => Exclusive

\* Even when starts overlap, the race by itself cannot leave the service
\* unreachable: while nobody has died and nobody is starting, an instance that
\* runs means a live socket at the path.
Reachable == ~died /\ Starting = {} /\ Up # {} => dirent \in Up

\* A stale socket does not keep the service from being restarted: a start with
\* no other instance around ends in a listening one, unless that one dies or
\* another is started meanwhile.  This is what uc_listen is for ("to allow a service
\* to restart even if the first instance failed to clean up the socket it created",
\* addr_bind.c:8-10), and it is not what doc/control.txt:34-39 says: that such a
\* service "won't be able to restart", and that "there is no handling for such cases".
StaleRemoved ==
  \A i \in Inst :
    (pc[i] = "bind" /\ \A j \in Inst \ {i} : pc[j] \in Down)
    ~> (pc[i] \in {"up", "off"} \/ \E j \in Inst \ {i} : pc[j] \notin Down)
=============================================================================
