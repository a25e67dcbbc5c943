------------------------------ MODULE Listing ------------------------------
(***************************************************************************)
(* Lists and reports of svchub, apphub and ptyhub, and the tools that ask  *)
(* for them: a table that does not fit into one packet is sent in several, *)
(* each on a request of its own, while services come and go in between.    *)
(***************************************************************************)
EXTENDS Integers, Sequences, SequencesExt, FiniteSets

CONSTANTS
  NPROCS,      \* slots of svchub's table
  CHANGES,     \* bound on changes of the table during a listing
  MAXREC,      \* maxrec: what a record may take
  BUF,         \* size of the server's buffer
  Hubs,        \* "svchub", "apphub", "ptyhub"
  CROOM        \* what the buffer of appctl and ptyctl really takes

VARIABLES
  who,     \* the service
  table,   \* procs[0..nprocs-1]: a record [id, st, ring, sz], or None
  ids,     \* services started so far; the id is also the order of the names
  changes, \* changes of the table so far
  cl,      \* the client: [st, op, start, msgs, out]
  seen,    \* entries there were in the table since the client has started
  always     \* ids of those that have been in it all the time

lst_vars == <<who, table, ids, changes, cl, seen, always>>

None == [id |-> 0, st |-> "none", ring |-> FALSE, sz |-> 0]
Used(t) == {i \in DOMAIN t : t[i] # None}
\* a service that was started as the n-th, and the size of its record: names differ
New(n, st) == [id |-> n, st |-> st, ring |-> FALSE, sz |-> 2 + (n % 2)]
\* the attributes of a record in a reply: the pid of one that runs, the status of one
\* that has died, neither for one that has been stopped
Rec(e) == [id |-> e.id,
           at |-> CASE e.st = "run" -> "pid" [] e.st = "dead" -> "exit" [] OTHER -> "none",
           ring |-> e.ring]
Recs(t) == {Rec(t[i]) : i \in Used(t)}

(***************************************************************************)
(* The table                                                               *)
(***************************************************************************)
\* the last slots are dropped when they are empty
Trimmed(t) == SubSeq(t, 1, IF Used(t) = {} THEN 0 ELSE CHOOSE n \in Used(t) : \A m \in Used(t) : m <= n)
Changed(t) ==
  /\ changes < CHANGES /\ changes' = changes + 1
  /\ table' = t
  /\ seen' = seen \cup Recs(t)
  /\ always' = always \cap {t[i].id : i \in Used(t)}

Start ==
  /\ (who = "svchub" => Cardinality(Used(table)) < NPROCS)
  /\ LET e == New(ids + 1, "run")
         free == DOMAIN table \ Used(table)
         i == CHOOSE j \in free : \A k \in free : j <= k
     IN  Changed(IF free = {} THEN Append(table, e) ELSE [table EXCEPT ![i] = e])
  /\ ids' = ids + 1
  /\ UNCHANGED <<who, cl>>

Output(i) ==
  /\ table[i].st = "run" /\ ~table[i].ring
  /\ Changed([table EXCEPT ![i].ring = TRUE]) /\ UNCHANGED <<who, ids, cl>>
Die(i) ==
  /\ table[i].st = "run"
  /\ Changed([table EXCEPT ![i].st = "dead"]) /\ UNCHANGED <<who, ids, cl>>
\* svchub keeps the entry of a service that was told to stop
Stop(i) ==
  /\ table[i].st = "run" /\ who = "svchub"
  /\ Changed([table EXCEPT ![i].st = "stopped"]) /\ UNCHANGED <<who, ids, cl>>
Drop(i) ==
  /\ table[i].st \in {"dead", "stopped"}
  /\ Changed(Trimmed([table EXCEPT ![i] = None])) /\ UNCHANGED <<who, ids, cl>>

(***************************************************************************)
(* Replies: [recs, next], next is -1 when the attribute is not there       *)
(***************************************************************************)
HDR == 1
NEXT == 1
Sum(l) == FoldSeq(LAMBDA e, n : n + e.sz, HDR, l)
\* a message that has outgrown its buffer is not sent
Sent(l, next) == IF Sum(l) + (IF next >= 0 THEN NEXT ELSE 0) > BUF THEN <<"ENOBUFS">> ELSE <<"ok">>
Reply(l, next) == [err |-> Sent(l, next)[1], recs |-> [i \in DOMAIN l |-> Rec(l[i])], next |-> next, len |-> Sum(l)]
Empty == [err |-> "ok", recs |-> <<>>, next |-> -1, len |-> HDR]

\* svchub: from slot i on, with the records in l; an empty slot is passed over
\* before the room left is looked at
RECURSIVE ListFrom(_, _)
ListFrom(i, l) ==
  IF i > Len(table) THEN Reply(l, -1)
  ELSE IF table[i] = None THEN ListFrom(i + 1, l)
  ELSE IF BUF - Sum(l) < MAXREC THEN Reply(l, i - 1)
  ELSE ListFrom(i + 1, Append(l, table[i]))

\* mutant of cmd_list
cmd_list_skip(start) ==
  IF start >= Len(table) THEN Empty
  ELSE LET r == ListFrom(start + 1, <<>>) IN IF r.next >= 0 THEN [r EXCEPT !.next = @ + 1] ELSE r

cmd_list(start) == IF start >= Len(table) THEN Empty ELSE ListFrom(start + 1, <<>>)

\* apphub, ptyhub: nprocs slots from start on, even those behind the table, which
\* are empty
At(i) == IF i <= Len(table) THEN table[i] ELSE None
RECURSIVE StatusFrom(_, _, _)
StatusFrom(i, e, l) ==
  IF i > e THEN Reply(l, -1)
  ELSE IF BUF - Sum(l) < MAXREC
         THEN Reply(l, IF \E j \in i..e : At(j) # None THEN i - 1 ELSE -1)
  ELSE StatusFrom(i + 1, e, IF At(i) = None THEN l ELSE Append(l, At(i)))

reply_status(start) == StatusFrom(start + 1, start + Len(table), <<>>)
\* ptyhub's
ptyhub_status(start) == reply_status(start)
cmd_status(start) ==
  IF start >= Len(table) THEN Empty
  ELSE IF who = "apphub" THEN reply_status(start) ELSE ptyhub_status(start)

(***************************************************************************)
(* The tools                                                               *)
(***************************************************************************)
\* ptyctl, as appctl, gives recv a buffer that ends a page behind its memory
Room(r) == who = "svchub" \/ r.len <= CROOM
\* one request of svcctl's cmd_list or of req_status: the answer, and what is done
\* with it
List ==
  /\ cl.st = "asked" /\ cl.op = "list"
  /\ LET r == IF who = "svchub" THEN cmd_list(cl.start) ELSE cmd_status(cl.start)
     IN  cl' = CASE r.err # "ok" -> [cl EXCEPT !.st = "failed"]
                 [] ~Room(r) -> [cl EXCEPT !.st = "failed", !.msgs = Append(@, r)]
                 [] OTHER -> [cl EXCEPT !.msgs = Append(@, r), !.start = r.next,
                                        !.st = IF r.next < 0 THEN "got" ELSE "asked"]
  /\ UNCHANGED <<who, table, ids, changes, seen, always>>

\* index_procs goes to the next message by the length of this one, while recv_large
\* has left a whole buffer to each: only the first is found.  The attribute with the
\* next index is taken for a service without a name.
index_procs(m) == m[1].recs \o (IF m[1].next < 0 THEN <<>> ELSE <<Rec(None)>>)
\* the line of a service: its name (0 is ???) and what it does
dump_proc(r) == [name |-> r.id, text |-> IF r.at = "none" THEN "stopped" ELSE r.at, mark |-> r.ring]
fmt_status(r) == [name |-> r.id, text |-> IF r.at = "none" THEN "" ELSE r.at, mark |-> r.ring]
dump_proc_status(r) == [name |-> r.id, text |-> IF r.at = "none" THEN "unknown" ELSE r.at, mark |-> r.ring]
Line(op, r) == IF op = "status" THEN dump_proc_status(r) ELSE IF who = "svchub" THEN dump_proc(r) ELSE fmt_status(r)
ByName(l) == SortSeq(l, LAMBDA a, b : a.id < b.id)
\* appctl shows the records of a reply as they come
Shown(m) == FlattenSeq([i \in DOMAIN m |-> m[i].recs])
dump_list ==
  /\ cl.st = "got"
  /\ cl' = [cl EXCEPT !.st = "done",
                      !.out = LET l == IF who = "svchub" THEN ByName(index_procs(cl.msgs))
                                       ELSE Shown(cl.msgs)
                              IN  [i \in DOMAIN l |-> Line("list", l[i])]]
  /\ UNCHANGED <<who, table, ids, changes, seen, always>>

(***************************************************************************)
(* svcctl status: what the service is doing, then its output if there was  *)
(* some                                                                    *)
(***************************************************************************)
Named(n) == {i \in Used(table) : table[i].id = n}
Status(n) ==
  /\ cl.st = "asked" /\ cl.op = "status" /\ who = "svchub"
  /\ cl' = IF Named(n) = {} THEN [cl EXCEPT !.st = "failed"]
           ELSE LET e == table[CHOOSE i \in Named(n) : TRUE]
                IN  [cl EXCEPT !.out = <<dump_proc_status(Rec(e))>>, !.start = n, !.st = IF e.ring THEN "getbuf" ELSE "done"]
  /\ UNCHANGED <<who, table, ids, changes, seen, always>>
\* cmd_getbuf: the service may be gone by now
Getbuf ==
  /\ cl.st = "getbuf"
  /\ cl' = IF Named(cl.start) = {} THEN [cl EXCEPT !.st = "failed"]
           ELSE [cl EXCEPT !.st = "done", !.msgs = <<[Empty EXCEPT !.recs = <<Rec(table[CHOOSE i \in Named(cl.start) : TRUE])>>]>>]
  /\ UNCHANGED <<who, table, ids, changes, seen, always>>

\* a tool is started, whatever is in the table by then
Init ==
  /\ who \in Hubs
  /\ \E t \in [1..NPROCS -> {"none", "run", "dead"}] :
       table = Trimmed([i \in DOMAIN t |-> IF t[i] = "none" THEN None ELSE New(i, t[i])])
  /\ ids = NPROCS /\ changes = 0
  /\ \E op \in {"list"} \cup (IF who = "svchub" THEN {"status"} ELSE {}) :
       cl = [st |-> "asked", op |-> op, start |-> 0, msgs |-> <<>>, out |-> <<>>]
  /\ seen = Recs(table) /\ always = {r.id : r \in Recs(table)}

Next ==
  \/ Start
  \/ \E i \in DOMAIN table : Output(i) \/ Die(i) \/ Stop(i) \/ Drop(i)
  \/ List \/ dump_list
  \/ \E n \in 1..ids : Status(n)
  \/ Getbuf

Spec == Init /\ [][Next]_lst_vars

(***************************************************************************)
(* Properties                                                              *)
(***************************************************************************)
Ids(l) == {l[i].id : i \in DOMAIN l}
NoneTwice(l) == \A i, j \in DOMAIN l : l[i].id = l[j].id /\ l[i].id # 0 => i = j

\* A listing over several requests is one of the table: whatever starts and goes in the
\* meantime, a service that is there all the time is in exactly one of the replies, the
\* replies say of every service what was so at some moment of the listing, each asks for
\* a later part, and none outgrows its buffer.  appctl and ptyctl show all the replies.
\* svcctl shows the services in order of the names when there is one reply; of several it
\* finds the first only (see index_procs), and then no service that is not in it is shown,
\* nor is one shown twice.
ListedOnce ==
  LET all == FlattenSeq([i \in DOMAIN cl.msgs |-> cl.msgs[i].recs])
  IN  /\ NoneTwice(all)
      /\ {all[i] : i \in DOMAIN all} \subseteq seen
      /\ cl.op = "list" /\ cl.st \in {"got", "done"} => always \subseteq Ids(all)
      /\ \A i \in 2..Len(cl.msgs) : cl.msgs[i].next >= 0 => cl.msgs[i].next > cl.msgs[i - 1].next
      /\ cl.op = "list" /\ cl.st = "failed" => who # "svchub" /\ cl.msgs # <<>> /\ cl.msgs[1].len > CROOM
      /\ cl.op = "list" /\ cl.st = "done" =>
           /\ (who = "svchub" /\ Len(cl.msgs) > 1) \/ always \subseteq {cl.out[i].name : i \in DOMAIN cl.out}
           /\ {cl.out[i] : i \in DOMAIN cl.out} \subseteq
                {Line(cl.op, r) : r \in seen \cup (IF who = "svchub" /\ Len(cl.msgs) > 1 THEN {Rec(None)} ELSE {})}
           /\ who = "svchub" => \A i, j \in DOMAIN cl.out : i < j => cl.out[i].name < cl.out[j].name
      /\ cl.op = "status" => {cl.out[i] : i \in DOMAIN cl.out} \subseteq {Line(cl.op, r) : r \in seen}
=============================================================================
