------------------------------- MODULE Procs -------------------------------
(* Processes: pslist, pstree and pskill. *)
EXTENDS Integers, Sequences, FiniteSets, SequencesExt

(***************************************************************************)
(* pslist reads /proc while processes start, end and change: for every     *)
(* number listed it opens the directory, reads the status and the command  *)
(* line, and prints those that match.                                      *)
(***************************************************************************)
CONSTANTS
  Pids,        \* process numbers; 2 is kthreadd, 3 a thread of the kernel
  Self,        \* pslist's own
  Commands,    \* command lines: sequences of characters, "0" ends an argument
  Patterns,    \* what to look for: sets of characters, or of numbers
  PAGE,        \* characters read at once, at first
  EVENTS       \* bound on what happens meanwhile

VARIABLES
  procs,   \* (external) pid -> [gen, ppid, cmd, run]; gen 0 when there is no such process
  args,    \* [r: OPT_r, c: OPT_c, patts]
  ctx,     \* [st, todo: the numbers left, pid: the one open, gen, ppid, run, buf, end]
  out,     \* lines printed
  hist     \* [n: events, gens, cmds: gen -> command lines it has had, steady: gens that have
           \* been there all the time]

list_vars == <<procs, args, ctx, out, hist>>

(***************************************************************************)
(* Processes                                                               *)
(***************************************************************************)
None == [gen |-> 0, ppid |-> 0, cmd |-> <<>>, run |-> FALSE]
Event == hist.n < EVENTS /\ ctx.st # "done"

Exit(p) ==
  /\ Event /\ p \notin {2, 3, Self} /\ procs[p].gen # 0
  /\ procs' = [procs EXCEPT ![p] = None]
  /\ hist' = [hist EXCEPT !.n = @ + 1, !.steady = @ \ {procs[p].gen}]
  /\ UNCHANGED <<args, ctx, out>>

Fork(p, c) ==
  /\ Event /\ p \notin {2, 3} /\ procs[p].gen = 0
  /\ procs' = [procs EXCEPT ![p] = [gen |-> hist.gens + 1, ppid |-> 1, cmd |-> c, run |-> TRUE]]
  /\ hist' = [hist EXCEPT !.n = @ + 1, !.gens = @ + 1, !.cmds = Append(@, {c})]
  /\ UNCHANGED <<args, ctx, out>>

\* a process that changes its command line is no longer steady, and one that does so
\* while it is read may be shown half and half
Exec(p, c) ==
  /\ Event /\ p \notin {2, 3, Self} /\ procs[p].gen # 0 /\ procs[p].cmd # c
  /\ procs' = [procs EXCEPT ![p].cmd = c]
  /\ hist' = [hist EXCEPT !.n = @ + 1, !.steady = @ \ {procs[p].gen},
                          !.cmds = [@ EXCEPT ![procs[p].gen] = @ \cup {c}]]
  /\ ctx' = IF ctx.st = "cmdline" /\ ctx.gen = procs[p].gen /\ ctx.buf # <<>> THEN [ctx EXCEPT !.mixed = TRUE] ELSE ctx
  /\ UNCHANGED <<args, out>>

(***************************************************************************)
(* pslist                                                                  *)
(***************************************************************************)
\* need_whole_list: numbers only are opened directly
Numbers == {x.v : x \in {y \in args.patts : y.t = "pid"}}
need_whole_list == args.patts = {} \/ \E x \in args.patts : x.t = "str"

Start ==
  /\ ctx.st = "start"
  /\ ctx' = [ctx EXCEPT !.st = "next", !.todo = IF need_whole_list THEN Pids ELSE Numbers]
  /\ UNCHANGED <<procs, args, out, hist>>

\* the directory is listed in order; a process that is gone by then is passed over
read_proc ==
  /\ ctx.st = "next" /\ ctx.todo # {}
  /\ LET p == CHOOSE x \in ctx.todo : \A y \in ctx.todo : x <= y
     IN  ctx' = IF procs[p].gen = 0 THEN [ctx EXCEPT !.todo = @ \ {p}]
                ELSE [ctx EXCEPT !.todo = @ \ {p}, !.st = "status", !.pid = p, !.gen = procs[p].gen,
                                 !.ppid = -1, !.run = FALSE, !.buf = <<>>, !.mixed = FALSE]
  /\ UNCHANGED <<procs, args, out, hist>>

Finish ==
  /\ ctx.st = "next" /\ ctx.todo = {}
  /\ ctx' = [ctx EXCEPT !.st = "done"]
  /\ UNCHANGED <<procs, args, out, hist>>

\* the descriptor of the directory is of the process it was opened for
There == procs[ctx.pid].gen = ctx.gen

\* mutant of check_proc_info
check_proc_all(ppid, run) == ctx.pid # Self

check_proc_info(ppid, run) ==
  /\ ctx.pid # 2 /\ ppid # 2
  /\ ctx.pid # Self
  /\ ~(args.r /\ ~run)

read_proc_status ==
  /\ ctx.st = "status"
  /\ ctx' = IF There /\ check_proc_info(procs[ctx.pid].ppid, procs[ctx.pid].run)
            THEN [ctx EXCEPT !.st = "cmdline", !.ppid = procs[ctx.pid].ppid, !.run = procs[ctx.pid].run]
            ELSE [ctx EXCEPT !.st = "next"]
  /\ UNCHANGED <<procs, args, out, hist>>

\* a read that fills the buffer may not be the last: there is another after it has
\* been made larger.  A process that has ended has no command line, and once it has
\* been waited for the read fails.
read_proc_cmdline ==
  /\ ctx.st = "cmdline"
  /\ LET room == ctx.end - Len(ctx.buf)
         left == SubSeq(procs[ctx.pid].cmd, Len(ctx.buf) + 1, Len(procs[ctx.pid].cmd))
         rd == IF room < Len(left) THEN room ELSE Len(left)
     IN  IF ~There THEN ctx' \in {[ctx EXCEPT !.st = "next"], [ctx EXCEPT !.st = "check", !.mixed = TRUE]}
         ELSE ctx' = [ctx EXCEPT !.buf = @ \o SubSeq(left, 1, rd),
                                 !.st = IF rd < room THEN "check" ELSE "cmdline",
                                 !.end = IF rd < room THEN @ ELSE @ + PAGE]
  /\ UNCHANGED <<procs, args, out, hist>>

Elements(s) == {s[i] : i \in DOMAIN s}
FirstArg(s) ==
  IF "0" \in Elements(s)
  THEN SubSeq(s, 1, (CHOOSE i \in DOMAIN s : s[i] = "0" /\ \A j \in 1..(i - 1) : s[j] # "0") - 1) ELSE s

\* the characters of a pattern stand for strings to be found in the command line
check_proc_cmdline(cmd, pid) ==
  \/ args.patts = {}
  \/ \E x \in args.patts :
       \/ x.t = "pid" /\ x.v = pid
       \/ x.t = "str" /\ x.v \in Elements(IF args.c THEN FirstArg(cmd) ELSE cmd)

\* format_proc_status, format_proc_cmdline
format_proc ==
  /\ ctx.st = "check"
  /\ out' = IF check_proc_cmdline(ctx.buf, ctx.pid)
            THEN Append(out, [pid |-> ctx.pid, gen |-> ctx.gen, cmd |-> ctx.buf, mixed |-> ctx.mixed]) ELSE out
  /\ ctx' = [ctx EXCEPT !.st = "next"]
  /\ UNCHANGED <<procs, args, hist>>

ListInit ==
  /\ \E q \in [Pids -> Commands], some \in SUBSET Pids, run \in BOOLEAN :
       /\ Self \in some
       /\ procs = [p \in Pids |->
            IF p \notin some THEN None
            ELSE [gen |-> p, ppid |-> IF p = 3 THEN 2 ELSE 1, cmd |-> IF p \in {2, 3} THEN <<>> ELSE q[p],
                  run |-> IF p = Self THEN TRUE ELSE run]]
       /\ \A p \in Pids : (p \in {2, 3, Self} \/ p \notin some) => q[p] = <<>>
       /\ hist = [n |-> 0, gens |-> 9, cmds |-> [g \in 1..9 |-> IF g \in some THEN {q[g]} ELSE {}],
                  steady |-> some]
       /\ 3 \in some <=> 2 \in some
  /\ \E r, c \in BOOLEAN, t \in Patterns : args = [r |-> r, c |-> c, patts |-> t]
  /\ ctx = [st |-> "start", todo |-> {}, pid |-> 0, gen |-> 0, ppid |-> 0, run |-> FALSE,
            buf |-> <<>>, end |-> PAGE, mixed |-> FALSE]
  /\ out = <<>>

ListNext ==
  \/ Start \/ read_proc \/ Finish \/ read_proc_status \/ read_proc_cmdline \/ format_proc
  \/ \E p \in Pids : Exit(p)
  \/ \E p \in Pids, c \in Commands : Fork(p, c) \/ Exec(p, c)

ListSpec == ListInit /\ [][ListNext]_list_vars

(***************************************************************************)
(* Properties                                                              *)
(***************************************************************************)
Lines == {out[i] : i \in DOMAIN out}

\* A line shows one process: its number, and a command line it has had, unless it
\* changed that while it was being read, also when the number has been taken by another
\* process in between; threads of the kernel and pslist are not shown; and a process
\* that was there from the beginning to the end, and matches, is shown exactly once.
ShownRight ==
  /\ \A l \in Lines : ~l.mixed => l.cmd \in hist.cmds[l.gen]
  /\ \A l \in Lines : l.pid \notin {2, Self}
  /\ \A i, j \in DOMAIN out : i < j => out[i].pid < out[j].pid
  /\ ctx.st = "done" =>
       \A p \in Pids \ {2, Self} :
         LET q == procs[p]
         IN  /\ (q.gen \in hist.steady /\ q.ppid # 2 /\ (args.r => q.run)) =>
                  ((\E l \in Lines : l.gen = q.gen) <=> check_proc_cmdline(q.cmd, p))
             /\ q.ppid = 2 => \A l \in Lines : l.gen # q.gen

(***************************************************************************)
(* pstree: the processes of /proc, in the order of their pids, are linked  *)
(* into a tree by their parents' pids; if there are arguments the ones     *)
(* that match are marked, with what leads to them and what is below them,  *)
(* and the rest is unlinked; then the tree is written out.  Indexes are    *)
(* from 1; 0 is no node.                                                   *)
(***************************************************************************)
CONSTANTS
  N,         \* processes
  ARGS       \* bound on arguments

VARIABLES
  tree_procs,     \* index -> parent's pid; the pid is the index
  tree_args,      \* what each argument matches
  opts,      \* whether there is -d
  tree       \* [pidx, ridx, didx, mark, stage, out]

tree_vars == <<tree_procs, tree_args, opts, tree>>

Idx == 1..N
Nodes == 0..N

\* build_ps_tree: children in the order of their pids
build_ps_tree ==
  /\ tree.stage = "read"
  /\ \E kids \in {[i \in Idx |-> SelectSeq([j \in Idx |-> j], LAMBDA j : tree_procs[j] = i)]} :
       tree' = [tree EXCEPT !.stage = "mark",
                  !.pidx = [j \in Idx |-> IF tree_procs[j] \in Idx THEN tree_procs[j] ELSE 0],
                  !.ridx = [i \in Idx |-> IF kids[i] = <<>> THEN 0 ELSE kids[i][1]],
                  !.didx = [j \in Idx |->
                    LET sibs == {k \in Idx : k > j /\ tree_procs[k] = tree_procs[j]}
                    IN  IF tree_procs[j] \notin Idx \/ sibs = {} THEN 0
                        ELSE CHOOSE k \in sibs : \A l \in sibs : k <= l]]
  /\ UNCHANGED <<tree_procs, tree_args, opts>>

\* below a node that is marked already nothing is looked at
RECURSIVE mark_descendants(_, _)
mark_descendants(t, ci) ==
  IF ci = 0 THEN t
  ELSE mark_descendants(
         IF t.mark[ci] # 0 THEN t ELSE mark_descendants([t EXCEPT !.mark[ci] = 1], t.ridx[ci]),
         t.didx[ci])

\* up to one that is marked
RECURSIVE mark_ancestors(_, _)
mark_ancestors(t, i) ==
  IF i = 0 \/ t.mark[i] # 0 THEN t ELSE mark_ancestors([t EXCEPT !.mark[i] = 1], t.pidx[i])

mark_matched(t, i) ==
  LET up == mark_ancestors([t EXCEPT !.mark[i] = 2], t.pidx[i])
  IN  IF opts.d THEN up ELSE mark_descendants(up, t.ridx[i])

find_mark_matching(t, S) ==
  LET go[i \in Nodes] == IF i = 0 THEN t ELSE IF i \in S THEN mark_matched(go[i - 1], i) ELSE go[i - 1]
  IN  go[N]

RECURSIVE trim_subtree(_, _)
RECURSIVE TrimFrom(_, _, _, _)

\* mutant of Link: the first that stays is not linked to the parent
link_kept(t, pi, last, i) ==
  IF last = 0 THEN t ELSE [t EXCEPT !.didx[last] = i]

\* a node that stays comes after the last that stayed, or first
Link(t, pi, last, i) ==
  IF last = 0 THEN [t EXCEPT !.ridx[pi] = i] ELSE [t EXCEPT !.didx[last] = i]

TrimFrom(t, pi, last, i) ==
  IF i = 0 THEN Link(t, pi, last, 0)
  ELSE IF t.mark[i] = 0 THEN TrimFrom(t, pi, last, t.didx[i])
  ELSE LET u == Link(t, pi, last, i)
           v == IF u.ridx[i] # 0 THEN trim_subtree(u, i) ELSE u
       IN  TrimFrom(v, pi, i, v.didx[i])

trim_subtree(t, pi) == TrimFrom(t, pi, 0, t.ridx[pi])

trim_unmarked_branches(t) ==
  LET go[i \in Nodes] ==
        IF i = 0 THEN t
        ELSE IF tree_procs[i] # 0 THEN go[i - 1]
        ELSE IF go[i - 1].mark[i] # 0 THEN trim_subtree(go[i - 1], i)
        ELSE [go[i - 1] EXCEPT !.gone = @ \cup {i}]
  IN  go[N]

only_leave_named ==
  /\ tree.stage = "mark"
  /\ \E t \in {LET go[k \in 0..Len(tree_args)] ==
                     IF k = 0 THEN tree ELSE find_mark_matching(go[k - 1], tree_args[k])
               IN  go[Len(tree_args)]} :
       tree' = [(IF tree_args = <<>> THEN t ELSE trim_unmarked_branches(t)) EXCEPT !.stage = "dump"]
  /\ UNCHANGED <<tree_procs, tree_args, opts>>

RECURSIVE dump_rec(_, _)
dump_rec(t, pi) == IF pi = 0 THEN <<>> ELSE <<pi>> \o dump_rec(t, t.ridx[pi]) \o dump_rec(t, t.didx[pi])

dump_top(t, pi) == IF pi \in t.gone THEN <<>> ELSE <<pi>> \o dump_rec(t, t.ridx[pi])

\* the first one, or with -k the others that have no parent
dump_proc_list ==
  /\ tree.stage = "dump"
  /\ tree' = [tree EXCEPT !.stage = "done", !.out =
       IF ~opts.k THEN dump_top(tree, 1)
       ELSE FlattenSeq([i \in 1..(N - 1) |-> IF tree_procs[i + 1] = 0 THEN dump_top(tree, i + 1) ELSE <<>>])]
  /\ UNCHANGED <<tree_procs, tree_args, opts>>

\* a parent has the smaller pid, or is not seen: it ended while the others were read
TreeInit ==
  /\ tree_procs \in {p \in [Idx -> 0..(N + 1)] : p[1] = 0 /\ \A i \in Idx : p[i] < i \/ p[i] = N + 1}
  /\ \E n \in 0..ARGS : tree_args \in [1..n -> {S \in SUBSET Idx : Cardinality(S) \in 1..2}]
  /\ opts \in [d : BOOLEAN, k : BOOLEAN]
  /\ tree = [pidx |-> <<>>, ridx |-> <<>>, didx |-> <<>>, stage |-> "read", out |-> <<>>, gone |-> {},
             mark |-> [i \in Idx |-> IF tree_args = <<>> THEN 2 ELSE 0]]

TreeNext == build_ps_tree \/ only_leave_named \/ dump_proc_list

TreeSpec == TreeInit /\ [][TreeNext]_tree_vars

RECURSIVE Above(_)
Above(i) == IF tree_procs[i] \in Idx THEN {tree_procs[i]} \cup Above(tree_procs[i]) ELSE {}

Root(i) == CHOOSE r \in {i} \cup Above(i) : tree_procs[r] \notin Idx
Tops == {i \in Idx : tree_procs[i] = 0 /\ (opts.k <=> i # 1)}
Shown == {i \in Idx : Root(i) \in Tops}
Matched == UNION {tree_args[k] : k \in DOMAIN tree_args}
\* asked for in an order in which no node comes after one above it
TopDown == \A k, l \in DOMAIN tree_args : \A i \in tree_args[k], j \in tree_args[l] : i \in Above(j) => k <= l

\* pstree: every process of the tree is written once, after its parent; with arguments,
\* the ones that match and all that lead to them are, with all below them unless -d
\* is given, if the arguments are in the order of the tree; and nothing else is.
TreeShown ==
  tree.stage = "done" =>
    LET want == {i \in Shown : tree_args = <<>> \/ \E m \in Matched : i = m \/ i \in Above(m)}
        below == {i \in Shown : ~opts.d /\ Above(i) \cap Matched # {}}
    IN  /\ IsInjective(tree.out)
        /\ \A a, b \in DOMAIN tree.out : tree.out[a] \in Above(tree.out[b]) => a < b
        /\ want \subseteq ToSet(tree.out) /\ ToSet(tree.out) \subseteq want \cup below
        /\ TopDown => ToSet(tree.out) = want \cup below

(***************************************************************************)
(* pskill.  With pids alone each is sent the signal.  With names /proc is  *)
(* read entry by entry; a process that matches an argument by pid, by name *)
(* or by its command is sent the signal, and the argument is used up.      *)
(* Processes end and others take their pids between any two of its calls.  *)
(***************************************************************************)
CONSTANTS
  KillPids,      \* a set of numbers
  Words,     \* names and arguments, sequences of letters
  CHANGES    \* bound on processes that end or start

VARIABLES
  kill_procs,     \* (external) pid -> [name, cmd, path, whole] or NoProc
  pk,        \* [args, left, at, step, seen: the process read, arg: the one it matches, sent, state]
  changes    \* pids of which the process is not the one there was at first

pk_vars == <<kill_procs, pk, changes>>

NoProc == [name |-> <<>>, cmd |-> <<>>, path |-> FALSE, whole |-> FALSE]
\* the command is a path or not; whole: it ends within the buffer it is read to
Proc ==
  {p \in [name : Words, cmd : Words, path : BOOLEAN, whole : BOOLEAN] :
     (p.path \/ ~p.whole) => p.name = p.cmd /\ (p.whole \/ ~p.path)}

\* an argument is a pid or a word
Args == [pid : {0}, word : Words] \cup [pid : KillPids, word : {<<>>}]
IsPid(a) == a.pid # 0
only_numeric_pids(a) == \A i \in DOMAIN a : IsPid(a[i])

First(S) == IF S = {} THEN 0 ELSE CHOOSE i \in S : \A j \in S : i <= j

find_by_pid(pid) == First({i \in pk.left : pk.args[i].pid = pid})
find_by_name(p) == First({i \in pk.left : pk.args[i].word = p.name})

\* mutant of find_by_cmd: arguments that are used up are compared too
find_by_cmd_used(p) ==
  IF ~p.whole THEN 1
  ELSE First({i \in DOMAIN pk.args : ~p.path /\ IsPrefix(p.cmd, pk.args[i].word)})

\* a command longer than the buffer is taken for the first argument's; the last slash is
\* kept in what is compared; only the command's length is compared
find_by_cmd(p) ==
  IF ~p.whole THEN 1
  ELSE First({i \in pk.left : ~p.path /\ IsPrefix(p.cmd, pk.args[i].word)})

Next1(k) == [k EXCEPT !.at = @ + 1, !.step = "pid", !.seen = NoProc, !.arg = 0]
Scans(step) == pk.state = "scan" /\ pk.step = step
Got(k, i) == [k EXCEPT !.left = @ \ {i}, !.step = "kill", !.arg = i]
Sent(pid, i, p) == Append(pk.sent, [arg |-> i, proc |-> p, pid |-> pid])

\* read_proc: by the pid alone, then what status says, then what cmdline says
by_pid ==
  /\ Scans("pid") /\ pk.at \in KillPids
  /\ \E p \in {kill_procs[pk.at]}, i \in {find_by_pid(pk.at)} :
       pk' = IF p = NoProc THEN Next1(pk)
             ELSE IF i # 0 THEN Got([pk EXCEPT !.seen = p], i)
             ELSE [pk EXCEPT !.seen = p, !.step = "name"]
  /\ UNCHANGED <<kill_procs, changes>>

\* the directory stays open: a process that has ended is not read as another one
Gone == kill_procs[pk.at] # pk.seen

by_name ==
  /\ Scans("name")
  /\ \E i \in {find_by_name(pk.seen)} :
       pk' = IF Gone THEN Next1(pk) ELSE IF i # 0 THEN Got(pk, i) ELSE [pk EXCEPT !.step = "cmd"]
  /\ UNCHANGED <<kill_procs, changes>>

by_cmd ==
  /\ Scans("cmd")
  /\ \E i \in {find_by_cmd(pk.seen)} : pk' = IF Gone \/ i = 0 THEN Next1(pk) ELSE Got(pk, i)
  /\ UNCHANGED <<kill_procs, changes>>

\* kill_proc: whoever has the pid now
kill_proc ==
  /\ Scans("kill")
  /\ pk' = Next1([pk EXCEPT !.sent = IF kill_procs[pk.at] = NoProc THEN @ ELSE Sent(pk.at, pk.arg, pk.seen)])
  /\ UNCHANGED <<kill_procs, changes>>

report_remaining ==
  /\ Scans("pid") /\ pk.at \notin KillPids
  /\ pk' = [pk EXCEPT !.state = IF pk.left = {} THEN "ok" ELSE "left"]
  /\ UNCHANGED <<kill_procs, changes>>

\* kill_numeric: the arguments in order
kill_numeric ==
  /\ Scans("number")
  /\ pk' = IF pk.at > Len(pk.args) THEN [pk EXCEPT !.state = "done"]
           ELSE LET pid == pk.args[pk.at].pid
                IN  [pk EXCEPT !.at = @ + 1, !.sent = IF kill_procs[pid] = NoProc THEN @
                                                      ELSE Sent(pid, pk.at, kill_procs[pid])]
  /\ UNCHANGED <<kill_procs, changes>>

\* a process ends, or one starts, also with the pid of one that has ended
Starting == {p \in Proc : p.whole /\ ~p.path /\ p.name = p.cmd}
Changed ==
  /\ pk.state = "scan" /\ Cardinality(changes) < CHANGES
  /\ \E pid \in KillPids \ changes : \E p \in (Starting \cup {NoProc}) \ {kill_procs[pid]} :
       kill_procs' = [kill_procs EXCEPT ![pid] = p] /\ changes' = changes \cup {pid}
  /\ UNCHANGED pk

KillInit ==
  /\ kill_procs \in [KillPids -> Proc \cup {NoProc}] /\ changes = {}
  /\ \E a \in UNION {[1..n -> Args] : n \in 1..2} :
       pk = [args |-> a, left |-> DOMAIN a, at |-> 1, step |-> IF only_numeric_pids(a) THEN "number" ELSE "pid",
             seen |-> NoProc, arg |-> 0, sent |-> <<>>, state |-> "scan"]

KillNext == by_pid \/ by_name \/ by_cmd \/ kill_proc \/ report_remaining \/ kill_numeric \/ Changed

KillSpec == KillInit /\ [][KillNext]_pk_vars

\* what find_by_cmd takes for a match beyond the commands that are named
Loose(a, p) == ~p.whole \/ (IsPrefix(p.cmd, a.word) /\ p.cmd # a.word)

\* pskill: the signal goes to the pid of a process that an argument names by pid, by name
\* or by command, and no argument is used for two; left out are the commands find_by_cmd
\* matches though nobody named them, one that is the beginning of an argument and one too
\* long for the buffer.  A process that is there all the time gets the signal if a pid
\* or an argument reported as not found names it.  That nobody else has taken the pid
\* when the signal is sent is not promised, and cannot be.
OnlyNamed ==
  /\ \A k \in DOMAIN pk.sent :
       LET s == pk.sent[k]
           a == pk.args[s.arg]
       IN  a.pid = s.pid \/ a.word \in {s.proc.name, s.proc.cmd} \/ Loose(a, s.proc)
  /\ \A k, l \in DOMAIN pk.sent : pk.sent[k].arg = pk.sent[l].arg /\ k # l => ~pk.sent[l].proc.whole \/ ~pk.sent[k].proc.whole
  /\ pk.state # "scan" =>
       \A pid \in KillPids \ changes :
         /\ kill_procs[pid] # NoProc
         /\ \E i \in pk.left : pk.args[i].pid = pid \/ pk.args[i].word = kill_procs[pid].name
         => \E k \in DOMAIN pk.sent : pk.sent[k].pid = pid
=============================================================================
