------------------------------- MODULE Shell -------------------------------
(* The shell: its lines, its process and directory commands, and list. *)
EXTENDS Sequences, Integers, FiniteSets, SequencesExt

(***************************************************************************)
(* The rescue shell reads its input in pieces of any size, splits lines    *)
(* into arguments, quoted or not, into a buffer and a table of fixed size, *)
(* and runs the command at the end of the line.                            *)
(***************************************************************************)
CONSTANTS
  Values,      \* arguments: sequences of characters
  MAXPTR,      \* size of argbuf
  MAXCNT,      \* length of sh.args
  LINES        \* bound on the lines of the input

VARIABLES
  meant,   \* the lines written: [args, bad]
  text,    \* the characters not read yet
  sh,      \* struct shell: [state, argbuf (up to argptr), argsep, args]
  ran      \* the arguments of the commands run

parse_vars == <<meant, text, sh, ran>>

(***************************************************************************)
(* The user: arguments with spaces, and empty ones, are quoted.  A line    *)
(* may be wrong: a quote left open, or something right after a quote.      *)
(***************************************************************************)
Blank(c) == c \in {"sp", "tab"}
Quoted(v) == v = <<>> \/ \E i \in DOMAIN v : Blank(v[i])
Written(v) == IF Quoted(v) THEN <<"dq">> \o v \o <<"dq">> ELSE v
RECURSIVE Joined(_)
Joined(args) == IF args = <<>> THEN <<>> ELSE Written(Head(args)) \o <<"sp">> \o Joined(Tail(args))
Line(m) == Joined(m.args) \o
  (CASE m.bad = "open" -> <<"dq", "a", "nl">>
     [] m.bad = "garbage" -> <<"dq", "a", "dq", "a", "tab", "a", "nl">>
     [] OTHER -> <<"nl">>)

Type ==
  /\ text = <<>> /\ Len(meant) < LINES
  /\ \E n \in 0..(MAXCNT + 1) : \E a \in [1..n -> Values], b \in {"", "open", "garbage"} :
       /\ meant' = Append(meant, [args |-> a, bad |-> b])
       /\ text' = Line([args |-> a, bad |-> b])
  /\ UNCHANGED <<sh, ran>>

(***************************************************************************)
(* The parser                                                              *)
(***************************************************************************)
reset_args(s) == [s EXCEPT !.argbuf = <<>>, !.argsep = 0, !.args = <<>>]

\* mutant of syntax
syntax_skip(s, c) == [reset_args(s) EXCEPT !.state = "SEP"]

syntax(s, c) == [reset_args(s) EXCEPT !.state = IF c = "nl" THEN "SEP" ELSE "PASS"]

add_char(s, c, state) ==
  IF Len(s.argbuf) >= MAXPTR THEN syntax(s, c)
  ELSE [s EXCEPT !.argbuf = Append(@, c), !.state = state]

end_arg(s, c, state) ==
  LET b == Append(s.argbuf, "0")
  IN  IF Len(s.argbuf) >= MAXPTR THEN syntax(s, c)
      ELSE IF Len(s.args) >= MAXCNT THEN syntax([s EXCEPT !.argbuf = b], c)
      ELSE [s EXCEPT !.argbuf = b, !.args = Append(@, s.argsep), !.argsep = Len(b), !.state = state]

Is(s, state) == [s EXCEPT !.state = state]
disp_pass(s, c) == IF c = "nl" THEN Is(s, "SEP") ELSE Is(s, "PASS")
disp_qend(s, c) ==
  CASE Blank(c) -> end_arg(s, c, "SEP")
    [] c = "nl" -> end_arg(s, c, "EXEC")
    [] OTHER -> syntax(s, c)
disp_quot(s, c) ==
  CASE c = "dq" -> Is(s, "QEND")
    [] c = "nl" -> syntax(s, c)
    [] OTHER -> add_char(s, c, "QUOT")
disp_arg(s, c) ==
  CASE Blank(c) -> end_arg(s, c, "SEP")
    [] c = "nl" -> end_arg(s, c, "EXEC")
    [] OTHER -> add_char(s, c, "ARG")
disp_sep(s, c) ==
  CASE Blank(c) -> Is(s, "SEP")
    [] c = "nl" -> Is(s, "EXEC")
    [] c = "dq" -> Is(s, "QUOT")
    [] OTHER -> add_char(s, c, "ARG")
dispatch(s, c) ==
  CASE s.state = "SEP" -> disp_sep(s, c)
    [] s.state = "ARG" -> disp_arg(s, c)
    [] s.state = "QUOT" -> disp_quot(s, c)
    [] s.state = "QEND" -> disp_qend(s, c)
    [] s.state = "PASS" -> disp_pass(s, c)

\* sh.args points into argbuf, an argument ends at its zero
Zero(b, from) == CHOOSE i \in (from + 1)..Len(b) : b[i] = "0" /\ \A j \in (from + 1)..(i - 1) : b[j] # "0"
Arguments(s) == [i \in DOMAIN s.args |-> SubSeq(s.argbuf, s.args[i] + 1, Zero(s.argbuf, s.args[i]) - 1)]

\* complete: the command is run, and the arguments are gone
parse_input ==
  /\ text # <<>>
  /\ LET s == dispatch(sh, Head(text))
     IN  IF s.state = "EXEC"
         THEN ran' = Append(ran, Arguments(s)) /\ sh' = Is(reset_args(s), "SEP")
         ELSE sh' = s /\ UNCHANGED ran
  /\ text' = Tail(text)
  /\ UNCHANGED meant

LineInit ==
  /\ meant = <<>> /\ text = <<>> /\ ran = <<>>
  /\ sh = [state |-> "SEP", argbuf |-> <<>>, argsep |-> 0, args |-> <<>>]

LineNext == Type \/ parse_input

LineSpec == LineInit /\ [][LineNext]_parse_vars

(***************************************************************************)
(* Properties                                                              *)
(***************************************************************************)
RECURSIVE Size(_)
Size(args) == IF args = <<>> THEN 0 ELSE Len(Head(args)) + 1 + Size(Tail(args))
Good(m) == m.bad = "" /\ Len(m.args) <= MAXCNT /\ Size(m.args) <= MAXPTR

\* Every line that is well formed and fits is run with the arguments it says, and no
\* other is: a line that is wrong or too long is dropped whole, none of it is run as
\* a command of its own, and the line after it is not affected.
LinesRun ==
  /\ Len(sh.argbuf) <= MAXPTR /\ Len(sh.args) <= MAXCNT
  /\ text = <<>> => ran = LET g == SelectSeq(meant, Good) IN [i \in DOMAIN g |-> g[i].args]

(***************************************************************************)
(* ps (name) and kill (name) of the rescue shell: one pass over /proc, in  *)
(* which each process is opened, its status and its command line are read, *)
(* and it is listed or signalled, while processes start and end.           *)
(***************************************************************************)
CONSTANTS
  Pids,        \* directory entries of /proc, in order; 2 is kthreadd
  Cmds,        \* command lines, sequences of characters; <<>> is that of a kernel thread
  Patts,       \* names given to ps and kill
  EVENTS       \* bound on the processes that start or end meanwhile

VARIABLES
  procs,   \* pid -> [gen, cmd, ppid], gen 0: no such process
  ctx,     \* struct proccontext: [mode, patt, pid, ppid, cmd]
  at,      \* the entry of /proc being read: [next, fd (generation), st]
  done,    \* what was listed or signalled: sequence of [pid, gen]
  hist     \* [events, always (untouched since the start), reused (pids taken over while read)]

sps_vars == <<procs, ctx, at, done, hist>>

None == [gen |-> 0, cmd |-> <<>>, ppid |-> 0]
Live(p) == procs[p].gen # 0

(***************************************************************************)
(* external: processes end, and pids are used again                        *)
(***************************************************************************)
Event(p, new) ==
  /\ hist.events < EVENTS /\ at.st # "end" /\ p > 2
  /\ procs' = [procs EXCEPT ![p] = new]
  /\ hist' = [hist EXCEPT !.events = @ + 1, !.always = @ \ {p},
                          !.reused = IF at.fd # 0 /\ at.next = p THEN @ \cup {p} ELSE @]
  /\ UNCHANGED <<ctx, at, done>>

Exit(p) == Live(p) /\ Event(p, None)
Fork(p) == ~Live(p) /\ \E c \in Cmds \ {<<>>} : Event(p, [gen |-> 2 + hist.events, cmd |-> c, ppid |-> 1])

(***************************************************************************)
(* read_proc; files of an open /proc/pid of a process that is gone give    *)
(* an error, whoever has the pid now                                       *)
(***************************************************************************)
Following(p) == LET n == {q \in Pids : q > p} IN IF n = {} THEN 0 ELSE CHOOSE q \in n : \A r \in n : q <= r
Move == at' = [next |-> Following(at.next), fd |-> 0, st |-> IF Following(at.next) = 0 THEN "end" ELSE "open"]

reset_proc_data(c) == [c EXCEPT !.pid = -1, !.ppid = -1, !.cmd = <<>>]

open_proc ==
  /\ at.st = "open"
  /\ IF Live(at.next) THEN at' = [at EXCEPT !.fd = procs[at.next].gen, !.st = "status"] /\ ctx' = reset_proc_data(ctx)
     ELSE Move /\ UNCHANGED ctx
  /\ UNCHANGED <<procs, done, hist>>

There == procs[at.next].gen = at.fd

check_proc_info(c) == c.pid >= 0 /\ c.ppid >= 0 /\ c.pid # 2 /\ c.ppid # 2

read_proc_status ==
  /\ at.st = "status"
  /\ IF ~There THEN Move /\ UNCHANGED ctx
     ELSE LET c == [ctx EXCEPT !.pid = at.next, !.ppid = procs[at.next].ppid]
          IN  /\ ctx' = c
              /\ IF check_proc_info(c) THEN at' = [at EXCEPT !.st = "cmdline"] ELSE Move
  /\ UNCHANGED <<procs, done, hist>>

\* where sub is in str, anywhere in the command line and not only in the program's name
strnstr(str, sub) == {i \in 0..(Len(str) - Len(sub)) : SubSeq(str, i + 1, i + Len(sub)) = sub}

\* mutant of check_proc_cmdline
check_proc_any(c) == strnstr(c.cmd, c.patt) # {} \/ c.cmd = <<>>

\* without a name, every process is listed
check_proc_cmdline(c) == strnstr(c.cmd, c.patt) # {}

read_proc_cmdline ==
  /\ at.st = "cmdline"
  /\ IF ~There THEN Move /\ UNCHANGED ctx
     ELSE LET c == [ctx EXCEPT !.cmd = procs[at.next].cmd]
          IN  /\ ctx' = c
              /\ IF check_proc_cmdline(c) THEN at' = [at EXCEPT !.st = "process"] ELSE Move
  /\ UNCHANGED <<procs, done, hist>>

\* process_kill: by pid, whoever has it now; process_list: what has been read
process ==
  /\ at.st = "process"
  /\ done' = IF ctx.mode = "kill"
             THEN IF Live(ctx.pid) THEN Append(done, [pid |-> ctx.pid, gen |-> procs[ctx.pid].gen]) ELSE done
             ELSE Append(done, [pid |-> ctx.pid, gen |-> at.fd])
  /\ Move
  /\ UNCHANGED <<procs, ctx, hist>>

\* cmd_ps, cmd_kill and read_proc_list; kthreadd is there from the start
ProcInit ==
  /\ \E user \in [Pids \ {2} -> {None, [gen |-> 1, cmd |-> <<>>, ppid |-> 2]} \cup [gen : {1}, cmd : Cmds, ppid : {1}]] :
       procs = [p \in Pids |-> IF p = 2 THEN [gen |-> 1, cmd |-> <<>>, ppid |-> 0] ELSE user[p]]
  /\ \E m \in {"ps", "kill"}, n \in Patts :
       ctx = [mode |-> m, patt |-> n, pid |-> -1, ppid |-> -1, cmd |-> <<>>]
  /\ at = [next |-> CHOOSE p \in Pids : \A q \in Pids : p <= q, fd |-> 0, st |-> "open"]
  /\ done = <<>>
  /\ hist = [events |-> 0, always |-> {p \in Pids : Live(p)}, reused |-> {}]

ProcNext ==
  \/ \E p \in Pids : Exit(p) \/ Fork(p)
  \/ open_proc \/ read_proc_status \/ read_proc_cmdline \/ process

ProcSpec == ProcInit /\ [][ProcNext]_sps_vars

(***************************************************************************)
(* Properties                                                              *)
(***************************************************************************)
Matches(p) ==
  /\ procs[p].ppid # 2 /\ p # 2
  /\ \E s, t \in SeqOf(UNION {Range(c) : c \in Cmds}, 2) : procs[p].cmd = s \o ctx.patt \o t

\* kill (name) signals and ps (name) lists the same processes: exactly those that have
\* the name somewhere in the command line and are there all the time, each once and in
\* order, and no kernel thread.  kill signals a process without the name only when it
\* has taken over the pid of one that had it while that one was being looked at: nothing
\* in the code prevents this.
NamedOnly ==
  /\ \A i, j \in DOMAIN done : i < j => done[i].pid < done[j].pid
  /\ \A i \in DOMAIN done :
       (done[i].pid \in hist.always => Matches(done[i].pid)) /\ done[i].pid # 2
  /\ \A i \in DOMAIN done : (Live(done[i].pid) /\ procs[done[i].pid].gen = done[i].gen) =>
       Matches(done[i].pid) \/ (ctx.mode = "kill" /\ done[i].pid \in hist.reused)
  /\ at.st = "end" => \A p \in hist.always : Matches(p) => \E i \in DOMAIN done : done[i].pid = p

(***************************************************************************)
(* Directory listings of the rescue shell (ls, la, ld, lf, lx, lh, ...)    *)
(* and of the list tool.  Entries are filtered by what getdents says, put  *)
(* on the heap, examined with stat, taken off the heap again if they are   *)
(* not wanted, then indexed, sorted and shown with the counts.             *)
(***************************************************************************)
CONSTANTS
  Entries,     \* [name, dot, has (the pattern), type, exec, target, known (d_type is given)]
  MAXENTS      \* entries the shell shows

VARIABLES
  dir,     \* entries getdents has not returned yet
  dir_ctx,     \* struct listcontext, struct top: [tool, flags, total, matching, indexed]
  heap,    \* struct ent records on the heap, in order
  dir_hist,    \* all entries returned, as the heap records would have them
  shown    \* lines written, once complete

dl_vars == <<dir, dir_ctx, heap, dir_hist, shown>>

ShellFlags ==
  [cmd_ls |-> {"dotted-"}, cmd_la |-> {}, cmd_ld |-> {"dotted-", "dirs"}, cmd_lf |-> {"dotted-", "files"},
   cmd_lx |-> {"dotted-", "exec"}, cmd_lh |-> {"nondot-"}, cmd_lhd |-> {"nondot-", "dirs"},
   cmd_lhf |-> {"nondot-", "files"}]
ListFlags == SUBSET {"a", "d", "u"}

(***************************************************************************)
(* The entry as it is known from getdents, and after stat                  *)
(***************************************************************************)
Dirent(e) == [name |-> e.name, type |-> IF e.known THEN e.type ELSE "unknown", exec |-> FALSE]

\* the file may be gone by now
stat_entry(en, e, there) == IF there THEN [en EXCEPT !.exec = e.exec] ELSE en

stat_target(en, e, there) ==
  IF en.type # "lnk" \/ ~there \/ e.target = "none" THEN en
  ELSE [en EXCEPT !.type = IF e.target = "dir" THEN "lnk-dir" ELSE @,
                  !.exec = (@ \/ e.target \in {"dir", "exec"})]

Stated(e, there) == stat_target(stat_entry(Dirent(e), e, there), e, there)

(***************************************************************************)
(* shell: pre_match with the type of the dirent, post_match with stat      *)
(***************************************************************************)
pre_match(f, e) ==
  LET t == Dirent(e).type
  IN  /\ ~("dotted-" \in f /\ e.dot)
      /\ ~("nondot-" \in f /\ ~e.dot)
      /\ \/ t = "unknown"
         \/ /\ "dirs" \in f => t \in {"dir", "lnk"}
            /\ "exec" \in f => t \in {"reg", "lnk"}
            /\ "files" \in f => t \notin {"dir", "lnk"}
            /\ ~dir_ctx.patt \/ e.has

\* mutant of post_match
post_match_links(f, en) ==
  /\ "dirs" \in f => en.type = "dir"
  /\ "exec" \in f => en.type = "reg" /\ en.exec

post_match(f, en) ==
  /\ "dirs" \in f => en.type \in {"dir", "lnk-dir"}
  /\ "exec" \in f => en.type = "reg" /\ en.exec

\* add_dirent of the shell; heap_reset takes the entry just made off the heap
shell_add(c, h, e, en) ==
  IF ~pre_match(c.flags, e) \/ ~post_match(c.flags, en) THEN [ctx |-> c, heap |-> h]
  ELSE IF c.indexed >= MAXENTS THEN [ctx |-> [c EXCEPT !.matching = @ + 1], heap |-> h]
  ELSE [ctx |-> [c EXCEPT !.matching = @ + 1, !.indexed = @ + 1], heap |-> Append(h, en)]

(***************************************************************************)
(* list: match and the undone entry                                        *)
(***************************************************************************)
match(c, e) == (e.dot => "a" \in c.flags) /\ (c.patt => e.has)

isdirtype(t) == t \in {"dir", "lnk-dir"}

list_add(c, h, e, en) ==
  [ctx |-> c,
   heap |-> IF match(c, e) /\ ("d" \in c.flags => isdirtype(en.type)) THEN Append(h, en) ELSE h]

\* read_whole: one entry returned by getdents, in no order
read_whole ==
  /\ dir # {} /\ shown = <<>>
  /\ \E e \in dir, there \in BOOLEAN :
       LET c  == [dir_ctx EXCEPT !.total = @ + 1]
           en == Stated(e, there)
           r  == IF c.tool = "shell" THEN shell_add(c, heap, e, en) ELSE list_add(c, heap, e, en)
       IN  /\ dir_ctx' = r.ctx /\ heap' = r.heap /\ dir' = dir \ {e}
           /\ dir_hist' = dir_hist \cup {[e |-> e, en |-> en]}
  /\ UNCHANGED shown

(***************************************************************************)
(* index_entries, sort_indexed, dump_indexed                               *)
(***************************************************************************)

cmpidx(c, a, b) ==
  IF "u" \notin c.flags /\ isdirtype(a.type) # isdirtype(b.type) THEN isdirtype(a.type)
  ELSE a.name < b.name

sort_indexed(c, h) == SetToSortSeq({h[i] : i \in DOMAIN h}, LAMBDA a, b : cmpidx(c, a, b))

typechar(en) ==
  CASE isdirtype(en.type) -> "/"
    [] en.type = "lnk" -> "@"
    [] en.type = "reg" -> IF en.exec THEN "*" ELSE " "
    [] OTHER -> "?"

\* list: a slash after directories, a colour for what can be executed
dump_file_name(en) == IF isdirtype(en.type) THEN "/" ELSE IF en.exec THEN "*" ELSE " "

report_counts(c) ==
  [total |-> c.total,
   matching |-> c.matching,
   skipped |-> c.matching - c.indexed]

dump_indexed ==
  /\ dir = {} /\ shown = <<>>
  /\ LET s == sort_indexed(dir_ctx, heap)
     IN  shown' = IF dir_ctx.tool = "shell"
                  THEN <<[lines |-> [i \in DOMAIN s |-> <<s[i].name, typechar(s[i])>>], counts |-> report_counts(dir_ctx)]>>
                  ELSE <<[lines |-> [i \in DOMAIN s |-> <<s[i].name, dump_file_name(s[i])>>]]>>
  /\ UNCHANGED <<dir, dir_ctx, heap, dir_hist>>

\* list_common of the shell, main of list
DirInit ==
  /\ dir \in {d \in SUBSET Entries : \A x, y \in d : x.name = y.name => x = y}
  /\ dir_ctx \in {[tool |-> "shell", flags |-> ShellFlags[k], patt |-> p, total |-> 0, matching |-> 0, indexed |-> 0] :
                k \in DOMAIN ShellFlags, p \in BOOLEAN} \cup
             {[tool |-> "list", flags |-> f, patt |-> p, total |-> 0, matching |-> 0, indexed |-> 0] :
                f \in ListFlags, p \in BOOLEAN}
  /\ heap = <<>> /\ dir_hist = {} /\ shown = <<>>

DirNext == read_whole \/ dump_indexed

DirSpec == DirInit /\ [][DirNext]_dl_vars

(***************************************************************************)
(* Properties                                                              *)
(***************************************************************************)
\* what the flags ask for, of an entry as it was when it was looked at
IsDir(h) == h.en.type \in {"dir", "lnk-dir"}
Asked(h) ==
  LET f == dir_ctx.flags IN
  IF dir_ctx.tool = "list"
  THEN /\ h.e.dot => "a" \in f
       /\ dir_ctx.patt => h.e.has
       /\ "d" \in f => IsDir(h)
  ELSE /\ "dotted-" \in f => ~h.e.dot
       /\ "nondot-" \in f => h.e.dot
       /\ "dirs" \in f => IsDir(h)
       /\ "exec" \in f => h.en.type = "reg" /\ h.en.exec
       \* pre_match returns before it looks at the name or for files
       /\ h.e.known => /\ dir_ctx.patt => h.e.has
                       /\ "files" \in f => h.en.type = "reg"

\* A listing shows every entry that was asked for once, directories first and then by
\* name, the shell at most MAXENTS of them, and the counts of the shell tell exactly how
\* many entries there are, how many of them match and how many were left out, whatever
\* order the directory is read in and whatever disappears between getdents and stat.
\* Where the file system does not tell the type of an entry, the shell shows it whatever
\* its name is, and as a file, against the comment at the head of shell_list.c ("only
\* those with a particular substring in the name"); the claim has it as the code does.
Wanted == {h \in dir_hist : Asked(h)}
ListedRight == shown # <<>> =>
  LET l == shown[1].lines
      Of(i) == CHOOSE h \in Wanted : h.e.name = l[i][1]
  IN  /\ \A i \in DOMAIN l : \E h \in Wanted : h.e.name = l[i][1]
      /\ \A i, j \in DOMAIN l : i < j =>
           /\ l[i][1] # l[j][1]
           /\ "u" \notin dir_ctx.flags => (IsDir(Of(j)) => IsDir(Of(i)))
           /\ ("u" \in dir_ctx.flags \/ IsDir(Of(i)) = IsDir(Of(j))) => l[i][1] < l[j][1]
      /\ IF dir_ctx.tool = "list" THEN Len(l) = Cardinality(Wanted)
         ELSE /\ Len(l) = IF Cardinality(Wanted) > MAXENTS THEN MAXENTS ELSE Cardinality(Wanted)
              /\ shown[1].counts = [total |-> Cardinality(dir_hist), matching |-> Cardinality(Wanted),
                                     skipped |-> Cardinality(Wanted) - Len(l)]
=============================================================================
