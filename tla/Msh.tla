-------------------------------- MODULE Msh --------------------------------
(* msh: its lines, its environment, and the commands that wait. *)
EXTENDS Integers, Sequences, FiniteSets, SequencesExt

(***************************************************************************)
(* msh's parser: a table of sixteen states, one character at a time, that  *)
(* builds the arguments of a command on the heap (NUL-terminated, one      *)
(* after another), substitutes variables in place and executes the command *)
(* at the end of its line.  Each behaviour parses one script, written in   *)
(* Init from the commands it is meant to run (Meant) in every style of     *)
(* quoting; characters are names.                                          *)
(***************************************************************************)
CONSTANTS
  Values,     \* the arguments to write: sequences of characters
  Vars,       \* the variables set: sequences of letters -> values
  TopArgs,    \* the arguments msh was given, the script's name first
  Separators, \* how arguments are separated
  Ends        \* how lines end

VARIABLES
  meant,      \* the script: the commands, and how they are written
  text,       \* what is left of it
  state, heap, var,
  ran         \* the commands executed

parse_vars == <<meant, text, state, heap, var, ran>>

Letters == {"a", "b", "n", "t"}
Digits == {"0", "1", "2"}
Spaces == {"sp", "tab", "nl"}
NUL == "nul"

isalpha(c) == c \in Letters
isalnum(c) == c \in Letters \union Digits
isspace(c) == c \in Spaces

--------------------------------------------------------------------------
(* The parser's context p: state, heap (from asep to hptr), var (the index *)
(* of ctx->var), ran, failed                                               *)

To(p, s) == [p EXCEPT !.state = s]
Fatal(p) == [p EXCEPT !.failed = TRUE]

push_char(p, c) == [p EXCEPT !.heap = Append(@, c)]

\* push_esc
push_esc(p, c) ==
  push_char(p, CASE c = "t" -> "tab" [] c = "n" -> "nl" [] OTHER -> c)

push_end(p) == push_char(p, NUL)

\* push_var
push_var(p, c) == push_char([p EXCEPT !.var = Len(p.heap) + 1], c)

Ends0(h) == {i \in DOMAIN h : h[i] = NUL}

\* advance, count_args, index_args: what stands before each NUL
index_args(h) ==
  LET nuls == SetToSortSeq(Ends0(h), <)
  IN [i \in 1..Len(nuls) |->
        SubSeq(h, (IF i = 1 THEN 0 ELSE nuls[i - 1]) + 1, nuls[i] - 1)]

Builtins == {<<"a">>, <<"b">>}

\* execute, command, builtin
execute(p) ==
  LET argv == index_args(p.heap)
  IN IF argv = <<>> THEN p
     ELSE IF argv[1] \notin Builtins THEN Fatal(p)
     ELSE [p EXCEPT !.ran = Append(@, argv), !.heap = <<>>]

\* mutant of subst_var
subst_var_end(p) ==
  LET name == SubSeq(p.heap, p.var, Len(p.heap))
  IN IF name \notin DOMAIN Vars THEN Fatal(p)
     ELSE [p EXCEPT !.heap = @ \o <<NUL>> \o Vars[name]]

\* subst_var, valueof: the value takes the place of the name
subst_var(p) ==
  LET name == SubSeq(p.heap, p.var, Len(p.heap))
  IN IF name \notin DOMAIN Vars THEN Fatal(p)
     ELSE [p EXCEPT !.heap = SubSeq(@, 1, p.var - 1) \o Vars[name]]

\* subst_special: $$ is the pid, $0 the script
subst_special(p, c) ==
  LET idx == CASE c = "0" -> 1 [] c = "1" -> 2 [] c = "2" -> 3 [] OTHER -> 99
  IN IF c = "dollar" THEN push_char(p, "pid")
     ELSE IF idx > Len(TopArgs) THEN Fatal(p)
     ELSE [p EXCEPT !.heap = @ \o TopArgs[idx]]

parse_nil(p, c) ==
  CASE isspace(c) -> p
    [] c = "hash" -> To(p, "COMMT")
    [] c = "bs" -> To(p, "NIBSL")
    [] c \in {"dq", "sq", "dollar"} -> Fatal(p)
    [] OTHER -> To(push_char(p, c), "ARG")

parse_sep(p, c) ==
  CASE c = "nl" -> To(execute(p), "NIL")
    [] c = "hash" -> To(execute(p), "COMMT")
    [] c \in {"sp", "tab"} -> p
    [] c = "bs" -> To(p, "SEBSL")
    [] c = "dq" -> To(p, "DQUOT")
    [] c = "sq" -> To(p, "SQUOT")
    [] c = "dollar" -> To(p, "VSIGN")
    [] OTHER -> To(push_char(p, c), "ARG")

parse_arg(p, c) ==
  CASE c = "dollar" -> To(p, "VSIGN")
    [] c = "bs" -> To(p, "ARBSL")
    [] c = "hash" -> To(execute(push_end(p)), "COMMT")
    [] c = "nl" -> To(execute(push_end(p)), "NIL")
    [] c \in {"sp", "tab"} -> To(push_end(p), "SEP")
    [] c \in {"dq", "sq"} -> Fatal(p)
    [] OTHER -> To(push_char(p, c), "ARG")

\* parse_nibsl, parse_sebsl, parse_arbsl
parse_nibsl(p, c) == IF c = "nl" THEN To(p, "NIL") ELSE To(push_esc(p, c), "NIL")
parse_sebsl(p, c) == IF c = "nl" THEN To(p, "SEP") ELSE To(push_esc(p, c), "ARG")
parse_arbsl(p, c) == To(push_esc(p, c), "ARG")

\* parse_vsign and parse_dqvsg
VarSign(p, c, cont, back) ==
  IF isalpha(c) THEN To(push_var(p, c), cont)
  ELSE IF ~isspace(c) THEN To(subst_special(p, c), back)
  ELSE Fatal(p)

parse_vcont(p, c) ==
  IF isalnum(c) THEN push_char(p, c) ELSE parse_arg(subst_var(p), c)

\* parse_commt: to SEP, not to NIL
parse_commt(p, c) == IF c = "nl" THEN To(p, "SEP") ELSE p

parse_dquot(p, c) ==
  CASE c = "dq" -> To(push_end(p), "TRAIL")
    [] c = "dollar" -> To(p, "DQVSG")
    [] c = "bs" -> To(p, "DQBSL")
    [] OTHER -> To(push_char(p, c), "DQUOT")

parse_dqvcn(p, c) ==
  IF isalnum(c) THEN push_char(p, c) ELSE parse_dquot(subst_var(p), c)

\* parse_dqbsl and parse_sqbsl
QuoteBsl(p, c, back) == IF c = "nl" THEN To(p, back) ELSE To(push_esc(p, c), back)

parse_squot(p, c) ==
  CASE c = "bs" -> To(p, "SQBSL")
    [] c = "sq" -> To(push_end(p), "TRAIL")
    [] OTHER -> push_char(p, c)

parse_trail(p, c) ==
  CASE c = "nl" -> To(execute(p), "NIL")
    [] c = "hash" -> To(execute(p), "COMMT")
    [] isspace(c) -> To(p, "SEP")
    [] OTHER -> Fatal(p)

\* dispatch
dispatch(p, c) ==
  CASE p.state = "NIL" -> parse_nil(p, c)
    [] p.state = "SEP" -> parse_sep(p, c)
    [] p.state = "ARG" -> parse_arg(p, c)
    [] p.state = "NIBSL" -> parse_nibsl(p, c)
    [] p.state = "SEBSL" -> parse_sebsl(p, c)
    [] p.state = "ARBSL" -> parse_arbsl(p, c)
    [] p.state = "VSIGN" -> VarSign(p, c, "VCONT", "ARG")
    [] p.state = "VCONT" -> parse_vcont(p, c)
    [] p.state = "COMMT" -> parse_commt(p, c)
    [] p.state = "DQUOT" -> parse_dquot(p, c)
    [] p.state = "DQBSL" -> QuoteBsl(p, c, "DQUOT")
    [] p.state = "DQVSG" -> VarSign(p, c, "DQVCN", "DQUOT")
    [] p.state = "DQVCN" -> parse_dqvcn(p, c)
    [] p.state = "SQUOT" -> parse_squot(p, c)
    [] p.state = "SQBSL" -> QuoteBsl(p, c, "SQUOT")
    [] p.state = "TRAIL" -> parse_trail(p, c)

\* parse_finish
parse_finish(p) ==
  IF p.heap = <<>> \/ p.state = "NIL" THEN p
  ELSE CASE p.state \in {"SEP", "TRAIL"} -> execute(p)
         [] p.state = "ARG" -> execute(push_end(p))
         [] OTHER -> Fatal(p)

Ctx == [state |-> state, heap |-> heap, var |-> var, ran |-> ran,
        failed |-> FALSE]

Take(p, end) ==
  /\ state' = IF p.failed THEN "failed" ELSE IF end THEN "done" ELSE p.state
  /\ heap' = p.heap /\ var' = p.var /\ ran' = p.ran
  /\ UNCHANGED meant

\* parse: the next character of the script
parse ==
  /\ state \notin {"failed", "done"} /\ text # <<>>
  /\ Take(dispatch(Ctx, Head(text)), FALSE)
  /\ text' = Tail(text)

\* the end of parse_file and parse_str
Finish ==
  /\ state \notin {"failed", "done"} /\ text = <<>>
  /\ Take(parse_finish(Ctx), TRUE)
  /\ UNCHANGED text

--------------------------------------------------------------------------
(* How scripts are written                                                *)

Cat(ss) == FoldLeft(LAMBDA a, b : a \o b, <<>>, ss)
Escape(c) == CASE c = "nl" -> <<"bs", "n">> [] c = "tab" -> <<"bs", "t">>
               [] c \in {"sp", "hash", "bs", "dq", "sq", "dollar"} -> <<"bs", c>>
               [] OTHER -> <<c>>
InDq(c) == IF c \in {"bs", "dq", "dollar"} THEN <<"bs", c>> ELSE <<c>>
InSq(c) == IF c \in {"bs", "sq"} THEN <<"bs", c>> ELSE <<c>>
Map(Op(_), v) == Cat([i \in 1..Len(v) |-> Op(v[i])])

\* the ways to write the value v
Written(v) ==
  (IF v = <<>> THEN {} ELSE {Map(Escape, v)})
  \union {<<"dq">> \o Map(InDq, v) \o <<"dq">>, <<"sq">> \o Map(InSq, v) \o <<"sq">>}
  \union {<<"dollar">> \o n : n \in {x \in DOMAIN Vars : Vars[x] = v}}
  \union {<<"dq", "dollar">> \o n \o <<"dq">> : n \in {x \in DOMAIN Vars : Vars[x] = v}}
  \union {<<"dollar", d>> : d \in {x \in Digits :
            \E i \in DOMAIN TopArgs : TopArgs[i] = v /\ <<x, i>> \in
              {<<"0", 1>>, <<"1", 2>>, <<"2", 3>>}}}

Args == UNION {{[v |-> v, w |-> w] : w \in Written(v)} : v \in Values}

ParseInit ==
  /\ \E as \in {<<>>} \union {<<x>> : x \in Args} \union (Args \X Args),
        s \in Separators, e \in Ends, more \in BOOLEAN :
       /\ meant = [cmds |-> <<<<<<"a">>>> \o [i \in 1..Len(as) |-> as[i].v]>>
                            \o (IF more THEN <<<<<<"b">>>>>> ELSE <<>>),
                   bare |-> /\ as # <<>> /\ e = <<>>
                            /\ LET w == as[Len(as)].w IN
                                 Head(w) = "dollar" /\ w[2] \notin Digits]
       /\ more => e # <<>>
       /\ text = <<"a">> \o Cat([i \in 1..Len(as) |-> s \o as[i].w]) \o e
                         \o (IF more THEN <<"b", "nl">> ELSE <<>>)
  /\ state = "NIL" /\ heap = <<>> /\ var = 0 /\ ran = <<>>

ParseNext == parse \/ Finish

ParseSpec == ParseInit /\ [][ParseNext]_parse_vars

--------------------------------------------------------------------------
\* However its arguments are written, a script runs the commands it says
\* with each argument as one token, and nothing is left on the heap; a
\* variable's value, empty or with spaces, quotes and line ends in it, is
\* one token too.  Only a variable that ends the script without a newline is
\* taken for an unexpected end.
TokensRight ==
  /\ state = "done" => ran = meant.cmds /\ heap = <<>>
  /\ state = "failed" => meant.bare
  /\ IsPrefix(ran, meant.cmds)

(***************************************************************************)
(* msh's variables and environment.  Both are entries at the bottom of the *)
(* heap, copies or references into the environment msh was given, each     *)
(* with its size; a command's arguments lie right above them, and set,     *)
(* setenv and delenv write new entries over their own arguments after      *)
(* copying what they need of them higher up.  Sizes are in bytes: an entry *)
(* has a header of 4, is a multiple of 4, and a pointer takes 8.           *)
(***************************************************************************)
CONSTANTS
  Names,      \* the names the script uses
  EnvValues,     \* [len, v]: values that differ in length
  Environ,    \* the environment given: sequence of [name, val]
  OPS         \* bound on the commands of a script

VARIABLES
  envs,       \* the entries, from ctx->heap to ctx->asep
  customenvp, \* ctx->customenvp >= 0
  env_state,      \* "script" or "failed"
  area,       \* the last command's new asep, and the lowest copy it needed
  env, vars,  \* what the script has asked for: the environment, variables
  hidden,     \* some entry was passed over in a search
  ops

env_vars == <<envs, customenvp, env_state, area, env, vars, hidden, ops>>

NAMELEN == 1
CMDLEN == 6
align4(x) == ((x + 3) \div 4) * 4

\* append_variable: the header, the pair and its NUL
VarSize(val) == align4(4 + NAMELEN + 1 + val.len + 1)
Variable(name, val, type) ==
  [ref |-> FALSE, size |-> VarSize(val), name |-> name, val |-> val,
   type |-> type]

\* append_reference
Reference(idx, type) ==
  [ref |-> TRUE, size |-> 4, name |-> Environ[idx].name,
   val |-> Environ[idx].val, type |-> type]

RECURSIVE SizeFrom(_, _)
SizeFrom(es, i) == IF i > Len(es) THEN 0 ELSE es[i].size + SizeFrom(es, i + 1)

SizeOf(es) == SizeFrom(es, 1)

\* env_next: that the next entry lies within the entries is tested with the
\* size of the one before it; rest is what is left from that entry on
env_next(es, i, rest) == rest - es[i].size >= es[i].size

RECURSIVE LastSeen(_, _, _)
LastSeen(es, i, rest) ==
  IF i < Len(es) /\ env_next(es, i, rest)
  THEN LastSeen(es, i + 1, rest - es[i].size) ELSE i

\* env_first, env_next: the entries a search sees
Seen(es) == IF es = <<>> THEN {} ELSE 1..LastSeen(es, 1, SizeOf(es))
Hides(es) == Seen(es) # 1..Len(es)

\* env_value, named
Has(es, i, name, type) == es[i].type = type /\ es[i].name = name

\* check_not_defined
Defined(name) == \E i \in Seen(envs) : Has(envs, i, name, "svar")

\* mutant of clear_definition
clear_first(es, name) ==
  LET is == {i \in Seen(es) : Has(es, i, name, "envp")}
  IN [i \in 1..Len(es) |-> IF i \in is /\ (\A j \in is : j >= i) /\ es[i].ref
                            THEN [es[i] EXCEPT !.type = "none"] ELSE es[i]]

\* clear_definition
clear_definition(es, name) ==
  LET seen == Seen(es) IN
  [i \in 1..Len(es) |-> IF i \in seen /\ Has(es, i, name, "envp")
                         THEN [es[i] EXCEPT !.type = "none"] ELSE es[i]]

\* clear_all_entries
clear_all(es) ==
  LET seen == Seen(es) IN
  [i \in 1..Len(es) |-> IF i \in seen /\ es[i].type = "envp"
                         THEN [es[i] EXCEPT !.type = "none"] ELSE es[i]]

\* start_custom_envp
start_custom_envp(es) ==
  IF customenvp THEN es
  ELSE es \o [i \in 1..Len(Environ) |-> Reference(i, "envp")]

\* reserve_orig_envp
reserve_orig_envp == IF customenvp THEN 0 ELSE (Len(Environ) + 1) * 4

\* hptr once execute has the arguments and argv on the heap
ArgsEnd(lens) ==
  SizeOf(envs) + FoldLeft(LAMBDA n, l : n + l + 1, 0, lens) + 8 * (Len(lens) + 1)

Step == env_state = "script" /\ ops < OPS /\ ops' = ops + 1

\* the entries become es; low is the lowest address still to be read
Entries(es, low) ==
  /\ envs' = es
  /\ area' = [asep |-> SizeOf(es), low |-> low]
  /\ hidden' = (hidden \/ Hides(envs) \/ Hides(es))

EnvFatal ==
  /\ env_state' = "failed"
  /\ UNCHANGED <<envs, customenvp, area, env, vars, hidden>>

Put(f, n, v) == [x \in DOMAIN f \union {n} |-> IF x = n THEN v ELSE f[x]]
Without(f, n) == [x \in DOMAIN f \ {n} |-> f[x]]

cmd_set(n, v) ==
  /\ Step
  /\ IF Defined(n) THEN EnvFatal
     ELSE /\ Entries(Append(envs, Variable(n, v, "svar")),
                     ArgsEnd(<<CMDLEN, NAMELEN, v.len>>))
          /\ vars' = Put(vars, n, v)
          /\ UNCHANGED <<customenvp, env_state, env>>

\* key is below pair, and is needed until the definition is cleared
cmd_setenv(n, v) ==
  /\ Step
  /\ LET key == ArgsEnd(<<CMDLEN, NAMELEN, v.len>>) + reserve_orig_envp
         pair == key + align4(NAMELEN + 1)
         es == start_custom_envp(envs)
     IN Entries(Append(clear_definition(es, n), Variable(n, v, "envp")),
                IF SizeOf(es) > key THEN key ELSE pair)
  /\ env' = Put(env, n, v)
  /\ customenvp' = TRUE
  /\ UNCHANGED <<env_state, vars>>

\* from the environment given, whatever setenv and delenv did
cmd_getenv(n) ==
  /\ Step
  /\ LET is == {i \in 1..Len(Environ) : Environ[i].name = n}
     IN IF Defined(n) \/ is = {} THEN EnvFatal
        ELSE LET i == CHOOSE i \in is : \A j \in is : i <= j
             IN /\ Entries(Append(envs, Reference(i, "svar")),
                           ArgsEnd(<<CMDLEN, NAMELEN>>))
                /\ vars' = Put(vars, n, Environ[i].val)
                /\ UNCHANGED <<customenvp, env_state, env>>

cmd_delenv(n) ==
  /\ Step
  /\ Entries(clear_definition(start_custom_envp(envs), n),
             ArgsEnd(<<CMDLEN, NAMELEN>>) + reserve_orig_envp)
  /\ env' = Without(env, n)
  /\ customenvp' = TRUE
  /\ UNCHANGED <<env_state, vars>>

cmd_clearenv ==
  /\ Step
  /\ Entries(IF customenvp THEN clear_all(envs) ELSE envs, ArgsEnd(<<CMDLEN>>))
  /\ env' = << >>
  /\ customenvp' = TRUE
  /\ UNCHANGED <<env_state, vars>>

\* prepenvp: what run, exec and invoke pass on
prepenvp ==
  IF ~customenvp THEN Environ
  ELSE LET seen == Seen(envs)
           is == SelectSeq([i \in 1..Len(envs) |-> i],
                   LAMBDA i : i \in seen /\ envs[i].type = "envp")
       IN [i \in 1..Len(is) |-> [name |-> envs[is[i]].name,
                                 val |-> envs[is[i]].val]]

\* valueof: the first entry seen with the name
valueof(n) ==
  LET is == {i \in Seen(envs) : Has(envs, i, n, "svar")}
  IN IF is = {} THEN {}
     ELSE {envs[CHOOSE i \in is : \A j \in is : i <= j].val}

FirstEnv ==
  [n \in {Environ[i].name : i \in 1..Len(Environ)} |->
     Environ[CHOOSE i \in 1..Len(Environ) : Environ[i].name = n].val]

EnvInit ==
  /\ envs = <<>> /\ customenvp = FALSE /\ env_state = "script"
  /\ area = [asep |-> 0, low |-> 0]
  /\ env = FirstEnv
  /\ vars = << >> /\ hidden = FALSE /\ ops = 0

EnvNext ==
  \/ \E n \in Names, v \in EnvValues : cmd_set(n, v) \/ cmd_setenv(n, v)
  \/ \E n \in Names : cmd_getenv(n) \/ cmd_delenv(n)
  \/ cmd_clearenv

EnvSpec == EnvInit /\ [][EnvNext]_env_vars

--------------------------------------------------------------------------
\* No command writes an entry over what it still has to read.  Until a search
\* passes an entry over, the programs run get exactly the environment the
\* script asked for, each name once, and a variable has the value given to
\* it.  This falls short of what the manual says of set and setenv: env_next
\* tests with the size of the entry before, so a short entry at the end is
\* not found behind a longer one, and what is set there is not seen.  It is
\* the only way: no entry is passed over where none is shorter than the one
\* before it.
EnvRight ==
  /\ area.asep <= area.low
  /\ ~hidden =>
       /\ LET envp == prepenvp IN
            /\ {<<p.name, p.val>> : p \in Range(envp)}
                 = {<<n, env[n]>> : n \in DOMAIN env}
            /\ Len(envp) = Cardinality(DOMAIN env)
       /\ \A n \in Names :
            valueof(n) = IF n \in DOMAIN vars THEN {vars[n]} ELSE {}
  /\ hidden => \E i \in 1..Len(envs)-1 : envs[i].size > envs[i + 1].size

(***************************************************************************)
(* msh's two commands that wait.  waitfor: for a file in a directory that  *)
(* may itself be missing, with inotify, a recursion for the directory, and *)
(* others creating and removing both meanwhile.  run: for a child, with a  *)
(* signalfd, signals for msh being passed on to the child.  Every system   *)
(* call is a step.                                                         *)
(***************************************************************************)
CONSTANTS CHANGES,  \* bound on what others do
          SIGNALS   \* bound on the signals for msh

VARIABLES
  cmd,     \* [name, pc, depth, dir, wd]: the command and where it is
  fs,      \* dir: 0, or the directory's instance; file: how it came there
  ino,     \* watch: the instance watched, -1 for ".", 0 for none; queue
  child,   \* [st, got]: the child's state, and the signals it was sent
  sig,     \* [blocked, pending]: of msh
  hist     \* [file, changes, sent, moved, signals]

wait_vars == <<cmd, fs, ino, child, sig, hist>>

--------------------------------------------------------------------------
(* waitfor "d/f"; depth 1 is the recursion for "d"                         *)

At(pc) == cmd.name = "waitfor" /\ cmd.pc = pc
Goto(pc) == cmd' = [cmd EXCEPT !.pc = pc]
Base == IF cmd.depth = 0 THEN "f" ELSE "d"
Instance == IF cmd.depth = 1 THEN -1 ELSE fs.dir
Exists == IF cmd.depth = 1 THEN fs.dir > 0 ELSE fs.file # "none"

\* waitfor: the first inotify_add_watch; ENOENT leads to the recursion
add_watch ==
  /\ At("watch")
  /\ IF Instance = 0
     THEN cmd' = [cmd EXCEPT !.depth = 1] /\ UNCHANGED ino
     ELSE Goto("stat") /\ ino' = [ino EXCEPT !.watch = Instance]
  /\ UNCHANGED <<fs, child, sig, hist>>

\* the second one; whether it works or not the file is looked for
add_watch_again ==
  /\ At("again")
  /\ ino' = [ino EXCEPT !.watch = Instance]
  /\ Goto("stat")
  /\ UNCHANGED <<fs, child, sig, hist>>

\* mutant of nonexistant
nonexistant_not ==
  /\ At("stat")
  /\ Goto("poll")
  /\ UNCHANGED <<fs, ino, child, sig, hist>>

\* nonexistant
nonexistant ==
  /\ At("stat")
  /\ Goto(IF Exists THEN "remove" ELSE "poll")
  /\ UNCHANGED <<fs, ino, child, sig, hist>>

\* watch_ino_for, match_event: what is in the queue is read at once, and
\* what follows a match is dropped
watch_ino_for ==
  /\ At("poll") /\ ino.queue # <<>>
  /\ Goto(IF Base \in Range(ino.queue) THEN "remove" ELSE "poll")
  /\ ino' = [ino EXCEPT !.queue = <<>>]
  /\ UNCHANGED <<fs, child, sig, hist>>

\* ppoll times out
TimedOut ==
  /\ At("poll") /\ ino.queue = <<>>
  /\ Goto("timeout")
  /\ UNCHANGED <<fs, ino, child, sig, hist>>

\* inotify_rm_watch, and back to the caller
rm_watch ==
  /\ At("remove")
  /\ ino' = [ino EXCEPT !.watch = 0]
  /\ cmd' = IF cmd.depth = 1 THEN [cmd EXCEPT !.depth = 0, !.pc = "again"]
            ELSE [cmd EXCEPT !.pc = "done"]
  /\ UNCHANGED <<fs, child, sig, hist>>

\* an event for the directory w, if it is the one watched
Event(w, name) ==
  ino' = IF ino.watch = w THEN [ino EXCEPT !.queue = Append(@, name)] ELSE ino

Others ==
  /\ cmd.name = "waitfor" /\ hist.changes < CHANGES
  /\ \/ /\ fs.dir = 0
        /\ fs' = [fs EXCEPT !.dir = fs.made + 1, !.made = @ + 1]
        /\ Event(-1, "d")
        /\ hist' = [hist EXCEPT !.changes = @ + 1]
     \/ /\ fs.dir > 0 /\ fs.file = "none"
        /\ fs' = [fs EXCEPT !.dir = 0]
        /\ ino' = IF ino.watch = fs.dir THEN [ino EXCEPT !.watch = 0] ELSE ino
        /\ hist' = [hist EXCEPT !.changes = @ + 1]
     \/ /\ fs.dir > 0 /\ fs.file = "none"
        /\ fs' = [fs EXCEPT !.file = "created"]
        /\ Event(fs.dir, "f")
        /\ hist' = [hist EXCEPT !.changes = @ + 1, !.file = TRUE]
     \/ /\ fs.dir > 0 /\ fs.file = "none"
        /\ fs' = [fs EXCEPT !.file = "moved"]   \* IN_MOVED_TO: not watched for
        /\ hist' = [hist EXCEPT !.changes = @ + 1, !.file = TRUE]
        /\ UNCHANGED ino
     \/ /\ fs.file # "none"
        /\ fs' = [fs EXCEPT !.file = "none"]
        /\ hist' = [hist EXCEPT !.changes = @ + 1]
        /\ UNCHANGED ino
  /\ UNCHANGED <<cmd, child, sig>>

--------------------------------------------------------------------------
(* run                                                                    *)

In(pc) == cmd.name = "run" /\ cmd.pc = pc

\* a signal reaches msh: it stays pending, or ends it
Signalled(s, signal) ==
  IF signal \in s.blocked THEN [s EXCEPT !.pending = @ \union {signal}]
  ELSE s

\* prep_signalfd
prep_signalfd ==
  /\ In("prep")
  /\ sig' = [sig EXCEPT !.blocked = {"TERM", "CHLD"}]
  /\ Goto("fork")
  /\ UNCHANGED <<fs, ino, child, hist>>

\* fork; the child restores its mask before exec
Fork ==
  /\ In("fork")
  /\ child' = [child EXCEPT !.st = "running"]
  /\ Goto("read")
  /\ UNCHANGED <<fs, ino, sig, hist>>

\* wait_child: the read from the signalfd, one signal
read_signal ==
  /\ In("read")
  /\ \E s \in sig.pending :
       /\ sig' = [sig EXCEPT !.pending = @ \ {s}]
       /\ IF s = "CHLD" THEN Goto("waitpid") /\ UNCHANGED child
          ELSE /\ Goto("read")
               /\ child' = [child EXCEPT !.got = @ + 1]
  /\ UNCHANGED <<fs, ino, hist>>

\* waitpid with WNOHANG
wait_child ==
  /\ In("waitpid")
  /\ Goto(IF child.st = "dead" THEN "close" ELSE "read")
  /\ child' = IF child.st = "dead" THEN [child EXCEPT !.st = "reaped"] ELSE child
  /\ UNCHANGED <<fs, ino, sig, hist>>

\* close_signalfd: a signal pending then is taken at once
close_signalfd ==
  /\ In("close")
  /\ sig' = [blocked |-> {}, pending |-> {}]
  /\ Goto(IF "TERM" \in sig.pending THEN "killed" ELSE "done")
  /\ UNCHANGED <<fs, ino, child, hist>>

\* the child stops or dies
Child ==
  /\ cmd.name = "run" /\ child.st \in {"running", "stopped"}
  /\ \E st \in {"stopped", "running", "dead"} \ {child.st} :
       /\ child' = [child EXCEPT !.st = st]
       /\ sig' = IF st = "running" THEN sig ELSE Signalled(sig, "CHLD")
  /\ UNCHANGED <<cmd, fs, ino, hist>>

\* someone signals msh
Signal ==
  /\ cmd.name = "run" /\ hist.signals < SIGNALS
  /\ cmd.pc \notin {"done", "killed"}
  /\ cmd' = IF "TERM" \in sig.blocked THEN cmd ELSE [cmd EXCEPT !.pc = "killed"]
  /\ sig' = Signalled(sig, "TERM")
  /\ hist' = [hist EXCEPT !.signals = @ + 1]
  /\ UNCHANGED <<fs, ino, child>>

--------------------------------------------------------------------------
WaitInit ==
  /\ cmd \in {[name |-> "waitfor", pc |-> "watch", depth |-> 0],
              [name |-> "run", pc |-> "prep", depth |-> 0]}
  /\ fs \in {[dir |-> 0, file |-> "none", made |-> 0],
             [dir |-> 1, file |-> "none", made |-> 1],
             [dir |-> 1, file |-> "created", made |-> 1]}
  /\ cmd.name = "run" => fs.dir = 0
  /\ ino = [watch |-> 0, queue |-> <<>>]
  /\ child = [st |-> "none", got |-> 0]
  /\ sig = [blocked |-> {}, pending |-> {}]
  /\ hist = [file |-> fs.file # "none", changes |-> 0, signals |-> 0]

WaitNext ==
  \/ add_watch \/ add_watch_again \/ nonexistant \/ watch_ino_for
  \/ TimedOut \/ rm_watch \/ Others
  \/ prep_signalfd \/ Fork \/ read_signal \/ wait_child \/ close_signalfd
  \/ Child \/ Signal

WaitSpec == WaitInit /\ [][WaitNext]_wait_vars

--------------------------------------------------------------------------
\* waitfor only returns once the file has been there, and never sleeps
\* beside a file created in the directory it watches.  A file that is moved
\* there is not noticed, though the manual says that waitfor waits until the
\* file appears: it watches for IN_CREATE only.  run only returns when
\* its child has been reaped, never sleeps beside a dead child, and every
\* signal that reached msh while the child ran was passed on, is pending, or
\* ends msh once the child is gone
WaitsRight ==
  /\ cmd.name = "waitfor" =>
       /\ cmd.pc = "done" => hist.file
       /\ cmd.pc = "poll" /\ cmd.depth = 0 /\ ino.queue = <<>>
            /\ ino.watch = fs.dir => fs.file # "created"
       /\ cmd.pc = "poll" /\ cmd.depth = 1 /\ ino.queue = <<>> => fs.dir = 0
  /\ cmd.name = "run" =>
       /\ cmd.pc = "done" => child.st = "reaped"
       /\ cmd.pc = "read" /\ sig.pending = {} => child.st # "dead"
       /\ child.st # "none" /\ cmd.pc \notin {"done", "killed"}
            /\ hist.signals > 0 => child.got > 0 \/ "TERM" \in sig.pending
=============================================================================
