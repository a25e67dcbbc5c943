-------------------------------- MODULE Mpkg --------------------------------
(* mpkg: packages in a tree, and the rules that say what is deployed. *)
EXTENDS Naturals, Sequences, SequencesExt, FiniteSets

(***************************************************************************)
(* mpkg deploy and mpkg remove on a file system.  deploy checks the index  *)
(* of the package against what is there, saves the list of files, and only *)
(* then unpacks; remove unlinks what the list names, the directories that  *)
(* are left empty, and the list.  Either may end anywhere: on an error, or *)
(* with the machine.                                                       *)
(***************************************************************************)
CONSTANTS
  Names,       \* a set of file names
  Packages,    \* indexes: sequences of [dir, lvl, name], in the order of mpac
  OPS          \* bound on commands

VARIABLES
  fs,          \* (external) path -> "none", "dir", "old" or "new"; paths are sequences of names
  list,        \* the .list file: "none", or the lines in it
  ctx,         \* the command that runs
  before,      \* the file system before the package was deployed
  into,        \* whether the configuration names a prefix other than "/"
  ops

mpkg_vars == <<fs, list, ctx, before, into, ops>>

Paths == UNION {[1..n -> Names] : n \in 1..3}
NoFile == [there |-> FALSE, lines |-> <<>>]
Idle == [cmd |-> "none"]

Is(p, kind) == p \in Paths /\ fs[p] = kind
IsDir(p) == p = <<>> \/ Is(p, "dir")
Exists(p) == p = <<>> \/ (p \in Paths /\ fs[p] # "none")

Upto(path, n) == SubSeq(path, 1, IF n < Len(path) THEN n ELSE Len(path))

(***************************************************************************)
(* deploy                                                                  *)
(***************************************************************************)
\* mutant of check_node: only directories are looked up
check_node_dirs(nd, c) ==
  LET at == Upto(c.path, nd.lvl)
      p == Append(at, nd.name)
  IN  IF nd.dir
      THEN [path |-> IF IsDir(p) THEN p ELSE at, exst |-> Append(c.exst, IsDir(p)),
            fail |-> c.fail \/ (Exists(p) /\ ~IsDir(p))]
      ELSE [c EXCEPT !.exst = Append(@, FALSE)]

\* check_dir, check_leaf and rewind_path: a directory that is not there is not entered, so
\* what is in it is looked up where the last one entered is
check_node(nd, c) ==
  LET at == IF nd.dir THEN Upto(c.path, nd.lvl) ELSE c.path
      p == Append(at, nd.name)
  IN  IF nd.dir
      THEN [path |-> IF IsDir(p) THEN p ELSE at,
            exst |-> Append(c.exst, IsDir(p)),
            fail |-> c.fail \/ (Exists(p) /\ ~IsDir(p))]
      ELSE [c EXCEPT !.exst = Append(@, FALSE), !.fail = @ \/ Exists(p)]

check_conflict(pkg) == FoldLeft(LAMBDA c, nd : check_node(nd, c), [path |-> <<>>, exst |-> <<>>, fail |-> FALSE], pkg)

\* write_entries: the paths of the files, by the levels of the directories
Entries(pkg) ==
  FoldLeft(LAMBDA c, nd : IF nd.dir THEN [c EXCEPT !.path = Append(Upto(@, nd.lvl), nd.name)]
                          ELSE [c EXCEPT !.lines = Append(@, Append(c.path, nd.name))],
           [path |-> <<>>, lines |-> <<>>], pkg).lines

\* write_line: without a prefix, setup_prefix has made it "/", and a second slash is written
write_line(p) == IF into THEN p ELSE <<"", "">> \o p

\* check_filedb, check_index, check_conflict: nothing is changed yet
cmd_deploy ==
  /\ ctx = Idle /\ ~list.there /\ ops < OPS /\ ops' = ops + 1
  /\ \E pkg \in Packages :
       LET c == check_conflict(pkg) IN
         ctx' = IF c.fail THEN Idle
                ELSE [cmd |-> "deploy", pc |-> "open", pkg |-> pkg, exst |-> c.exst, i |-> 1, path |-> <<>>]
  /\ before' = fs
  /\ UNCHANGED <<fs, list, into>>

open_pkg_file ==
  /\ ctx.cmd = "deploy" /\ ctx.pc = "open"
  /\ list' = [there |-> TRUE, lines |-> <<>>]
  /\ ctx' = [ctx EXCEPT !.pc = "flush"]
  /\ UNCHANGED <<fs, before, into, ops>>

\* the list is in the buffer until then
flush_output ==
  /\ ctx.cmd = "deploy" /\ ctx.pc = "flush"
  /\ list' = [list EXCEPT !.lines = [i \in DOMAIN Entries(ctx.pkg) |-> write_line(Entries(ctx.pkg)[i])]]
  /\ ctx' = [ctx EXCEPT !.pc = "unpack"]
  /\ UNCHANGED <<fs, before, into, ops>>

\* unpack_dir, unpack_file, unpack_link; check_index leaves no node to be skipped
unpack_node ==
  /\ ctx.cmd = "deploy" /\ ctx.pc = "unpack" /\ ctx.i <= Len(ctx.pkg)
  /\ LET nd == ctx.pkg[ctx.i]
         at == IF nd.dir THEN Upto(ctx.path, nd.lvl) ELSE ctx.path
         p == Append(at, nd.name)
         made == [fs EXCEPT ![p] = IF nd.dir THEN "dir" ELSE "new"]
     IN  IF nd.dir
         THEN IF (IF ctx.exst[ctx.i] THEN IsDir(p) ELSE ~Exists(p))
              THEN fs' = made /\ ctx' = [ctx EXCEPT !.i = @ + 1, !.path = p]
              ELSE fs' = fs /\ ctx' = Idle
         ELSE IF ~Exists(p) THEN fs' = made /\ ctx' = [ctx EXCEPT !.i = @ + 1] ELSE fs' = fs /\ ctx' = Idle
  /\ UNCHANGED <<list, before, into, ops>>

deploy_done ==
  /\ ctx.cmd = "deploy" /\ ctx.pc = "unpack" /\ ctx.i > Len(ctx.pkg)
  /\ ctx' = [Idle EXCEPT !.cmd = "done"]
  /\ UNCHANGED <<fs, list, before, into, ops>>

(***************************************************************************)
(* remove; path: the directories on the way, of which the first `open` are *)
(* open and the others are not there                                       *)
(***************************************************************************)
cmd_remove ==
  /\ ctx.cmd \in {"none", "done"} /\ list.there /\ ops < OPS /\ ops' = ops + 1
  /\ ctx' = [cmd |-> "remove", i |-> 1, path |-> <<>>, open |-> 0]
  /\ UNCHANGED <<fs, list, before, into>>

rmdir_ok(f, p) ==
  p \in Paths /\ f[p] = "dir" /\ \A q \in Paths : Len(q) = Len(p) + 1 /\ Front(q) = p => f[q] = "none"

\* backtrack_path: the directories left on the way up are removed if they are empty
RECURSIVE backtrack_path(_, _, _, _)
backtrack_path(f, path, open, lvl) ==
  IF Len(path) <= lvl THEN [fs |-> f, path |-> path, open |-> open]
  ELSE LET up == Front(path)
       IN  backtrack_path(IF Len(up) <= open /\ rmdir_ok(f, path) THEN [f EXCEPT ![path] = "none"] ELSE f,
                          up, IF open > Len(up) THEN Len(up) ELSE open, lvl)

\* skip_open_dirs: the directories the next file shares with the one before
Shared(path, dirs) == Len(LongestCommonPrefix({path, dirs}))

\* enter_new_dirs: the open ones, as far as there are any
Opened(f, dirs) ==
  CHOOSE n \in 0..Len(dirs) :
    /\ \A k \in 1..n : SubSeq(dirs, 1, k) \in Paths /\ f[SubSeq(dirs, 1, k)] = "dir"
    /\ n < Len(dirs) => ~(SubSeq(dirs, 1, n + 1) \in Paths /\ f[SubSeq(dirs, 1, n + 1)] = "dir")

\* enter_skip_dir and unlink_tail for one line
unlink_line ==
  /\ ctx.cmd = "remove" /\ ctx.i <= Len(list.lines)
  /\ LET line == list.lines[ctx.i]
         dirs == Front(line)
         b == backtrack_path(fs, ctx.path, ctx.open, Shared(ctx.path, dirs))
         open == IF b.open < Len(b.path) THEN b.open ELSE Opened(b.fs, dirs)
     IN  /\ fs' = IF open = Len(dirs) /\ line \in Paths /\ b.fs[line] \in {"old", "new"}
                  THEN [b.fs EXCEPT ![line] = "none"] ELSE b.fs
         /\ ctx' = [ctx EXCEPT !.i = @ + 1, !.path = dirs, !.open = open]
  /\ UNCHANGED <<list, before, into, ops>>

unlink_rest ==
  /\ ctx.cmd = "remove" /\ ctx.i = Len(list.lines) + 1
  /\ fs' = backtrack_path(fs, ctx.path, ctx.open, 0).fs
  /\ ctx' = [ctx EXCEPT !.i = @ + 1, !.path = <<>>, !.open = 0]
  /\ UNCHANGED <<list, before, into, ops>>

unlink_filedb ==
  /\ ctx.cmd = "remove" /\ ctx.i > Len(list.lines) + 1
  /\ list' = NoFile /\ ctx' = Idle
  /\ UNCHANGED <<fs, before, into, ops>>

\* an error, or the end of it all
Crash ==
  /\ ctx.cmd \in {"deploy", "remove"}
  /\ ctx' = Idle
  /\ UNCHANGED <<fs, list, before, into, ops>>

\* what may be there: files and directories with files in them
PkgInit ==
  /\ \E f \in [{p \in Paths : Len(p) < 3} -> {"none", "dir", "old"}] :
       /\ \A p \in DOMAIN f : Len(p) = 2 /\ f[p] # "none" => f[Front(p)] = "dir"
       /\ fs = [p \in Paths |-> IF p \in DOMAIN f THEN f[p] ELSE "none"]
  /\ into \in BOOLEAN
  /\ list = NoFile /\ ctx = Idle /\ before = fs /\ ops = 0

PkgNext ==
  \/ cmd_deploy \/ open_pkg_file \/ flush_output \/ unpack_node \/ deploy_done
  \/ cmd_remove \/ unlink_line \/ unlink_rest \/ unlink_filedb \/ Crash

PkgSpec == PkgInit /\ [][PkgNext]_mpkg_vars

\* mpkg: at every point, also after a failure or a crash, the files that were unpacked are
\* in the list, so that a remove will find them; once it is removed nothing is left of
\* the package but directories without files (with a prefix other than "/").
Undoable ==
  into => \A p \in Paths : fs[p] = "new" => list.there /\ p \in ToSet(list.lines)

\* mpkg: files that were there before are never overwritten and never removed.
OthersKept == \A p \in Paths : before[p] = "old" => fs[p] = "old"

\* mpkg: a deploy that ends well leaves every file of the package in place.
Installed == ctx.cmd = "done" /\ into => \A i \in DOMAIN list.lines : Is(list.lines[i], "new")

MPkgSafe == Undoable /\ OthersKept /\ Installed

(***************************************************************************)
(* What mpkg deploy takes from /etc/packages, and how it checks the index  *)
(* of a package against it: the lines of the group asked for are taken,    *)
(* each path marks the nodes under it, and what is left without a mark     *)
(* makes the package unfit.                                                *)
(***************************************************************************)
CONSTANTS
  Lines,       \* the lines a configuration may have: [key, arg, slash]
  NLINES,      \* bound on lines
  RulePackages     \* indexes: sequences of [dir, lvl, name]

VARIABLES
  group,       \* the group asked for, "" if none
  conf,        \* the lines
  cf,          \* what they gave: [line, state, from, rules, policy]
  index,       \* the package
  mk,          \* [rest, mark, deny, depth, stack]
  result       \* "" while it goes on, "ok", "syntax", "denied", "failed" or "crash"

rules_vars == <<group, conf, cf, index, mk, result>>

(***************************************************************************)
(* mpkg_config.c                                                           *)
(***************************************************************************)
\* mutant of key_group: the rules of other groups that follow are taken too
key_group_on(c, g) ==
  IF group = "" THEN [c EXCEPT !.state = "post"]
  ELSE IF g # group THEN c
  ELSE IF c.state = "out" THEN [c EXCEPT !.state = "in"] ELSE [c EXCEPT !.fail = TRUE]

key_group(c, g) ==
  IF group = "" THEN [c EXCEPT !.state = "post"]
  ELSE IF g # group THEN [c EXCEPT !.state = IF @ = "out" THEN "out" ELSE "post"]
  ELSE IF c.state = "out" THEN [c EXCEPT !.state = "in"] ELSE [c EXCEPT !.fail = TRUE]

\* from, into and suffix: before the rules, and once
set_absrel(c, v) ==
  IF c.state \in {"out", "post"} THEN c
  ELSE IF c.state = "rule" \/ c.from # "" THEN [c EXCEPT !.fail = TRUE]
  ELSE [c EXCEPT !.from = v]

\* HLEN_DENY has the bit of HLEN_PASS: deny leads to the first branch too, and skip to the
\* second
update_policy(c, flag) ==
  IF flag \in {"pass", "deny"}
  THEN IF c.policy = "pass_rest" THEN [c EXCEPT !.fail = TRUE] ELSE [c EXCEPT !.policy = "deny_rest"]
  ELSE IF c.policy = "deny_rest" THEN [c EXCEPT !.fail = TRUE] ELSE [c EXCEPT !.policy = "pass_rest"]

common_path(c, l) ==
  IF c.state \in {"out", "post"} THEN c
  ELSE update_policy([c EXCEPT !.state = "rule", !.rules = Append(@, l)], l.key)

parse_line ==
  /\ result = "" /\ cf.line <= Len(conf)
  /\ \E l \in {conf[cf.line]} : \E c \in {IF l.key = "group" THEN key_group(cf, l.arg[1])
                                       ELSE IF l.key = "from" THEN set_absrel(cf, l.arg[1])
                                       ELSE common_path(cf, l)} :
       /\ cf' = [c EXCEPT !.line = @ + 1]
       /\ result' = IF c.fail THEN "syntax" ELSE ""
  /\ UNCHANGED <<group, conf, index, mk>>

\* parse_config ends
parse_config ==
  /\ result = "" /\ cf.line > Len(conf) /\ cf.state # "done"
  /\ result' = IF group # "" /\ cf.state = "out" THEN "syntax" ELSE ""
  /\ cf' = [cf EXCEPT !.state = "done"]
  /\ mk' = [mk EXCEPT !.rest = cf.rules]
  /\ UNCHANGED <<group, conf, index>>

(***************************************************************************)
(* mpkg_policy.c; 0 is no node                                             *)
(***************************************************************************)
\* the nodes from k on, until a directory above depth
Below(k, depth) ==
  {i \in k..Len(index) : \A j \in k..i : index[j].dir => index[j].lvl >= depth}

\* the files in a directory passed over count as being on its own level
LevelAt(k, i, depth) ==
  LET dirs == {j \in k..i : index[j].dir}
  IN  IF dirs = {} THEN depth ELSE index[CHOOSE j \in dirs : \A l \in dirs : l <= j].lvl

locate_node(k, depth, name) ==
  LET S == {i \in Below(k, depth) : index[i].name = name /\ LevelAt(k, i, depth) <= depth}
  IN  IF S = {} THEN 0 ELSE CHOOSE i \in S : \A j \in S : i <= j

\* the directories of a path one by one: where the search goes on (0 if it ends there), and
\* the ones gone through; through a file it goes on nowhere
RECURSIVE locate_dirs(_, _, _)
locate_dirs(k, stack, path) ==
  IF path = <<>> THEN [at |-> k, stack |-> stack, crash |-> FALSE]
  ELSE LET i == locate_node(k, Len(stack), Head(path)) IN
       IF i = 0 THEN [at |-> 0, stack |-> stack, crash |-> FALSE]
       ELSE IF ~index[i].dir THEN [at |-> 0, stack |-> stack, crash |-> TRUE]
       ELSE IF i = Len(index) THEN [at |-> 0, stack |-> stack, crash |-> FALSE]
       ELSE locate_dirs(i + 1, Append(stack, i), Tail(path))

\* the tag of a file, taken for a level, is above all levels there are
mark_leaf(i) == {i} \cup IF index[i].dir THEN Below(i + 1, index[i].lvl + 1) ELSE {j \in i..Len(index) : \A k \in i..j : ~index[k].dir}

mark_back(stack) == ToSet(stack)

\* what a rule marks; depth: what is left of it when the path was not found
mark_path(r) ==
  LET d == locate_dirs(1, <<>>, IF r.slash THEN r.arg ELSE Front(r.arg))
      k == Len(d.stack)
      leaf == locate_node(d.at, k, Last(r.arg))
  IN  IF d.at = 0 THEN [marks |-> {}, depth |-> k, crash |-> d.crash]
      ELSE IF r.slash THEN [marks |-> Below(d.at, k) \cup mark_back(d.stack), depth |-> 0, crash |-> FALSE]
      ELSE IF leaf = 0 THEN [marks |-> {}, depth |-> 0, crash |-> FALSE]
      ELSE [marks |-> mark_leaf(leaf) \cup mark_back(d.stack), depth |-> 0, crash |-> FALSE]

\* the length of a rule is a short: the sign of skip and deny takes the loop past the end
apply_rule ==
  /\ result = "" /\ cf.state = "done" /\ mk.rest # <<>>
  /\ \E r \in {Head(mk.rest)} : \E m \in {mark_path(r)} :
       /\ result' = IF r.key = "skip" \/ mk.depth # 0 THEN "failed" ELSE IF m.crash THEN "crash" ELSE ""
       /\ mk' = [mk EXCEPT !.rest = IF r.key = "pass" THEN Tail(@) ELSE <<>>,
                           !.mark = @ \cup m.marks,
                           !.deny = IF r.key = "deny" THEN @ \cup m.marks ELSE @,
                           !.depth = m.depth]
  /\ UNCHANGED <<group, conf, cf, index>>

check_nodes ==
  /\ result = "" /\ cf.state = "done" /\ mk.rest = <<>>
  /\ result' = IF mk.deny # {} \/ (cf.policy = "deny_rest" /\ mk.mark # DOMAIN index) THEN "denied" ELSE "ok"
  /\ UNCHANGED <<group, conf, cf, index, mk>>

RulesInit ==
  /\ group \in {"", "g"} /\ index \in RulePackages
  /\ \E n \in 0..NLINES : conf \in [1..n -> Lines]
  /\ cf = [line |-> 1, state |-> IF group = "" THEN "in" ELSE "out", from |-> "", rules |-> <<>>, policy |-> "pass_all", fail |-> FALSE]
  /\ mk = [rest |-> <<>>, mark |-> {}, deny |-> {}, depth |-> 0]
  /\ result = ""

RulesNext == parse_line \/ parse_config \/ apply_rule \/ check_nodes

RulesSpec == RulesInit /\ [][RulesNext]_rules_vars

(***************************************************************************)
(* the path of a node, and what the rules say of it                        *)
(***************************************************************************)
PathOf(i) ==
  LET go[k \in 0..i] == IF k = 0 THEN <<>>
                        ELSE IF index[k].dir THEN Append(SubSeq(go[k - 1], 1, index[k].lvl), index[k].name)
                        ELSE go[k - 1]
  IN  IF index[i].dir THEN go[i] ELSE Append(go[i], index[i].name)

\* a node is passed with all below the path of a rule, and as a part of the path
Passed(i, r) == IsPrefix(r.arg, PathOf(i)) \/ (IsPrefix(PathOf(i), r.arg) /\ \E j \in DOMAIN index : IsPrefix(r.arg, PathOf(j)) /\ PathOf(j) # PathOf(i))

OnlyPass == \A k \in DOMAIN cf.rules : cf.rules[k].key = "pass"
\* the rules name directories
OfDirs == \A k \in DOMAIN cf.rules : \A i \in DOMAIN index : ~index[i].dir => index[i].name \notin ToSet(cf.rules[k].arg)

\* mpkg deploy: with rules that name directories, a package is only deployed if they pass
\* all of it, whatever the groups and the order of the lines; and if they do, it is
\* denied never.
Complies ==
  result \in {"ok", "denied"} /\ cf.rules # <<>> /\ OnlyPass /\ OfDirs =>
    (result = "ok" <=> \A i \in DOMAIN index : \E k \in DOMAIN cf.rules : Passed(i, cf.rules[k]))

\* mpkg deploy: a file that is denied is never deployed.
DeniedStays ==
  result = "ok" => \A k \in DOMAIN cf.rules : cf.rules[k].key # "deny"

\* mpkg deploy: the rules are all the ones in the section of the group asked for, and no
\* others; those before the first group are the ones of no group.
OfGroup ==
  cf.state = "done" /\ result # "syntax" =>
    LET heads == {i \in DOMAIN conf : conf[i].key = "group"}
        start == IF group = "" THEN 0 ELSE CHOOSE i \in heads : conf[i].arg[1] = group
        ends == {i \in heads : i > start}
        in(i) == i > start /\ \A j \in ends : i < j
    IN  cf.rules = FoldLeft(LAMBDA acc, i : IF in(i) /\ conf[i].key \notin {"group", "from"} THEN Append(acc, conf[i]) ELSE acc,
                            <<>>, [i \in DOMAIN conf |-> i])

RulesSafe == Complies /\ DeniedStays /\ OfGroup
=============================================================================
