------------------------------- MODULE Ctool -------------------------------
(* ctool: toolchains and libraries for cross-compiling. *)
EXTENDS Naturals, Sequences, SequencesExt

(***************************************************************************)
(* How ctool finds the file of a library package and reads its index: an   *)
(* index is a list of entries, the files of a directory before its         *)
(* subdirectories, and a directory has its depth with it.                  *)
(***************************************************************************)
CONSTANTS
  EntryNames,       \* a set of numbers, in their order
  MAXDEPTH,
  ENTRIES,     \* bound on the entries
  Decoders     \* the ways a package may be compressed

VARIABLES
  raw,     \* the index in the file: [dir, lvl, name]
  ixt,     \* struct subcontext: [i, depth, path, last, prev, indirs, nodes, st]
  rep,     \* what is in the repository: "pac" or decoders
  decs,    \* the decoders in the order of the directory
  found    \* [pac, fail, k, st]: pac is the file taken, "" if none

ctpkg_vars == <<raw, ixt, rep, decs, found>>

NoName == 0

(***************************************************************************)
(* load_index                                                              *)
(***************************************************************************)
\* mutant of rewind_path
rewind_path_on(c, todepth) ==
  LET d == IF c.indirs THEN c ELSE [c EXCEPT !.last = NoName, !.indirs = TRUE]
  IN  IF todepth > d.depth THEN [d EXCEPT !.st = "invalid"]
      ELSE IF todepth = d.depth THEN d
      ELSE [d EXCEPT !.depth = todepth, !.path = SubSeq(@, 1, todepth)]

\* rewind_path: back to the directory that had this one, and the last name in it
rewind_path(c, todepth) ==
  LET d == IF c.indirs THEN c ELSE [c EXCEPT !.last = NoName, !.indirs = TRUE]
  IN  IF todepth > d.depth THEN [d EXCEPT !.st = "invalid"]
      ELSE IF todepth = d.depth THEN d
      ELSE [d EXCEPT !.depth = todepth, !.path = SubSeq(@, 1, todepth),
                     !.last = d.prev[todepth + 1]]

\* validate_name: names in a directory go up
validate_name(c, name) ==
  IF c.st # "ok" THEN c
  ELSE IF c.last # NoName /\ c.last >= name THEN [c EXCEPT !.st = "order"]
  ELSE [c EXCEPT !.last = name]

enter_dir(c, name) ==
  IF c.st # "ok" THEN c
  ELSE IF c.depth >= MAXDEPTH THEN [c EXCEPT !.st = "depth"]
  ELSE [c EXCEPT !.depth = @ + 1, !.path = Append(@, name), !.prev[c.depth + 1] = name,
                 !.last = NoName, !.indirs = FALSE]

\* new_node, with the path it is at
new_node(c, nd) == [c EXCEPT !.nodes = Append(@, [dir |-> nd.dir, at |-> c.path, name |-> nd.name])]

\* take_node
take_node ==
  /\ ixt.st = "ok" /\ ixt.i <= Len(raw)
  /\ LET nd == raw[ixt.i]
         next == [ixt EXCEPT !.i = @ + 1]
     IN  ixt' = IF nd.dir
                THEN LET r == rewind_path(next, nd.lvl)
                     IN  enter_dir(validate_name(new_node(r, nd), nd.name), nd.name)
                ELSE validate_name(new_node(next, nd), nd.name)
  /\ UNCHANGED <<raw, rep, decs, found>>

\* fini_treeidx
fini_treeidx ==
  /\ ixt.st = "ok" /\ ixt.i > Len(raw)
  /\ ixt' = [ixt EXCEPT !.st = IF ixt.nodes = <<>> THEN "empty" ELSE "loaded"]
  /\ UNCHANGED <<raw, rep, decs, found>>

(***************************************************************************)
(* locate_by_name                                                          *)
(***************************************************************************)
\* try_uncompressed
try_uncompressed ==
  /\ found.st = "try"
  /\ found' = IF "pac" \in rep THEN [found EXCEPT !.pac = "pac", !.st = "load"]
              ELSE [found EXCEPT !.st = "scan"]
  /\ UNCHANGED <<raw, ixt, rep, decs>>

\* check_decoder: any decoder after the one that matched is taken for a match
check_decoder(dec) ==
  LET f == IF found.pac # "" THEN [found EXCEPT !.fail = TRUE, !.pac = ""] ELSE found
  IN  IF f.fail \/ dec \notin rep THEN f ELSE [f EXCEPT !.pac = dec]

\* scan_dec_directory
scan_dec_directory ==
  /\ found.st = "scan" /\ found.k <= Len(decs)
  /\ found' = [check_decoder(decs[found.k]) EXCEPT !.k = @ + 1]
  /\ UNCHANGED <<raw, ixt, rep, decs>>

\* locate_by_name, locate_package
locate_package ==
  /\ found.st = "scan" /\ found.k > Len(decs)
  /\ found' = [found EXCEPT !.st = IF found.fail \/ found.pac = "" THEN "fail" ELSE "load"]
  /\ UNCHANGED <<raw, ixt, rep, decs>>

Entry == [dir : {TRUE}, lvl : 0..MAXDEPTH, name : EntryNames] \union [dir : {FALSE}, lvl : {0}, name : EntryNames]
NoScan == [pac |-> "", fail |-> FALSE, k |-> 1, st |-> "none"]
NoIndex == [i |-> 1, depth |-> 0, path |-> <<>>, last |-> NoName, prev |-> [d \in 1..MAXDEPTH |-> NoName],
            indirs |-> FALSE, nodes |-> <<>>, st |-> "none"]

PkgInit ==
  \/ /\ \E n \in 0..ENTRIES : raw \in [1..n -> Entry]
     /\ ixt = [NoIndex EXCEPT !.st = "ok"]
     /\ rep = {} /\ decs = <<>> /\ found = NoScan
  \/ /\ raw = <<>> /\ ixt = NoIndex
     /\ rep \in SUBSET (Decoders \union {"pac"})
     /\ \E D \in SUBSET Decoders : decs \in SetToSeqs(D)
     /\ found = [NoScan EXCEPT !.st = "try"]

PkgNext == take_node \/ fini_treeidx \/ try_uncompressed \/ scan_dec_directory \/ locate_package

PkgSpec == PkgInit /\ [][PkgNext]_ctpkg_vars

--------------------------------------------------------------------------
\* ctool: an index that is accepted names no file and no directory twice, and
\* every entry is in a directory that comes before it.  A package is taken from
\* a file that is there, and if it is compressed there is no other.
Distinct(kind) ==
  \A j, k \in DOMAIN ixt.nodes :
    /\ j < k /\ ixt.nodes[j].dir = kind /\ ixt.nodes[k].dir = kind
    => <<ixt.nodes[j].at, ixt.nodes[j].name>> # <<ixt.nodes[k].at, ixt.nodes[k].name>>
PkgSafe ==
  /\ ixt.st = "loaded" =>
       /\ Distinct(TRUE) /\ Distinct(FALSE)
       /\ \A k \in DOMAIN ixt.nodes :
            LET nd == ixt.nodes[k]
            IN  nd.at # <<>> => \E j \in 1..(k-1) : /\ ixt.nodes[j].dir
                                                    /\ Append(ixt.nodes[j].at, ixt.nodes[j].name) = nd.at
  /\ found.st = "load" => /\ found.pac \in rep
                          /\ found.pac # "pac" => rep \intersect (ToSet(decs) \union {"pac"}) = {found.pac}

(***************************************************************************)
(* ctool add and ctool del: the files of library packages in a toolchain   *)
(* directory, and the list of the files of each.  The packages share the   *)
(* directories at the top and may share others.                            *)
(***************************************************************************)
CONSTANTS
  Libs,        \* names of packages
  Indexes,     \* what their indexes may be: sequences of [dir, lvl, name, type]
  Dirs,        \* allowed_directory
  Names,
  OPS          \* bound on commands

VARIABLES
  fs,      \* path -> "none", "dir", "old", or the package that has the file
  lists,   \* pkg/x.list: [there, lines]
  ctx,     \* struct top of the command that runs
  before,  \* files that are not of packages
  ops

ctlib_vars == <<fs, lists, ctx, before, ops>>

Paths == {<<d>> : d \in Dirs} \union {<<d, n>> : d \in Dirs, n \in Names}
           \union {<<d, n, m>> : d \in Dirs, n \in Names, m \in Names}
Idle == [cmd |-> "none"]
Kind(p) == IF p \in Paths THEN fs[p] ELSE "none"
IsDir(p) == p = <<>> \/ Kind(p) = "dir"
Upto(path, n) == SubSeq(path, 1, IF n < Len(path) THEN n ELSE Len(path))

(***************************************************************************)
(* add                                                                     *)
(***************************************************************************)
\* check_node: the directory at the top is looked at when it is the first entry
check_node(c, nd) ==
  IF nd.dir
  THEN [c EXCEPT !.ok = @ /\ nd.lvl <= c.depth /\ (c.depth = 0 => nd.name \in Dirs), !.depth = nd.lvl + 1]
  ELSE [c EXCEPT !.ok = @ /\ c.depth > 0 /\ nd.type = "file"]
check_index(index) == FoldLeft(check_node, [depth |-> 0, ok |-> TRUE], index).ok

\* enter_dir and stat_leaf: what is in a directory that is not there is looked
\* up in the one above
conflict(c, nd) ==
  LET at == IF nd.dir THEN Upto(c.path, nd.lvl) ELSE c.path
      p == Append(at, nd.name)
  IN  IF nd.dir
      THEN [path |-> IF IsDir(p) THEN p ELSE at, exst |-> Append(c.exst, IsDir(p)),
            fail |-> c.fail \/ (Kind(p) # "none" /\ ~IsDir(p))]
      ELSE [c EXCEPT !.exst = Append(@, FALSE), !.fail = @ \/ Kind(p) # "none"]
check_conflict(index) == FoldLeft(conflict, [path |-> <<>>, exst |-> <<>>, fail |-> FALSE], index)

\* mutant of format_entry
format_entry_flat(c, nd) ==
  IF nd.dir THEN [c EXCEPT !.path = <<nd.name>>] ELSE [c EXCEPT !.lines = Append(@, Append(c.path, nd.name))]

\* append_file
format_entry(c, nd) ==
  IF nd.dir THEN [c EXCEPT !.path = Append(Upto(@, nd.lvl), nd.name)]
  ELSE [c EXCEPT !.lines = Append(@, Append(c.path, nd.name))]
format_entries(index) == FoldLeft(format_entry, [path |-> <<>>, lines |-> <<>>], index).lines

\* cmd_add, up to the first change
cmd_add(x) ==
  /\ ctx = Idle /\ ops < OPS /\ ops' = ops + 1
  /\ ~lists[x].there
  /\ \E index \in Indexes :
       LET c == check_conflict(index)
       IN  ctx' = IF check_index(index) /\ ~c.fail
                  THEN [cmd |-> "add", lib |-> x, pc |-> "create", index |-> index, exst |-> c.exst,
                        i |-> 1, path |-> <<>>]
                  ELSE Idle
  /\ UNCHANGED <<fs, lists, before>>

\* create_file_list
create_file_list ==
  /\ ctx.cmd = "add" /\ ctx.pc = "create"
  /\ lists' = [lists EXCEPT ![ctx.lib] = [there |-> TRUE, lines |-> <<>>]]
  /\ ctx' = [ctx EXCEPT !.pc = "write"]
  /\ UNCHANGED <<fs, before, ops>>

\* write_file_list: one write, which may be short
write_file_list ==
  /\ ctx.cmd = "add" /\ ctx.pc = "write"
  /\ LET all == format_entries(ctx.index)
     IN  \/ /\ lists' = [lists EXCEPT ![ctx.lib].lines = all]
            /\ ctx' = [ctx EXCEPT !.pc = "unpack"]
         \/ /\ \E n \in 0..(Len(all) - 1) : lists' = [lists EXCEPT ![ctx.lib].lines = SubSeq(all, 1, n)]
            /\ ctx' = Idle
  /\ UNCHANGED <<fs, before, ops>>

\* unpack_dir, unpack_file
unpack_content ==
  /\ ctx.cmd = "add" /\ ctx.pc = "unpack" /\ ctx.i <= Len(ctx.index)
  /\ LET nd == ctx.index[ctx.i]
         at == IF nd.dir THEN Upto(ctx.path, nd.lvl) ELSE ctx.path
         p == Append(at, nd.name)
         good == IF nd.dir /\ ctx.exst[ctx.i] THEN IsDir(p) ELSE p \in Paths /\ Kind(p) = "none"
     IN  /\ fs' = IF good THEN [fs EXCEPT ![p] = IF nd.dir THEN "dir" ELSE ctx.lib] ELSE fs
         /\ ctx' = IF good THEN [ctx EXCEPT !.i = @ + 1, !.path = IF nd.dir THEN p ELSE @] ELSE Idle
  /\ UNCHANGED <<lists, before, ops>>

added ==
  /\ ctx.cmd = "add" /\ ctx.pc = "unpack" /\ ctx.i > Len(ctx.index)
  /\ ctx' = [cmd |-> "added", lib |-> ctx.lib]
  /\ UNCHANGED <<fs, lists, before, ops>>

(***************************************************************************)
(* del; path is the way to the open directory, of which the first `open`   *)
(* are there                                                               *)
(***************************************************************************)
\* cmd_del, load_filedb
cmd_del(x) ==
  /\ ctx.cmd \in {"none", "added"} /\ ops < OPS /\ ops' = ops + 1
  /\ lists[x].there
  /\ ctx' = [cmd |-> "del", lib |-> x, i |-> 1, path |-> <<>>, open |-> 0]
  /\ UNCHANGED <<fs, lists, before>>

Within(f, p) == {q \in Paths : Len(q) > Len(p) /\ SubSeq(q, 1, Len(p)) = p /\ f[q] # "none"}

\* backtrack_path: empty directories go, those at the top stay
RECURSIVE backtrack_path(_, _, _, _)
backtrack_path(f, path, open, lvl) ==
  IF Len(path) <= lvl THEN [fs |-> f, path |-> path, open |-> open]
  ELSE LET up == Front(path)
           gone == Len(path) > 1 /\ Len(up) <= open /\ f[path] = "dir" /\ Within(f, path) = {}
       IN  backtrack_path(IF gone THEN [f EXCEPT ![path] = "none"] ELSE f, up,
                          IF open > Len(up) THEN Len(up) ELSE open, lvl)

\* skip_open_dirs
skip_open_dirs(path, dirs) == Len(LongestCommonPrefix({path, dirs}))

\* enter_new_dirs
RECURSIVE enter_new_dirs(_, _, _)
enter_new_dirs(f, dirs, n) ==
  IF n < Len(dirs) /\ SubSeq(dirs, 1, n + 1) \in Paths /\ f[SubSeq(dirs, 1, n + 1)] = "dir"
  THEN enter_new_dirs(f, dirs, n + 1) ELSE n

\* enter_skip_dir, unlink_tail: one line of unlink_files
unlink_line ==
  /\ ctx.cmd = "del" /\ ctx.i <= Len(lists[ctx.lib].lines)
  /\ LET line == lists[ctx.lib].lines[ctx.i]
         dirs == Front(line)
         b == backtrack_path(fs, ctx.path, ctx.open, skip_open_dirs(ctx.path, dirs))
         open == IF b.open < Len(b.path) THEN b.open ELSE enter_new_dirs(b.fs, dirs, b.open)
     IN  /\ fs' = IF open = Len(dirs) /\ b.fs[line] \notin {"none", "dir"}
                  THEN [b.fs EXCEPT ![line] = "none"] ELSE b.fs
         /\ ctx' = [ctx EXCEPT !.i = @ + 1, !.path = dirs, !.open = open]
  /\ UNCHANGED <<lists, before, ops>>

unlink_files ==
  /\ ctx.cmd = "del" /\ ctx.i = Len(lists[ctx.lib].lines) + 1
  /\ fs' = backtrack_path(fs, ctx.path, ctx.open, 0).fs
  /\ ctx' = [ctx EXCEPT !.i = @ + 1]
  /\ UNCHANGED <<lists, before, ops>>

unlink_filedb ==
  /\ ctx.cmd = "del" /\ ctx.i = Len(lists[ctx.lib].lines) + 2
  /\ lists' = [lists EXCEPT ![ctx.lib] = [there |-> FALSE, lines |-> <<>>]]
  /\ ctx' = Idle
  /\ UNCHANGED <<fs, before, ops>>

Crash ==
  /\ ctx.cmd \in {"add", "del"}
  /\ ctx' = Idle
  /\ UNCHANGED <<fs, lists, before, ops>>

LibInit ==
  /\ fs \in {f \in [Paths -> {"none", "dir", "old"}] :
               \A p \in Paths : /\ Len(p) = 3 => f[p] = "none"
                                /\ Len(p) = 1 => f[p] = "dir"}
  /\ lists = [x \in Libs |-> [there |-> FALSE, lines |-> <<>>]]
  /\ ctx = Idle /\ before = {p \in Paths : fs[p] = "old"} /\ ops = 0

LibNext ==
  \/ \E x \in Libs : cmd_add(x) \/ cmd_del(x)
  \/ create_file_list \/ write_file_list \/ unpack_content \/ added
  \/ unlink_line \/ unlink_files \/ unlink_filedb \/ Crash

LibSpec == LibInit /\ [][LibNext]_ctlib_vars

--------------------------------------------------------------------------
\* ctool add, ctool del: whenever a command ends or breaks off, the files of a
\* package are in its list, so that del finds them; files that are not of
\* packages stay; a package that was added is complete.
LibSafe ==
  /\ \A p \in Paths : fs[p] \in Libs => p \in ToSet(lists[fs[p]].lines)
  /\ \A p \in before : fs[p] = "old"
  /\ ctx.cmd = "added" => \A p \in ToSet(lists[ctx.lib].lines) : fs[p] = ctx.lib

(***************************************************************************)
(* ctool use, rebin, repo and reset: the links and scripts of a toolchain  *)
(* directory.  A description is run three times: to look for conflicts, to *)
(* list the files in .ctool, and to make them.  reset removes what .ctool  *)
(* lists.                                                                  *)
(***************************************************************************)
CONSTANTS
  Files,       \* names in bin/
  Descs,       \* descriptions: sequences of [key, dst, arg]
  BIN_OPS          \* bound on commands

VARIABLES
  bin_fs,      \* [bin: file -> what it is, dirs, rep]
  stamp,   \* .ctool: [there, lines]
  cct,     \* the command that runs: [cmd, pc, desc, i, prefix, config, interp, wr]
  ours,    \* files ctool has made and not removed
  bin_ops

ctbin_vars == <<bin_fs, stamp, cct, ours, bin_ops>>

None == [kind |-> "none", what |-> <<>>]
Own == [kind |-> "own", what |-> <<>>]
Lost == [kind |-> "lost", what |-> <<>>]     \* a link that leads nowhere
Makes(st) == st.key \in {"link", "script"}

(***************************************************************************)
(* run_statements in its modes                                             *)
(***************************************************************************)
\* run_prefix, run_config, run_interp
Noted(c, st) ==
  CASE st.key = "prefix" -> [c EXCEPT !.prefix = st.arg]
    [] st.key = "interp" -> [c EXCEPT !.interp = st.arg]
    [] OTHER -> c

Started(c, pc) == [c EXCEPT !.pc = pc, !.i = 1, !.wr = <<>>]
Step(c, st) == [Noted(c, st) EXCEPT !.i = @ + 1]

\* check_nexist (which follows links), check_isdir
Dry ==
  /\ cct.cmd \in {"use", "rebin"} /\ cct.pc = "dry" /\ cct.i <= Len(cct.desc)
  /\ LET st == cct.desc[cct.i]
         bad == \/ Makes(st) /\ bin_fs.bin[st.dst].kind \notin {"none", "lost"}
                \/ st.key = "repo" /\ st.arg # "dir"
     IN  cct' = IF bad THEN Idle ELSE Step(cct, st)
  /\ UNCHANGED <<bin_fs, stamp, ours, bin_ops>>

\* create_stamp_file, append_stamp_file, reopen_stamp_file
open_stamp_file ==
  /\ cct.cmd \in {"use", "rebin"} /\ cct.pc = "dry" /\ cct.i > Len(cct.desc)
  /\ stamp' = IF cct.cmd = "use" /\ cct.stamped THEN stamp ELSE [there |-> TRUE, lines |-> <<>>]
  /\ cct' = Started(cct, "list")
  /\ UNCHANGED <<bin_fs, ours, bin_ops>>

\* mutant of write_stamp_file
write_stamp_links ==
  /\ cct.cmd \in {"use", "rebin"} /\ cct.pc = "list"
  /\ LET names == SelectSeq(cct.desc, LAMBDA st : st.key = "link")
         wr == [k \in DOMAIN names |-> names[k].dst]
     IN  IF wr = <<>> THEN cct' = Idle /\ UNCHANGED stamp
         ELSE /\ stamp' = [stamp EXCEPT !.lines = @ \o wr]
              /\ cct' = Started(cct, IF cct.cmd = "use" /\ ~cct.stamped THEN "dirs" ELSE "real")
  /\ UNCHANGED <<bin_fs, ours, bin_ops>>

\* add_path for every statement, write_stamp_file: a list of nothing is an error
write_stamp_file ==
  /\ cct.cmd \in {"use", "rebin"} /\ cct.pc = "list"
  /\ LET names == SelectSeq(cct.desc, Makes)
         wr == [k \in DOMAIN names |-> names[k].dst]
     IN  IF wr = <<>> THEN cct' = Idle /\ UNCHANGED stamp
         ELSE /\ stamp' = [stamp EXCEPT !.lines = @ \o wr]
              /\ cct' = Started(cct, IF cct.cmd = "use" /\ ~cct.stamped THEN "dirs" ELSE "real")
  /\ UNCHANGED <<bin_fs, ours, bin_ops>>

make_top_dirs ==
  /\ cct.cmd = "use" /\ cct.pc = "dirs"
  /\ bin_fs' = [bin_fs EXCEPT !.dirs = TRUE]
  /\ cct' = Started(cct, "real")
  /\ UNCHANGED <<stamp, ours, bin_ops>>

\* make_link_target
Target(st) == <<cct.prefix, st.arg>>

\* do_link: link_tool, which does not replace
do_link ==
  /\ cct.cmd \in {"use", "rebin"} /\ cct.pc = "real" /\ cct.i <= Len(cct.desc)
  /\ cct.desc[cct.i].key = "link"
  /\ LET st == cct.desc[cct.i]
         good == bin_fs.dirs /\ bin_fs.bin[st.dst] = None
     IN  /\ bin_fs' = IF good THEN [bin_fs EXCEPT !.bin[st.dst] = [kind |-> "link", what |-> Target(st)]] ELSE bin_fs
         /\ ours' = IF good THEN ours \union {st.dst} ELSE ours
         /\ cct' = IF good THEN Step(cct, st) ELSE Idle
  /\ UNCHANGED <<stamp, bin_ops>>

\* substitute_vars: the template with the tool and the interpreter in it
Text(st) == <<st.arg, Target(st), cct.interp>>

\* do_script: copy_with_subst, which writes into what is there, or where it leads
do_script ==
  /\ cct.cmd \in {"use", "rebin"} /\ cct.pc = "real" /\ cct.i <= Len(cct.desc)
  /\ cct.desc[cct.i].key = "script"
  /\ LET st == cct.desc[cct.i]
         new == bin_fs.bin[st.dst].kind \in {"none", "script"}
     IN  /\ bin_fs' = IF bin_fs.dirs /\ new
                  THEN [bin_fs EXCEPT !.bin[st.dst] = [kind |-> "script", what |-> Text(st)]] ELSE bin_fs
         /\ ours' = IF bin_fs.dirs /\ new THEN ours \union {st.dst} ELSE ours
         /\ cct' = IF bin_fs.dirs THEN Step(cct, st) ELSE Idle
  /\ UNCHANGED <<stamp, bin_ops>>

\* link_repo
do_repo ==
  /\ cct.cmd \in {"use", "rebin"} /\ cct.pc = "real" /\ cct.i <= Len(cct.desc)
  /\ cct.desc[cct.i].key = "repo"
  /\ bin_fs' = [bin_fs EXCEPT !.rep = TRUE]
  /\ cct' = Step(cct, cct.desc[cct.i])
  /\ UNCHANGED <<stamp, ours, bin_ops>>

run_prefix ==
  /\ cct.cmd \in {"use", "rebin"} /\ cct.pc = "real" /\ cct.i <= Len(cct.desc)
  /\ cct.desc[cct.i].key \in {"prefix", "interp"}
  /\ cct' = Step(cct, cct.desc[cct.i])
  /\ UNCHANGED <<bin_fs, stamp, ours, bin_ops>>

done ==
  /\ cct.cmd \in {"use", "rebin"} /\ cct.pc = "real" /\ cct.i > Len(cct.desc)
  /\ cct' = [Idle EXCEPT !.cmd = "done"] @@ [desc |-> cct.desc]
  /\ UNCHANGED <<bin_fs, stamp, ours, bin_ops>>

(***************************************************************************)
(* The commands                                                            *)
(***************************************************************************)
Ready == cct.cmd \in {"none", "done"} /\ bin_ops < BIN_OPS /\ bin_ops' = bin_ops + 1
Run(cmd, desc, pc) ==
  [cmd |-> cmd, pc |-> pc, desc |-> desc, i |-> 1, prefix |-> "", interp |-> "", wr |-> <<>>,
   stamped |-> stamp.there]

\* cmd_use: check_stamp, common_bin_init
cmd_use ==
  /\ Ready
  /\ \E d \in Descs : cct' = Run("use", d, "dry")
  /\ UNCHANGED <<bin_fs, stamp, ours>>

\* cmd_rebin: the files are removed before the description is read
cmd_rebin ==
  /\ Ready /\ stamp.there
  /\ \E d \in Descs \union {<<>>} : cct' = Run("rebin", d, "unlink")
  /\ UNCHANGED <<bin_fs, stamp, ours>>

\* cmd_repo
cmd_repo ==
  /\ Ready /\ stamp.there
  /\ bin_fs' = [bin_fs EXCEPT !.rep = TRUE] /\ cct' = Idle
  /\ UNCHANGED <<stamp, ours>>

\* cmd_reset: check_workdir, remove_all_packages
cmd_reset ==
  /\ Ready /\ stamp.there
  /\ cct' = IF bin_fs.dirs THEN Run("reset", <<>>, "unlink") ELSE Idle
  /\ UNCHANGED <<bin_fs, stamp, ours>>

\* remove_bindir_files, file by file
remove_bindir_files ==
  /\ cct.cmd \in {"rebin", "reset"} /\ cct.pc = "unlink"
  /\ IF cct.i <= Len(stamp.lines)
     THEN /\ bin_fs' = [bin_fs EXCEPT !.bin[stamp.lines[cct.i]] = None]
          /\ ours' = ours \ {stamp.lines[cct.i]}
          /\ cct' = [cct EXCEPT !.i = @ + 1]
     ELSE /\ cct' = IF cct.cmd = "reset" THEN Started(cct, "rmdir")
                    ELSE IF cct.desc = <<>> THEN Idle ELSE Started(cct, "dry")
          /\ UNCHANGED <<bin_fs, ours>>
  /\ UNCHANGED <<stamp, bin_ops>>

\* remove_subdir, remove_repo_link
remove_subdir ==
  /\ cct.cmd = "reset" /\ cct.pc = "rmdir"
  /\ bin_fs' = [bin_fs EXCEPT !.rep = FALSE, !.dirs = \E f \in Files : bin_fs.bin[f] # None]
  /\ cct' = [cct EXCEPT !.pc = "stamp"]
  /\ UNCHANGED <<stamp, ours, bin_ops>>

\* unlink_filedb
bin_unlink_filedb ==
  /\ cct.cmd = "reset" /\ cct.pc = "stamp"
  /\ stamp' = [there |-> FALSE, lines |-> <<>>]
  /\ cct' = Idle
  /\ UNCHANGED <<bin_fs, ours, bin_ops>>

BinCrash ==
  /\ cct.cmd \in {"use", "rebin", "reset"}
  /\ cct' = Idle
  /\ UNCHANGED <<bin_fs, stamp, ours, bin_ops>>

BinInit ==
  /\ bin_fs \in [bin : {b \in [Files -> {None, Own, Lost}] : TRUE}, dirs : BOOLEAN, rep : {FALSE}]
  /\ ~bin_fs.dirs => \A f \in Files : bin_fs.bin[f] = None
  /\ stamp = [there |-> FALSE, lines |-> <<>>]
  /\ cct = Idle /\ ours = {} /\ bin_ops = 0

BinNext ==
  \/ Dry \/ open_stamp_file \/ write_stamp_file \/ make_top_dirs \/ do_link \/ do_script \/ do_repo
  \/ run_prefix \/ done \/ cmd_use \/ cmd_rebin \/ cmd_repo \/ cmd_reset
  \/ remove_bindir_files \/ remove_subdir \/ bin_unlink_filedb \/ BinCrash

BinSpec == BinInit /\ [][BinNext]_ctbin_vars

--------------------------------------------------------------------------
\* ctool: at every point the files ctool has made are in .ctool, also when a
\* command fails or breaks off, so that reset leaves none of them; a file of
\* the user's is never listed, and so never removed; and after a use or rebin that ends well every name of the
\* description is there.
BinSafe ==
  /\ ours \subseteq ToSet(stamp.lines)
  /\ \A f \in Files : bin_fs.bin[f].kind \in {"link", "script"} => f \in ours
  /\ \A f \in ToSet(stamp.lines) : bin_fs.bin[f].kind # "own"
  /\ cct.cmd = "done" => \A k \in DOMAIN cct.desc : Makes(cct.desc[k]) => bin_fs.bin[cct.desc[k].dst].kind # "none"
=============================================================================
