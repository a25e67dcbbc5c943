------------------------------- MODULE MCTools -------------------------------
(***************************************************************************)
(* ifmon, and the tools that run once, for TLC.  They do not interact: a   *)
(* behaviour is one of the instance it chooses at first.  ifmon has its    *)
(* own variables; the others share v1 to v8, and one that has fewer leaves *)
(* the rest alone.                                                         *)
(***************************************************************************)
EXTENDS IfMon, TLC

\* runs of ifctl are interchangeable
ClientSymmetry == Permutations(Clients)

VARIABLES part, v1, v2, v3, v4, v5, v6, v7, v8

all == <<part, vars, v1, v2, v3, v4, v5, v6, v7, v8>>

\* directories and files of a package, and packages with up to two levels
InDir(l, n) == [dir |-> TRUE, lvl |-> l, name |-> n]
InFile(n) == [dir |-> FALSE, lvl |-> 0, name |-> n]
PkgIndexes(f, h) ==
  {<<InFile(f)>>, <<InDir(0, "a"), InFile(f), InFile(h)>>,
   <<InDir(0, "a"), InDir(1, "b"), InFile(f)>>,
   <<InFile(f), InDir(0, "b"), InFile(h), InDir(1, "a"), InFile(h)>>,
   <<InDir(0, "a"), InFile(f), InDir(0, "b"), InDir(1, "a"), InFile(h)>>}

\* lines that group, allow and deny
RuleLine(k, p, s) == [key |-> k, arg |-> p, slash |-> s]
RuleLines ==
  {RuleLine("group", <<"g">>, FALSE), RuleLine("group", <<"h">>, FALSE),
   RuleLine("from", <<"x">>, FALSE), RuleLine("pass", <<"a">>, FALSE),
   RuleLine("pass", <<"b">>, TRUE), RuleLine("pass", <<"b", "a">>, FALSE),
   RuleLine("pass", <<"a", "f">>, FALSE), RuleLine("deny", <<"a">>, FALSE),
   RuleLine("skip", <<"b">>, FALSE)}
RuleIndexes == (PkgIndexes("f", "f") \ {<<InDir(0, "a"), InFile("f"), InFile("f")>>})
                 \union {<<InDir(0, "a"), InFile("f"), InFile("h")>>}

\* commands on two packages;
\* three lines of configuration
Pkg == INSTANCE Mpkg WITH
  fs <- v1, list <- v2, ctx <- v3, before <- v4, into <- v5,
  ops <- v6, Names <- {"a", "b"}, Packages <- PkgIndexes("a", "b"), OPS <- 3,
  group <- v1, conf <- v2, cf <- v3, index <- v4, mk <- v5, result <- v6, NLINES <- 3,
  Lines <- RuleLines, RulePackages <- RuleIndexes

\* two names at two levels; a byte has two values;
\* lists of four lines
Pac == INSTANCE Mpac WITH
  src <- v1, pac <- v2, out <- v3, mp <- v4, seen <- v5,
  Names <- {1, 2}, BASE <- 2,
  Kinds <- {[type |-> "file", size |-> 1], [type |-> "file", size |-> 5], [type |-> "link", size |-> 1], [type |-> "link", size |-> 2]},
  lines <- v1, index <- v2, lp <- v3, Comps <- {<<1>>, <<1, 1>>}, MAXLEN <- 2,
  LINES <- 4

\* trees with one or two names at the top; sizes below, at and over a page
Ent(t, n) == [t |-> t, size |-> n]
CpioFirst ==
  {[x \in {} |-> 0]}
    \union {[x \in {<<1>>} |-> e] :
             e \in {Ent("file", 0), Ent("file", 3), Ent("file", 13), Ent("link", 2)}}
    \union UNION {{[x \in {<<1>>} \union D |-> IF x = <<1>> THEN Ent("dir", 0) ELSE f[x]] :
                    f \in [D -> {Ent("file", 5), Ent("dir", 0)}]} :
                  D \in SUBSET {<<1, 0, 1>>, <<1, 0, 2, 2>>}}
CpioSecond ==
  {[x \in {} |-> 0], [x \in {<<2, 2>>} |-> Ent("file", 6)], [x \in {<<2, 2>>} |-> Ent("dir", 0)],
   <<2, 2>> :> Ent("dir", 0) @@ <<2, 2, 0, 1>> :> Ent("link", 5),
   <<2, 2>> :> Ent("dir", 0) @@ <<3, 3, 3>> :> Ent("file", 7)}
CpioTrees == {a @@ b : a \in CpioFirst, b \in CpioSecond}

\* lists of up to three lines; 9 stands for a name that is no good, 0 for none
CpioLine(k, n, p, t) == [key |-> k, name |-> n, path |-> p, trail |-> t]
CpioLines ==
  {CpioLine("empty", 1, 1, FALSE), CpioLine("path", 1, 0, FALSE), CpioLine("path", 1, 0, TRUE),
   CpioLine("path", 1, 2, FALSE), CpioLine("path", 9, 0, FALSE), CpioLine("path", 2, 0, FALSE),
   CpioLine("file", 1, 1, FALSE), CpioLine("file", 1, 1, TRUE), CpioLine("copy", 2, 1, FALSE),
   CpioLine("link", 1, 2, FALSE), CpioLine("link", 9, 1, FALSE)}
CpioLists == UNION {[1..n -> CpioLines] : n \in 0..3}
CpioOuts ==
  {[x \in {} |-> 0], [x \in {<<1>>} |-> [t |-> "dir", data |-> <<>>]],
   [x \in {<<1>>} |-> [t |-> "file", data |-> <<>>]]}

\* small trees and lists, a page of six bytes
Cpi == INSTANCE Cpio WITH
  job <- v1, given <- v2, arc <- v3, out <- v4, ctx <- v5,
  names <- v6, Trees <- CpioTrees, Lists <- CpioLists, Outs <- CpioOuts,
  Sizes <- <<5, 3>>, PAGE <- 6, MAXDEPTH <- 1

\* three variables of a script
MshVars == <<"a">> :> <<>> @@ <<"b", "1">> :> <<"nl", "a">> @@ <<"t">> :> <<"sp">>

\* an environment of twelve entries
MshEnviron ==
  [i \in 1..12 |-> [name |-> <<"p", "e1", "e2", "e3", "e4", "e5", "e6", "e7", "e8", "e9", "e10", "e11">>[i],
                    val |-> [len |-> 1, v |-> "o"]]]

\* commands of up to two arguments, of every kind of character;
\* four commands on two names, in an environment of twelve;
\* waitfor and run, with six changes and two signals
Script == INSTANCE Msh WITH
  meant <- v1, text <- v2, state <- v3, heap <- v4,
  var <- v5, ran <- v6,
  Values <- {<<>>, <<"b", "n">>, <<"sp">>, <<"a", "hash">>, <<"nl", "a">>, <<"dq", "sq">>, <<"bs", "dollar", "t">>},
  Vars <- MshVars, TopArgs <- <<<<"n">>, <<"b", "n">>, <<"dq", "sq">>>>,
  Separators <- {<<"tab", "sp">>, <<"sp", "bs", "nl">>},
  Ends <- {<<>>, <<"nl">>, <<"sp", "hash", "a", "nl">>}, envs <- v1, customenvp <- v2,
  env_state <- v3, area <- v4, env <- v5, vars <- v6, hidden <- v7, ops <- v8,
  Names <- {"p", "q"},
  EnvValues <- {[len |-> 1, v |-> "x"], [len |-> 2, v |-> "y"], [len |-> 6, v |-> "x"]},
  Environ <- MshEnviron, OPS <- 4, cmd <- v1, fs <- v2, ino <- v3, child <- v4,
  sig <- v5, hist <- v6, CHANGES <- 6, SIGNALS <- 2

\* six lines and a log rotated after four
Log == INSTANCE SysLog WITH
  disk <- v1, hub <- v2, cat <- v3, ino <- v4, shown <- v5,
  hist <- v6, LINES <- 6, THRESHOLD <- 4, BUFLEN <- 5, OUTLEN <- 5, STOPS <- 1

\* /sys/devices with a bus (or a device) 1 above device 2; an alias that is long
RdDir(n) == [dev |-> n, file |-> FALSE, long |-> FALSE]
RdFile(n) == [dev |-> n, file |-> TRUE, long |-> FALSE]
RdLong(n) == [dev |-> n, file |-> TRUE, long |-> TRUE]
RdTrees ==
  {[x \in 0..4 |-> CASE x = 0 -> <<RdDir(1), RdDir(3), RdDir(4)>> [] x = 1 -> a [] OTHER -> <<RdFile(x)>>] :
     a \in {<<RdLong(1), RdDir(2)>>, <<RdDir(2), RdFile(1)>>, <<RdDir(2)>>}}
\* partitions with the second key, by index and without one; and one for which there is none
RdArg(t, l, i) == [t |-> t, label |-> l, idx |-> i]
RdArgLists ==
  {<<RdArg("index", "x", 2), RdArg("plain", "y", 0)>>,
   <<RdArg("index", "x", 2), RdArg("skip", "x", 0), RdArg("plain", "y", 0)>>}

\* a device below another, and two that are plugged in;
\* a passphrase of three letters, two partitions and keys, two runs
Rd == INSTANCE InitRd WITH
  sys <- v1, queue <- v2, piped <- v3, kids <- v4,
  sigchld <- v5, top <- v6, hist <- v7, Trees <- RdTrees, Late <- {3, 4}, ORPHANS <- 2,
  pass_top <- v1, box <- v2, tty <- v3, data <- v4, dm <- v5, pass_hist <- v6,
  Secret <- <<"a", "b", "a">>, Letters <- {"a", "b"}, MAXPASS <- 4, Widths <- {2, 3},
  STEP <- 1, ArgLists <- RdArgLists, NKEYS <- 2,
  RUNS <- 2, RESIZES <- 1

\* what is in a library's archive
CtDir(l, n) == [dir |-> TRUE, lvl |-> l, name |-> n, type |-> "dir"]
CtFile(n) == [dir |-> FALSE, lvl |-> 0, name |-> n, type |-> "file"]
CtIndexes ==
  {<<CtDir(0, "inc"), CtFile("a")>>, <<CtDir(0, "inc"), CtDir(1, "a"), CtFile("a"), CtFile("b")>>,
   <<CtDir(0, "inc"), CtFile("a"), CtDir(1, "b"), CtFile("a")>>,
   <<CtDir(0, "inc"), CtDir(1, "a"), CtFile("b"), CtDir(1, "b"), CtFile("a")>>,
   <<CtDir(0, "inc"), CtFile("b"), CtDir(1, "a"), CtDir(2, "b")>>,
   <<CtDir(0, "etc"), CtFile("a")>>, <<CtFile("a"), CtDir(0, "inc")>>}

\* descriptions of a toolchain
CtLine(k, d, a) == [key |-> k, dst |-> d, arg |-> a]
CtDescs ==
  {<<CtLine("prefix", "", "p"), CtLine("link", "a", "cc")>>, <<CtLine("link", "a", "cc"), CtLine("script", "b", "t")>>,
   <<CtLine("interp", "", "sh"), CtLine("script", "a", "t"), CtLine("prefix", "", "q"), CtLine("link", "b", "ld")>>,
   <<CtLine("repo", "", "dir")>>, <<CtLine("repo", "", "file"), CtLine("link", "b", "ld")>>,
   <<CtLine("link", "b", "ld"), CtLine("repo", "", "dir"), CtLine("link", "b", "as")>>,
   <<CtLine("script", "b", "t"), CtLine("script", "b", "u")>>, <<CtLine("link", "a", "ld"), CtLine("script", "a", "u")>>}

\* packages of four entries, two deep, and three decoders;
\* three operations on two libraries;
\* three operations with descriptions of up to four lines
Ct == INSTANCE Ctool WITH
  raw <- v1, ixt <- v2, rep <- v3, decs <- v4, found <- v5,
  EntryNames <- {1, 2}, MAXDEPTH <- 2, ENTRIES <- 4, Decoders <- {"gz", "lz", "xz"},
  fs <- v1, lists <- v2, ctx <- v3, before <- v4, ops <- v5, Libs <- {"x", "y"},
  Indexes <- CtIndexes, Dirs <- {"inc"}, Names <- {"a", "b"}, OPS <- 3, bin_fs <- v1,
  stamp <- v2, cct <- v3, ours <- v4, bin_ops <- v5, Files <- {"a", "b"},
  Descs <- CtDescs, BIN_OPS <- 3

\* what findblk is told to look for
BlkPart(s, l) == [suff |-> s, label |-> l]
BlkSpecs == {<<BlkPart("", "d"), BlkPart("1", "x")>>, <<BlkPart("1", "x"), BlkPart("2", "y")>>, <<BlkPart("1", "x"), BlkPart("1", "x")>>}

\* ISO dates
CalDates == {[year |-> 2024, month |-> m, day |-> d] : m \in {1, 3, 12, 13}, d \in {0, 28, 30}}

\* zone files and fixed zones
DAY == 24 * 2 * 2
DateAt(d, off) == [at |-> d * DAY + 8, off |-> off]
DateFiles ==
  "localtime" :> [times |-> <<DateAt(10000, 8), DateAt(11000, 12), DateAt(12000, 8)>>, type0 |-> 8, leaps |-> <<>>]
   @@ "west" :> [times |-> <<DateAt(5000, -20), DateAt(12000, -16)>>, type0 |-> 0,
                 leaps |-> <<[base |-> 6000 * DAY, sum |-> 1], [base |-> 13000 * DAY, sum |-> 2]>>]
   @@ "none" :> [times |-> <<>>, type0 |-> 8, leaps |-> <<>>]
DateFixed == "EST" :> (-20) @@ "UTC" :> 0 @@ "NZST" :> 48
DateStamps ==
  {0, 1, DAY - 1, DAY, 6000 * DAY, 6000 * DAY + 1, 13000 * DAY - 1, 13000 * DAY + 1}
    \cup {11000 * DAY + k : k \in 6..14} \cup {(11016 + k) * DAY - 1 : k \in -1..1}
DateDates ==
  {<<y, m, d>> : y \in {1970, 2000, 2004, 2100}, m \in {1, 2, 12}, d \in {1, 28}} \cup {<<2000, 1, 13>>, <<2002, 10, 9>>}

\* years on both sides of every leap rule;
\* times around transitions, leap seconds and year ends; an hour has two minutes
Cal == INSTANCE Dates WITH
  st <- v1, ctx <- v2, today <- v3, first <- v4,
  blocks <- v5,
  Numbers <- {0, 5, 12, 25, 50, 1500, 1600, 1700, 1899, 1900, 1999, 2000, 2004, 2015, 2016, 2021, 2023, 2024, 2100},
  Months <- {1, 2, 3, 12}, Dates <- CalDates,
  Todays <- {[year |-> 2021, month |-> 1, day |-> 1], [year |-> 2026, month |-> 3, day |-> 31]},
  args <- v1, date_st <- v2, zt <- v3, src <- v4, tgt <- v5, now <- v6, HOURS <- 24,
  MINS <- 2, SECS <- 2, Files <- DateFiles, Missing <- {"nowhere"}, Fixed <- DateFixed,
  Stamps <- DateStamps, DateArgs <- DateDates,
  Times <- {<<0, 0>>, <<3, 1>>, <<5, 0>>, <<23, 1>>},
  Nows <- {11040 * DAY + 8, 9000 * DAY + 90}

\* two names, and what may be at each end;
\* offsets and lengths around the ends of files of up to three bytes
Fs == INSTANCE Files WITH
  cfg <- v1, fs <- v2, cp <- v3, Names <- {"a", "b"},
  Empty <- 3, cmd <- v1, st <- v2, dst <- v3, slen <- v4, pos <- v5, before <- v6,
  WRAP <- 8, MAXRUN <- 2, PAGE <- 2, Sizes <- {-1, 0, 2, 3}, Offsets <- {0, 1, 2, 4},
  Lengths <- {0, 2, 3}, Types <- {"reg", "blk", "chr"}

\* trees to look through
FindEnt(n, t) == [name |-> n, t |-> t]
FindLists ==
  {s \in [1..3 -> [name : 1..3, t : {"dir", "file", "other"}]] :
     s[1].name # 1 /\ \A i, j \in 1..3 : i # j => s[i].name # s[j].name}
FindSubs ==
  {<<>>, <<FindEnt(2, "file"), FindEnt(1, "file")>>, <<FindEnt(1, "unknown")>>, <<FindEnt(2, "file"), FindEnt(1, "dir")>>}
FindDirs(d, l) == {Append(d, l[i].name) : i \in {k \in DOMAIN l : l[k].t = "dir"}}
FindTrees ==
  {[d \in {<<>>} \cup FindDirs(<<>>, r) \cup (IF <<2>> \in FindDirs(<<>>, r) THEN FindDirs(<<2>>, s) ELSE {}) |->
      CASE d = <<>> -> r [] d = <<2>> -> s [] d = <<2, 1>> -> <<FindEnt(1, "file")>>
        [] OTHER -> <<FindEnt(2, "file"), FindEnt(1, "other"), FindEnt(3, "file")>>] :
     r \in FindLists, s \in FindSubs}

\* three entries below the root, and one that others add;
\* trees three levels deep
Tree == INSTANCE Trees WITH
  fs <- v1, opts <- v2, del <- v3, Nodes <- {0, 1, 2, 3},
  ADDED <- 1, tree <- v1, closed <- v2, heap <- v3, dirs <- v4, out <- v5, st <- v6,
  Trees <- FindTrees

\* four processes;
\* two processes, one of which may end or be another;
\* four processes, two of which exit, fork or exec meanwhile
Ps == INSTANCE Procs WITH
  tree_procs <- v1, tree_args <- v2, opts <- v3, tree <- v4,
  N <- 4, ARGS <- 2, kill_procs <- v1, pk <- v2, changes <- v3, KillPids <- {1, 2},
  Words <- {<<"a">>, <<"a", "b">>}, CHANGES <- 1, procs <- v1, args <- v2, ctx <- v3,
  out <- v4, hist <- v5, Pids <- {2, 3, 4, 5}, Self <- 4,
  Commands <- {<<>>, <<"a", "0">>, <<"a", "a", "0", "b", "0">>},
  Patterns <- {{}, {[t |-> "str", v |-> "b"]}, {[t |-> "pid", v |-> 5]}}, PAGE <- 2,
  EVENTS <- 2

\* an executable, directories and links, with and without d_type
LsEnt(n, d, h, t, g, k) == [name |-> n, dot |-> d, has |-> h, type |-> t, exec |-> TRUE, target |-> g, known |-> k]
LsEntries ==
  {LsEnt(1, FALSE, TRUE, "reg", "none", TRUE), LsEnt(2, FALSE, TRUE, "dir", "none", TRUE),
   LsEnt(3, FALSE, FALSE, "lnk", "dir", TRUE), LsEnt(3, FALSE, TRUE, "lnk", "exec", TRUE),
   LsEnt(4, TRUE, TRUE, "dir", "none", FALSE)}

\* two lines of up to three arguments;
\* three processes that exit and fork meanwhile;
\* directories of every kind of entry
Sh == INSTANCE Shell WITH
  meant <- v1, text <- v2, sh <- v3, ran <- v4,
  Values <- {<<"a">>, <<"b", "sp">>}, MAXPTR <- 6, MAXCNT <- 2, LINES <- 2,
  procs <- v1, ctx <- v2, at <- v3, done <- v4, hist <- v5, Pids <- {2, 3, 4},
  Cmds <- {<<>>, <<"a">>, <<"b", "a">>}, Patts <- {<<>>, <<"a">>, <<"b">>}, EVENTS <- 2, dir <- v1, dir_ctx <- v2, heap <- v3,
  dir_hist <- v4, shown <- v5, Entries <- LsEntries, MAXENTS <- 1

\* lines of mountinfo, and what is asked for
MntLine(a, b, p, k, l) == [dev |-> <<a, b>>, point |-> p, blocks |-> k, len |-> l]
MntLines == {MntLine(8, 1, 1, 4, 3), MntLine(8, 1, 2, 4, 2), MntLine(0, 1, 3, 0, 2), MntLine(0, 2, 4, 4, 3), MntLine(8, 2, 5, 4, 1)}
MntModes ==
  {<<"shell", m, <<0, 0>>>> : m \in {"all", "virt", "real"}} \cup {<<"mntstat", m, <<0, 0>>>> : m \in {"plain", "m", "a"}}
    \cup {<<"mntstat", "file", <<8, 1>>>>, <<"mntstat", "file", <<8, 3>>>>}

\* two disks with three partitions, of which two are wanted;
\* two commands on four places, one of them virtual;
\* up to four mounts in a buffer of at least six
Disk == INSTANCE Disks WITH
  sys <- v1, queue <- v2, spec <- v3, blk_ctx <- v4,
  links <- v5, Disks <- {"a", "b"},
  Parts <- {<<"a", "1">>, <<"a", "2">>, <<"b", "1">>}, Wanted <- "a",
  Specs <- BlkSpecs, mnt <- v1, dirs <- v2, cmd <- v3, ops <- v4,
  Points <- {<<1>>, <<1, 1>>, <<1, 1, 1>>, <<2>>}, Virtual <- {<<2>>}, OPS <- 2,
  file <- v1, pos <- v2, buf <- v3, ctx <- v4, out <- v5, rds <- v6,
  MountLines <- MntLines, Modes <- MntModes, MAXMOUNTS <- 4, MINSIZE <- 6

\* a table of four services and two changes of it
Lst == INSTANCE Listing WITH
  who <- v1, table <- v2, ids <- v3, changes <- v4,
  cl <- v5, seen <- v6, always <- v7, NPROCS <- 4, CHANGES <- 2, MAXREC <- 4,
  BUF <- 10, Hubs <- {"svchub", "apphub", "ptyhub"}, CROOM <- 6

InitAll ==
  /\ Init
  /\ \/ part = "ifmon" /\ v1 = 0 /\ v2 = 0 /\ v3 = 0 /\ v4 = 0 /\ v5 = 0 /\ v6 = 0 /\ v7 = 0 /\ v8 = 0
     \/ part = "copy" /\ Fs!CopyInit /\ v4 = 0 /\ v5 = 0 /\ v6 = 0 /\ v7 = 0 /\ v8 = 0
     \/ part = "delete" /\ Tree!DelInit /\ v4 = 0 /\ v5 = 0 /\ v6 = 0 /\ v7 = 0 /\ v8 = 0
     \/ part = "pstree" /\ Ps!TreeInit /\ v5 = 0 /\ v6 = 0 /\ v7 = 0 /\ v8 = 0
     \/ part = "pskill" /\ Ps!KillInit /\ v4 = 0 /\ v5 = 0 /\ v6 = 0 /\ v7 = 0 /\ v8 = 0
     \/ part = "mpkg" /\ Pkg!PkgInit /\ v7 = 0 /\ v8 = 0
     \/ part = "rules" /\ Pkg!RulesInit /\ v7 = 0 /\ v8 = 0
     \/ part = "mpac" /\ Pac!PacInit /\ v6 = 0 /\ v7 = 0 /\ v8 = 0
     \/ part = "mpaclist" /\ Pac!ListInit /\ v4 = 0 /\ v5 = 0 /\ v6 = 0 /\ v7 = 0 /\ v8 = 0
     \/ part = "cpio" /\ Cpi!Init /\ v7 = 0 /\ v8 = 0
     \/ part = "msh" /\ Script!ParseInit /\ v7 = 0 /\ v8 = 0
     \/ part = "mshenv" /\ Script!EnvInit
     \/ part = "mshwait" /\ Script!WaitInit /\ v7 = 0 /\ v8 = 0
     \/ part = "syslog" /\ Log!Init /\ v7 = 0 /\ v8 = 0
     \/ part = "rdinit" /\ Rd!RdInit /\ v8 = 0
     \/ part = "passblk" /\ Rd!PassInit /\ v7 = 0 /\ v8 = 0
     \/ part = "ctpkg" /\ Ct!PkgInit /\ v6 = 0 /\ v7 = 0 /\ v8 = 0
     \/ part = "ctlib" /\ Ct!LibInit /\ v6 = 0 /\ v7 = 0 /\ v8 = 0
     \/ part = "ctbin" /\ Ct!BinInit /\ v6 = 0 /\ v7 = 0 /\ v8 = 0
     \/ part = "findblk" /\ Disk!BlkInit /\ v6 = 0 /\ v7 = 0 /\ v8 = 0
     \/ part = "mounts" /\ Disk!MountInit /\ v5 = 0 /\ v6 = 0 /\ v7 = 0 /\ v8 = 0
     \/ part = "calendar" /\ Cal!CalInit /\ v6 = 0 /\ v7 = 0 /\ v8 = 0
     \/ part = "date" /\ Cal!DateInit /\ v7 = 0 /\ v8 = 0
     \/ part = "bincopy" /\ Fs!BinInit /\ v7 = 0 /\ v8 = 0
     \/ part = "find" /\ Tree!FindInit /\ v7 = 0 /\ v8 = 0
     \/ part = "pslist" /\ Ps!ListInit /\ v6 = 0 /\ v7 = 0 /\ v8 = 0
     \/ part = "shell" /\ Sh!LineInit /\ v5 = 0 /\ v6 = 0 /\ v7 = 0 /\ v8 = 0
     \/ part = "shellps" /\ Sh!ProcInit /\ v6 = 0 /\ v7 = 0 /\ v8 = 0
     \/ part = "list" /\ Sh!DirInit /\ v6 = 0 /\ v7 = 0 /\ v8 = 0
     \/ part = "mntlist" /\ Disk!ListInit /\ v7 = 0 /\ v8 = 0
     \/ part = "hublist" /\ Lst!Init /\ v8 = 0

NextAll ==
  /\ UNCHANGED part
  /\ \/ part = "ifmon" /\ Next /\ UNCHANGED <<v1, v2, v3, v4, v5, v6, v7, v8>>
     \/ part = "copy" /\ Fs!CopyNext /\ UNCHANGED <<vars, v4, v5, v6, v7, v8>>
     \/ part = "delete" /\ Tree!DelNext /\ UNCHANGED <<vars, v4, v5, v6, v7, v8>>
     \/ part = "pstree" /\ Ps!TreeNext /\ UNCHANGED <<vars, v5, v6, v7, v8>>
     \/ part = "pskill" /\ Ps!KillNext /\ UNCHANGED <<vars, v4, v5, v6, v7, v8>>
     \/ part = "mpkg" /\ Pkg!PkgNext /\ UNCHANGED <<vars, v7, v8>>
     \/ part = "rules" /\ Pkg!RulesNext /\ UNCHANGED <<vars, v7, v8>>
     \/ part = "mpac" /\ Pac!PacNext /\ UNCHANGED <<vars, v6, v7, v8>>
     \/ part = "mpaclist" /\ Pac!ListNext /\ UNCHANGED <<vars, v4, v5, v6, v7, v8>>
     \/ part = "cpio" /\ Cpi!Next /\ UNCHANGED <<vars, v7, v8>>
     \/ part = "msh" /\ Script!ParseNext /\ UNCHANGED <<vars, v7, v8>>
     \/ part = "mshenv" /\ Script!EnvNext /\ UNCHANGED vars
     \/ part = "mshwait" /\ Script!WaitNext /\ UNCHANGED <<vars, v7, v8>>
     \/ part = "syslog" /\ Log!Next /\ UNCHANGED <<vars, v7, v8>>
     \/ part = "rdinit" /\ Rd!RdNext /\ UNCHANGED <<vars, v8>>
     \/ part = "passblk" /\ Rd!PassNext /\ UNCHANGED <<vars, v7, v8>>
     \/ part = "ctpkg" /\ Ct!PkgNext /\ UNCHANGED <<vars, v6, v7, v8>>
     \/ part = "ctlib" /\ Ct!LibNext /\ UNCHANGED <<vars, v6, v7, v8>>
     \/ part = "ctbin" /\ Ct!BinNext /\ UNCHANGED <<vars, v6, v7, v8>>
     \/ part = "findblk" /\ Disk!BlkNext /\ UNCHANGED <<vars, v6, v7, v8>>
     \/ part = "mounts" /\ Disk!MountNext /\ UNCHANGED <<vars, v5, v6, v7, v8>>
     \/ part = "calendar" /\ Cal!CalNext /\ UNCHANGED <<vars, v6, v7, v8>>
     \/ part = "date" /\ Cal!DateNext /\ UNCHANGED <<vars, v7, v8>>
     \/ part = "bincopy" /\ Fs!BinNext /\ UNCHANGED <<vars, v7, v8>>
     \/ part = "find" /\ Tree!FindNext /\ UNCHANGED <<vars, v7, v8>>
     \/ part = "pslist" /\ Ps!ListNext /\ UNCHANGED <<vars, v6, v7, v8>>
     \/ part = "shell" /\ Sh!LineNext /\ UNCHANGED <<vars, v5, v6, v7, v8>>
     \/ part = "shellps" /\ Sh!ProcNext /\ UNCHANGED <<vars, v6, v7, v8>>
     \/ part = "list" /\ Sh!DirNext /\ UNCHANGED <<vars, v6, v7, v8>>
     \/ part = "mntlist" /\ Disk!ListNext /\ UNCHANGED <<vars, v7, v8>>
     \/ part = "hublist" /\ Lst!Next /\ UNCHANGED <<vars, v8>>

SpecAll == InitAll /\ [][NextAll]_all

(* Properties, those of the tool chosen; ifmon's are in IfMon *)

\* copy, move, delete, mpkg, mpac and cpio: a tree ends up as it should, and what the
\* tool has no business with stays.  copy loses nothing it was not told to replace,
\* delete stays inside its arguments and its device, a package that is removed takes
\* its own files only, rules decide what they say, and what is packed is unpacked as
\* it was.  ctool takes away what it put there and nothing else; bincopy changes the
\* bytes it was told to; findblk links the partitions that are there; and a umount or
\* reboot leaves nothing mounted below what it took away.
FilesSound ==
  /\ part = "copy" => Fs!CopySafe
  /\ part = "delete" => Tree!StaysInside /\ Tree!DeletesAll /\ Tree!SaysSo
  /\ part = "mpkg" => Pkg!MPkgSafe
  /\ part = "rules" => Pkg!RulesSafe
  /\ part = "mpac" => Pac!RoundTrip
  /\ part = "mpaclist" => Pac!Placed
  /\ part = "cpio" => Cpi!CpioSafe
  /\ part = "ctpkg" => Ct!PkgSafe
  /\ part = "ctlib" => Ct!LibSafe
  /\ part = "ctbin" => Ct!BinSafe
  /\ part = "bincopy" => Fs!RangeKept
  /\ part = "findblk" => Disk!FindSafe
  /\ part = "mounts" => Disk!MountsSafe

\* msh and the shell: a command is run with the arguments its line means, variables and quotes
\* included; until a search passes a short entry over, the environment is what the script
\* made of it; run ends when its child has, and waitfor when the file was created.
ScriptsSound ==
  /\ part = "msh" => Script!TokensRight
  /\ part = "mshenv" => Script!EnvRight
  /\ part = "mshwait" => Script!WaitsRight
  /\ part = "shell" => Sh!LinesRun

\* rdinit, sysklogd, logcat, pstree and pskill: the real root is booted only after the
\* script, and every device is heard of; logcat -f shows the lines in order, none
\* twice and none lost but for the rotations it missed; the tree shown has every
\* process asked for once; and processes named get the signal.  passblk unlocks with
\* the passphrase that was typed and maps a partition with the key it is given.
SystemSound ==
  /\ part = "rdinit" => Rd!BootSound
  /\ part = "syslog" => Log!LogSound
  /\ part = "pstree" => Ps!TreeShown
  /\ part = "pskill" => Ps!OnlyNamed
  /\ part = "passblk" => Rd!PassSafe

\* Tools that show something: a calendar has every day where it belongs, and date converts
\* between calendar time, timestamps and zones as it should (what it makes of the month of
\* a date is left out, see DateRight); find, list and ls show each entry they should once
\* and in order, and a process, a mount or a name in /proc that is there all the time is
\* shown, whatever comes and goes meanwhile.
ShownSound ==
  /\ part = "calendar" => Cal!CalendarRight
  /\ part = "date" => Cal!DateRight
  /\ part = "find" => Tree!FoundOnce
  /\ part = "list" => Sh!ListedRight
  /\ part = "mntlist" => Disk!MountsListed
  /\ part = "pslist" => Ps!ShownRight
  /\ part = "shellps" => Sh!NamedOnly
  /\ part = "hublist" => Lst!ListedOnce
=============================================================================
