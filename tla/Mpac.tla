-------------------------------- MODULE Mpac --------------------------------
(* mpac: packages and lists of files. *)
EXTENDS Sequences, SequencesExt, Integers

(***************************************************************************)
(* mpac create and mpac extract.  create scans a directory, writes the     *)
(* index, then goes over the index and appends what the files hold; files  *)
(* may change in between.  extract goes over the index, making directories *)
(* and taking from the rest as many bytes as the index says.               *)
(***************************************************************************)
CONSTANTS
  Names,       \* file names, numbers: strcmp is <
  Kinds,       \* what a file may be: [type, size], type "file", "exec" or "link"
  BASE         \* values of a byte

VARIABLES
  src,         \* the directory packed: path -> kind, Dir or None
  pac,         \* the archive: [index, data]
  out,         \* the directory it is extracted to
  mp,          \* the command and its state
  seen         \* the directory as it was scanned

mpac_vars == <<src, pac, out, mp, seen>>

None == [type |-> "none", size |-> 0]
Dir == [type |-> "dir", size |-> 0]
Paths == UNION {[1..n -> Names] : n \in 1..3}
Empty == [p \in Paths |-> None]

In(t, p) == IF p = <<>> THEN Dir ELSE IF p \in Paths THEN t[p] ELSE None

(***************************************************************************)
(* create                                                                  *)
(***************************************************************************)
\* cmp_ent: files before directories, each by name
index_dir(t, p) ==
  LET there == {n \in Names : In(t, Append(p, n)) # None}
      key(n) == (IF In(t, Append(p, n)) = Dir THEN 1 ELSE 0)
  IN  SetToSortSeq(there, LAMBDA a, b : key(a) < key(b) \/ (key(a) = key(b) /\ a < b))

Digits(size) ==
  IF size < BASE THEN <<size>>
  ELSE IF size < BASE * BASE THEN <<size % BASE, size \div BASE>>
  ELSE <<size % BASE, (size \div BASE) % BASE, size \div (BASE * BASE)>>

\* put_link writes the two bytes the other way around
put_link(size) == IF size < BASE THEN <<size>> ELSE <<size \div BASE, size % BASE>>

put_file(size) == Digits(size)

\* put_entries: the index, with the path each entry is of
RECURSIVE put_entries(_, _)
put_entries(t, p) ==
  FlattenSeq([k \in DOMAIN index_dir(t, p) |->
    LET n == index_dir(t, p)[k]
        q == Append(p, n)
        e == In(t, q)
    IN  IF e = Dir THEN <<[dir |-> TRUE, lvl |-> Len(p), name |-> n, path |-> q, type |-> "dir", digits |-> <<>>, size |-> 0]>> \o put_entries(t, q)
        ELSE <<[dir |-> FALSE, lvl |-> 0, name |-> n, path |-> q, type |-> e.type,
                digits |-> IF e.type = "link" THEN put_link(e.size) ELSE put_file(e.size), size |-> e.size]>>])

\* scan_files, dump_packed: the header is written
cmd_create ==
  /\ mp.cmd = "create" /\ mp.i = 0
  /\ pac' = [index |-> put_entries(src, <<>>), data |-> <<>>]
  /\ seen' = src
  /\ mp' = IF src = Empty THEN [mp EXCEPT !.cmd = "failed"] ELSE [mp EXCEPT !.i = 1]
  /\ UNCHANGED <<src, out>>

\* mutant of dump_entry: the size is not looked at again
dump_unchecked ==
  /\ mp.cmd = "create" /\ mp.i \in DOMAIN pac.index
  /\ \E e \in {pac.index[mp.i]} : \E now \in {In(src, e.path)} :
       /\ mp' = [mp EXCEPT !.i = @ + 1]
       /\ pac' = IF e.dir THEN pac ELSE [pac EXCEPT !.data = @ \o [k \in 1..now.size |-> e.path]]
  /\ UNCHANGED <<src, out, seen>>

\* dump_bindata, dump_symlink: as many bytes as were seen, if there still are
dump_entry ==
  /\ mp.cmd = "create" /\ mp.i \in DOMAIN pac.index
  /\ \E e \in {pac.index[mp.i]} : \E now \in {In(src, e.path)} :
       IF e.dir \/ (now # None /\ (IF e.type = "link" THEN now.size = e.size ELSE now.size >= e.size))
       THEN /\ mp' = [mp EXCEPT !.i = @ + 1]
            /\ pac' = [pac EXCEPT !.data = @ \o [k \in 1..e.size |-> e.path]]
       ELSE /\ mp' = [mp EXCEPT !.cmd = "failed"]
            /\ pac' = pac
  /\ UNCHANGED <<src, out, seen>>

created ==
  /\ mp.cmd = "create" /\ mp.i > Len(pac.index) /\ mp.i > 0
  /\ mp' = [cmd |-> "extract", i |-> 1, off |-> 0, path |-> <<>>, changed |-> mp.changed]
  /\ UNCHANGED <<src, pac, out, seen>>

\* a file is written to while it is packed
Changed ==
  /\ mp.cmd = "create" /\ mp.i > 0 /\ ~mp.changed
  /\ mp' = [mp EXCEPT !.changed = TRUE]
  /\ \E p \in Paths, k \in Kinds : src[p].type = k.type /\ src' = [src EXCEPT ![p] = k]
  /\ UNCHANGED <<pac, out, seen>>

(***************************************************************************)
(* extract                                                                 *)
(***************************************************************************)
RECURSIVE parse_size(_)
parse_size(digits) == IF digits = <<>> THEN 0 ELSE Head(digits) + BASE * parse_size(Tail(digits))

rewind_path(path, lvl) == SubSeq(path, 1, lvl)

\* unpack_dir: one that is there is used
unpack_dir(e) ==
  LET p == Append(rewind_path(mp.path, e.lvl), e.name) IN
  IF In(out, p) \in {None, Dir} /\ p \in Paths
  THEN out' = [out EXCEPT ![p] = Dir] /\ mp' = [mp EXCEPT !.i = @ + 1, !.path = p]
  ELSE mp' = [mp EXCEPT !.cmd = "failed"] /\ out' = out

\* unpack_file, unpack_link: one that is there is replaced, unless it is a directory
unpack_file(e) ==
  LET p == Append(mp.path, e.name)
      n == parse_size(e.digits)
      got == SubSeq(pac.data, mp.off + 1, mp.off + n)
  IN  IF p \in Paths /\ In(out, p) # Dir /\ mp.off + n <= Len(pac.data)
      THEN /\ out' = [out EXCEPT ![p] = [type |-> e.type, size |-> n, of |-> got]]
           /\ mp' = [mp EXCEPT !.i = @ + 1, !.off = @ + n]
      ELSE mp' = [mp EXCEPT !.cmd = "failed"] /\ out' = out

unpack_entry ==
  /\ mp.cmd = "extract" /\ mp.i \in DOMAIN pac.index
  /\ \E e \in {pac.index[mp.i]} : (e.dir /\ unpack_dir(e)) \/ (~e.dir /\ unpack_file(e))
  /\ UNCHANGED <<src, pac, seen>>

extracted ==
  /\ mp.cmd = "extract" /\ mp.i > Len(pac.index)
  /\ mp' = [mp EXCEPT !.cmd = "done"]
  /\ UNCHANGED <<src, pac, out, seen>>

First == CHOOSE n \in Names : \A m \in Names : n <= m
Old == [type |-> "file", size |-> 0, of |-> <<>>]

PacInit ==
  /\ \E f \in [{p \in Paths : Len(p) = 1 \/ (Len(p) = 2 /\ p[1] = First)} -> Kinds \cup {None, Dir}] :
       /\ \A p \in DOMAIN f : Len(p) = 2 /\ f[p] # None => f[Front(p)] = Dir
       /\ src = [p \in Paths |-> IF p \in DOMAIN f THEN f[p] ELSE None]
  /\ \E was \in {Old, None, Dir} : out = [Empty EXCEPT ![<<First>>] = was]
  /\ pac = [index |-> <<>>, data |-> <<>>] /\ seen = src
  /\ mp = [cmd |-> "create", i |-> 0, off |-> 0, path |-> <<>>, changed |-> FALSE]

PacNext == cmd_create \/ dump_entry \/ created \/ Changed \/ unpack_entry \/ extracted

PacSpec == PacInit /\ [][PacNext]_mpac_vars

ShortLinks == \A p \in Paths : seen[p].type = "link" => seen[p].size < BASE

\* mpac: what is extracted is what was scanned, each file with its own content, also if
\* files were written to meanwhile (links whose length takes two bytes aside).
RoundTrip ==
  mp.cmd = "done" /\ ShortLinks =>
    \A p \in Paths : seen[p] # None =>
      /\ out[p].type = seen[p].type
      /\ seen[p] # Dir => out[p].size = seen[p].size /\ out[p].of = [k \in 1..seen[p].size |-> p]

(***************************************************************************)
(* mpac pack: a list with a line "> path" for each directory of the        *)
(* archive, and after it the files that go there.  The order of the lines  *)
(* is checked first; then the index of the archive is built, with tags for *)
(* those directories of a path that the one before it did not have.        *)
(***************************************************************************)
CONSTANTS
  Comps,       \* names: sequences of letters, which are numbers
  MAXLEN,      \* bound on the components of a path
  LINES        \* bound on lines

VARIABLES
  lines,       \* [dir, path]; a file's path is its name
  index,       \* the index built: [dir, lvl, name]
  lp           \* [i, last, ldir, path, state]

pack_vars == <<lines, index, lp>>

\* compare: letters, then lengths
compare(a, b) ==
  LET n == IF Len(a) < Len(b) THEN Len(a) ELSE Len(b)
      D == {k \in 1..n : a[k] # b[k]}
  IN  IF D = {} THEN Len(a) - Len(b)
      ELSE LET k == CHOOSE k \in D : \A j \in D : k <= j IN a[k] - b[k]

compare_file(last, name) == last = <<>> \/ compare(last, name) < 0

\* mutant of compare_dir: only the first component is compared
compare_dir_first(last, path) == last = <<>> \/ compare(last[1], path[1]) <= 0

\* component by component; when one ends, it is the last that must have more
RECURSIVE compare_dir(_, _)
compare_dir(last, path) ==
  IF last = <<>> \/ path = <<>> THEN last # <<>>
  ELSE LET c == compare(last[1], path[1])
       IN  c < 0 \/ (c = 0 /\ compare_dir(Tail(last), Tail(path)))

\* parse_path, parse_file
parse_line ==
  /\ lp.state = "parse" /\ lp.i <= Len(lines)
  /\ LET l == lines[lp.i]
         ok == IF l.dir THEN lp.ldir = <<>> \/ compare_dir(lp.ldir, l.path) ELSE compare_file(lp.last, l.path[1])
     IN  lp' = IF ~ok THEN [lp EXCEPT !.state = "syntax"]
               ELSE IF l.dir THEN [lp EXCEPT !.i = @ + 1, !.ldir = l.path, !.last = <<>>]
               ELSE [lp EXCEPT !.i = @ + 1, !.last = l.path[1]]
  /\ UNCHANGED <<lines, index>>

parsed ==
  /\ lp.state = "parse" /\ lp.i > Len(lines)
  /\ lp' = [lp EXCEPT !.state = "build", !.i = 1]
  /\ UNCHANGED <<lines, index>>

\* strncmp by the length of the new component: one that begins with it will do
Same(old, new) == IsPrefix(new, old)

RECURSIVE Common(_, _)
Common(path, new) ==
  IF path = <<>> \/ new = <<>> \/ ~Same(path[1], new[1]) THEN 0 ELSE 1 + Common(Tail(path), Tail(new))

index_path(p) ==
  LET n == Common(lp.path, p)
  IN  /\ index' = index \o [k \in 1..(Len(p) - n) |-> [dir |-> TRUE, lvl |-> n + k - 1, name |-> p[n + k]]]
      /\ lp' = [lp EXCEPT !.i = @ + 1, !.path = SubSeq(@, 1, n) \o SubSeq(p, n + 1, Len(p))]

index_file(p) ==
  /\ index' = Append(index, [dir |-> FALSE, lvl |-> 0, name |-> p[1]])
  /\ lp' = [lp EXCEPT !.i = @ + 1]

build_index ==
  /\ lp.state = "build" /\ lp.i <= Len(lines)
  /\ \E l \in {lines[lp.i]} : (l.dir /\ index_path(l.path)) \/ (~l.dir /\ index_file(l.path))
  /\ UNCHANGED lines

built ==
  /\ lp.state = "build" /\ lp.i > Len(lines)
  /\ lp' = [lp EXCEPT !.state = "done"]
  /\ UNCHANGED <<lines, index>>

Line == [dir : {TRUE}, path : UNION {[1..n -> Comps] : n \in 1..MAXLEN}] \cup [dir : {FALSE}, path : [1..1 -> Comps]]

ListInit ==
  /\ \E n \in 1..LINES : lines \in [1..n -> Line]
  /\ index = <<>> /\ lp = [i |-> 1, last |-> <<>>, ldir |-> <<>>, path |-> <<>>, state |-> "parse"]

ListNext == parse_line \/ parsed \/ build_index \/ built

ListSpec == ListInit /\ [][ListNext]_pack_vars

\* where the file of a line should go, and where an entry of the index goes
Meant(i) ==
  LET D == {j \in 1..i : lines[j].dir}
  IN  (IF D = {} THEN <<>> ELSE lines[CHOOSE j \in D : \A k \in D : k <= j].path) \o lines[i].path

Goes(i) ==
  LET go[k \in 0..i] == IF k = 0 THEN <<>>
                        ELSE IF index[k].dir THEN Append(SubSeq(go[k - 1], 1, index[k].lvl), index[k].name) ELSE go[k - 1]
  IN  Append(go[i], index[i].name)

\* a directory comes before all that is in it
Downwards == \A i, j \in DOMAIN lines : i < j /\ lines[i].dir /\ lines[j].dir => ~IsStrictPrefix(lines[j].path, lines[i].path)

\* mpac pack: the files of a list that is accepted are each in the directory they were
\* listed under, in the order of the list and once, unless a directory is listed after
\* one below it.
Placed ==
  lp.state = "done" /\ Downwards =>
    LET files == SelectSeq([i \in DOMAIN lines |-> i], LAMBDA i : ~lines[i].dir)
        ents == SelectSeq([i \in DOMAIN index |-> i], LAMBDA i : ~index[i].dir)
    IN  /\ Len(files) = Len(ents)
        /\ \A k \in DOMAIN files : Goes(ents[k]) = Meant(files[k])
=============================================================================
