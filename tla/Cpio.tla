-------------------------------- MODULE Cpio --------------------------------
(***************************************************************************)
(* cpio: create packs a directory, pack packs what a list file says, and   *)
(* extract and list read the archive through a window of two pages.  The   *)
(* archive is a sequence of bytes with its padding: a header takes HEAD    *)
(* bytes (110 in the code, 2 here: the same modulo 4), then the name, its  *)
(* NUL and padding, then the contents, whose padding is only written in    *)
(* front of the next header (ctx->skip).  A string is a sequence of        *)
(* characters, a file name n is n characters n, so that names differ in    *)
(* length; a byte of contents tells the file and the offset it is from.    *)
(***************************************************************************)
EXTENDS Integers, Sequences, FiniteSets, SequencesExt

CONSTANTS
  Trees,      \* the directories create is given: paths -> [t, size]
  Lists,      \* the list files pack is given
  Outs,       \* what is in the directory extract is given
  Sizes,      \* of the local files that pack is given, by name
  PAGE, MAXDEPTH

VARIABLES
  job,        \* "create", "pack", then "written", "extract", "list", "done"
  given,      \* [cmd, tree, list, out]: the command's input, and out at first
  arc,        \* the archive file
  out,        \* the directory extracted to
  ctx,        \* struct top
  names       \* what list has printed

cpio_vars == <<job, given, arc, out, ctx, names>>

HEAD == 2
Slash == 0
Nul == -1
Junk == -2
Dots == 9     \* the name ".."

C(x) == [k |-> "c", v |-> x]
Chars(s) == [i \in 1..Len(s) |-> C(s[i])]
Zeros(n) == [i \in 1..n |-> C(Nul)]
Body(s, n) == [i \in 1..n |-> [k |-> "b", of |-> s, at |-> i]]
Str(n) == IF n = Dots THEN <<Dots, Dots>> ELSE [i \in 1..n |-> n]
TRAILER == <<7, 7, 7>>

align4(x) == ((x + 3) \div 4) * 4
aligned_namesize(raw) == align4(HEAD + raw) - HEAD

\* format_size and parse_size: eight hexadecimal digits, the high ones first
format_size(val) == [i \in 1..8 |-> (val \div 16^(8 - i)) % 16]
parse_size(str) == FoldLeft(LAMBDA r, d : 16 * r + d, 0, str)

Header(type, size, nlen) ==
  <<[k |-> "h", mode |-> type, filesize |-> format_size(size),
     namesize |-> format_size(nlen)], [k |-> "h2"]>>

\* what is read at s for a length that may be another string's
Bytes(s, n) == [i \in 1..n |-> IF i <= Len(s) THEN s[i] ELSE Junk]

\* start_header, append_header, align_header, write_header: ctx->skip zeros
\* of the contents before, the header, the name and its padding, and extra
put_header(c, type, size, name, extra, skip) ==
  /\ arc' = arc \o Zeros(c.skip) \o Header(type, size, Len(name) + 1)
              \o Chars(name)
              \o Zeros(aligned_namesize(Len(name) + 1) - Len(name))
              \o extra
  /\ ctx' = [c EXCEPT !.skip = skip]

entry_name(c, name) == Bytes(c.pref, c.plen) \o Str(name)

put_pref(c) == put_header(c, "dir", 0, Bytes(c.pref, c.plen), <<>>, 0)

\* put_file: the contents follow the header, their padding does not
put_file(c, name, of, size) ==
  put_header(c, "file", size, entry_name(c, name), Body(of, size),
             align4(size) - size)

\* put_symlink, put_immlink: the target is part of the header's write
put_link(c, name, of, size) ==
  put_header(c, "link", size, entry_name(c, name),
             Body(of, size) \o Zeros(align4(size) - size), 0)

put_trailer(c) == put_header(c, "none", 0, TRAILER, <<>>, 0)

--------------------------------------------------------------------------
(* create                                                                 *)

In(s) == {n \in 1..3 : s \o Str(n) \in DOMAIN given.tree}
IsDir(s, n) == given.tree[s \o Str(n)].t = "dir"

\* mutant of cmp_ent
cmp_names(s, a, b) == a < b

\* cmp_ent: what is not a directory first, then by name
cmp_ent(s, a, b) ==
  IF IsDir(s, a) = IsDir(s, b) THEN a < b ELSE IsDir(s, b)

\* scan_directory, check_dent, process_dir: the sorted entries
Sorted(s) == SetToSortSeq(In(s), LAMBDA a, b : cmp_ent(s, a, b))

Top == ctx.stack[Len(ctx.stack)]
Popped == [ctx.stack EXCEPT ![Len(ctx.stack)].rest = Tail(@)]

Fail == /\ job' = "failed"
        /\ UNCHANGED <<given, out, names>>

\* enter_directory: the new prefix, its entry, and the scan
enter_directory(n) ==
  LET path == Top.pref \o Str(n) \o <<Slash>>
  IN IF Len(ctx.stack) > MAXDEPTH
     THEN Fail /\ UNCHANGED <<arc, ctx>>
     ELSE /\ put_pref([ctx EXCEPT !.pref = path, !.plen = Len(path),
                         !.stack = Append(Popped, [pref |-> path,
                                                   rest |-> Sorted(path)])])
          /\ UNCHANGED <<job, given, out, names>>

\* process_entry
process_entry ==
  /\ job = "create" /\ Top.rest # <<>>
  /\ LET n == Head(Top.rest)
         s == Top.pref \o Str(n)
         e == given.tree[s]
         c == [ctx EXCEPT !.stack = Popped]
     IN IF e.t = "dir" THEN enter_directory(n)
        ELSE /\ IF e.t = "link" THEN put_link(c, n, s, e.size)
                                ELSE put_file(c, n, s, e.size)
             /\ UNCHANGED <<job, given, out, names>>

\* the end of enter_directory: ctx->plen becomes the length of the path
\* just left, not of the prefix restored
leave_directory ==
  /\ job = "create" /\ Top.rest = <<>> /\ Len(ctx.stack) > 1
  /\ ctx' = [ctx EXCEPT !.stack = Front(@), !.plen = Len(Top.pref),
                        !.pref = ctx.stack[Len(ctx.stack) - 1].pref]
  /\ UNCHANGED <<job, given, arc, out, names>>

\* the end of cmd_create
CreateEnd ==
  /\ job = "create" /\ Top.rest = <<>> /\ Len(ctx.stack) = 1
  /\ put_trailer(ctx)
  /\ job' = "written"
  /\ UNCHANGED <<given, out, names>>

--------------------------------------------------------------------------
(* pack.  A line is [key, name, path, trail], trail telling that it ends   *)
(* in spaces.                                                              *)

\* grab_line: lp is set after the line without its spaces, so the next call
\* begins at them, finds the NUL put over the newline, and takes the line
\* after it with it; there is none after the last one
grab_line ==
  LET ln == given.list[ctx.line]
      key == IF ctx.spaces THEN "empty" ELSE ln.key
  IN [line |-> ln, key |-> key]

\* parse_path
parse_path(c, ln) ==
  LET path == Str(ln.name) \o <<Slash>>
      sub == IF ln.path = 0 THEN path ELSE path \o Str(ln.path) \o <<Slash>>
  IN put_pref([c EXCEPT !.pref = sub, !.plen = Len(sub)])

\* parse_input, parse_file, parse_link, parse_copy, take_whole_line,
\* take_name_path: a file named by a line with spaces after it is looked up
\* with the spaces
parse_input ==
  /\ job = "pack" /\ ctx.line <= Len(given.list)
  /\ LET g == grab_line
         ln == g.line
         c == [ctx EXCEPT !.line = @ + 1, !.spaces = ln.trail]
     IN \/ /\ g.key = "empty"
           /\ ctx' = c /\ UNCHANGED <<job, given, arc, out, names>>
        \/ /\ g.key = "path"
           /\ parse_path(c, ln) /\ UNCHANGED <<job, given, out, names>>
        \/ /\ g.key = "link"
           /\ put_link(c, ln.name, Str(ln.path), ln.path)
           /\ UNCHANGED <<job, given, out, names>>
        \/ /\ g.key \in {"file", "copy"} /\ ~ln.trail
           /\ put_file(c, ln.name, Str(ln.path), Sizes[ln.path])
           /\ UNCHANGED <<job, given, out, names>>
        \/ /\ g.key \in {"file", "copy"} /\ ln.trail
           /\ Fail /\ UNCHANGED <<arc, ctx>>

\* the end of cmd_pack; "truncated file" when spaces follow the last line
PackEnd ==
  /\ job = "pack" /\ ctx.line > Len(given.list)
  /\ IF ctx.spaces THEN Fail /\ UNCHANGED <<arc, ctx>>
     ELSE /\ put_trailer(ctx)
          /\ job' = "written" /\ UNCHANGED <<given, out, names>>

--------------------------------------------------------------------------
(* extract and list: the window is ctx.win, hptr bytes of it are used, and *)
(* the bytes of the archive up to ctx.pos have been read                   *)

HLEN == 2 * PAGE

Open ==
  /\ job = "written"
  /\ \E j \in {"extract", "list"} : job' = j
  /\ ctx' = [win |-> <<>>, hptr |-> 0, pos |-> 0, skip |-> 0]
  /\ UNCHANGED <<given, arc, out, names>>

\* shift_buffer
shift_buffer(c) ==
  IF c.hptr >= Len(c.win) THEN [c EXCEPT !.win = <<>>, !.hptr = 0]
  ELSE [c EXCEPT !.win = SubSeq(@, c.hptr + 1, Len(@)), !.hptr = 0]

Least(a, b) == IF a < b THEN a ELSE b

\* grab_cached: how much of size is in the window
Cached(c, size) == Least(Len(c.win) - c.hptr, size)
grab_cached(c, size) == [c EXCEPT !.hptr = @ + Cached(c, size)]
Tailing(c, size) == SubSeq(c.win, c.hptr + 1, c.hptr + Cached(c, size))

\* fill_buffer
fill_buffer(c) ==
  LET n == Least(HLEN - Len(c.win), Len(arc) - c.pos)
  IN [c EXCEPT !.win = @ \o SubSeq(arc, c.pos + 1, c.pos + n), !.pos = @ + n]

Filled(c, need) == IF Len(c.win) - c.hptr < need THEN fill_buffer(c) ELSE c

\* stream_rest: sendfile from the archive, past the window
Streamed(c, left) == SubSeq(arc, c.pos + 1, Least(c.pos + left, Len(arc)))
stream_rest(c, left) == [c EXCEPT !.pos = Least(@ + left, Len(arc))]

\* read_head: the padding left by the contents before, and the header
read_head(c) ==
  LET w == Filled(shift_buffer(c), HEAD + c.skip)
  IN [c |-> [grab_cached(w, HEAD + c.skip) EXCEPT !.skip = 0],
      got |-> Cached(w, HEAD + c.skip), need |-> HEAD + c.skip,
      at |-> c.skip + 1]

\* read_name, check_name: nothing but the name and its NUL
read_name(c, n) ==
  LET w == Filled(c, aligned_namesize(n))
  IN [c |-> grab_cached(w, aligned_namesize(n)),
      ok |-> n <= PAGE /\ Cached(w, aligned_namesize(n)) = aligned_namesize(n),
      raw |-> Tailing(w, n)]

IsName(raw) ==
  /\ raw # <<>> /\ \A i \in DOMAIN raw : raw[i].k = "c"
  /\ \A i \in DOMAIN raw : raw[i].v = Nul <=> i = Len(raw)

\* validate_name: no component of dots followed by a slash
validate_name(s) == \A i \in 1..Len(s)-1 : ~(s[i] = Dots /\ s[i + 1] = Slash)

LastSlash(s) == CHOOSE i \in 0..Len(s) :
  /\ i = 0 \/ s[i] = Slash
  /\ \A j \in i+1..Len(s) : s[j] # Slash

\* a path as the file system takes it
Path(s) == IF s # <<>> /\ s[Len(s)] = Slash THEN Front(s) ELSE s
DirOf(s) == SubSeq(s, 1, LastSlash(Path(s)) - 1)
InDir(s) == LastSlash(Path(s)) = 0
            \/ (DirOf(s) \in DOMAIN out /\ out[DirOf(s)].t = "dir")
With(s, e) == [p \in DOMAIN out \union {s} |-> IF p = s THEN e ELSE out[p]]

\* remove_existing and O_EXCL, or symlinkat: a directory cannot be replaced
CanMake(s) == InDir(s) /\ Dots \notin Range(s)
              /\ (s \in DOMAIN out => out[s].t # "dir")

\* extract_file, write_cached, extract_link, copy_cached, read_content: the
\* contents are first what the window has, then read past it
Contents(c, size) ==
  LET block == Least(size, HLEN)
      cached == Tailing(c, block)
  IN [data |-> cached \o Streamed(c, size - Len(cached)),
      c |-> stream_rest(grab_cached(c, block), size - Len(cached))]

\* skip_file
skip_file(c, size) == Contents(c, align4(size)).c

EndAs(j) == job' = j /\ UNCHANGED <<given, arc, out, ctx, names>>

\* ctx->skip in extract_single_entry
skip_left(size) == align4(size) - size

\* extract_single_entry
extract_entry(h, c, s) ==
  LET size == parse_size(h.filesize)
      b == Contents(c, size)
      go(o, d) == /\ out' = o /\ ctx' = [d EXCEPT !.skip = skip_left(size)]
                  /\ UNCHANGED <<job, given, arc, names>>
  IN IF ~validate_name(s) THEN EndAs("failed")
     ELSE CASE h.mode \in {"file", "link"} ->
                 IF CanMake(s)
                 THEN go(With(s, [t |-> h.mode, data |-> b.data]), b.c)
                 ELSE EndAs("failed")
            [] h.mode = "dir" ->
                 IF Path(s) \in DOMAIN out THEN go(out, c)
                 ELSE IF InDir(s)
                 THEN go(With(Path(s), [t |-> "dir", data |-> <<>>]), c)
                 ELSE EndAs("failed")
            [] OTHER -> go(out, c)

\* list_single_entry
list_entry(h, c, s) ==
  /\ names' = Append(names, s)
  /\ ctx' = skip_file(c, parse_size(h.filesize))
  /\ UNCHANGED <<job, given, arc, out>>

\* extract_entries, read_list_entries
ReadEntry ==
  /\ job \in {"extract", "list"}
  /\ LET r == read_head(ctx)
         h == r.c.win[r.at]
         n == read_name(r.c, parse_size(h.namesize))
         s == [i \in 1..Len(n.raw)-1 |-> n.raw[i].v]
     IN IF r.got = 0 THEN EndAs("done")
        ELSE IF r.got < r.need THEN EndAs("failed")
        ELSE IF h.k # "h" THEN EndAs("failed")
        ELSE IF ~n.ok \/ ~IsName(n.raw) THEN EndAs("failed")
        ELSE IF s = TRAILER THEN EndAs("done")
        ELSE IF job = "extract" THEN extract_entry(h, n.c, s)
        ELSE list_entry(h, n.c, s)

--------------------------------------------------------------------------
ctx0 == [pref |-> <<>>, plen |-> 0, skip |-> 0, stack |-> <<>>,
         line |-> 1, spaces |-> FALSE]

Init ==
  /\ \/ \E t \in Trees, o \in Outs :
          given = [cmd |-> "create", tree |-> t, list |-> <<>>, out |-> o]
     \/ \E l \in Lists, o \in Outs :
          given = [cmd |-> "pack", tree |-> << >>, list |-> l, out |-> o]
  /\ job = given.cmd
  /\ arc = <<>> /\ names = <<>>
  /\ out = given.out
  /\ ctx = IF job = "pack" THEN ctx0
           ELSE [ctx0 EXCEPT !.stack =
                   <<[pref |-> <<>>, rest |-> Sorted(<<>>)]>>]

Next ==
  \/ process_entry \/ leave_directory \/ CreateEnd
  \/ parse_input \/ PackEnd
  \/ Open \/ ReadEntry

Spec == Init /\ [][Next]_cpio_vars

--------------------------------------------------------------------------
Tree == given.tree
Named(s) == IF Tree[s].t = "dir" THEN s \o <<Slash>> ELSE s
Stuck(s, t) == s \in DOMAIN given.out /\ (given.out[s].t = "dir") # (t = "dir")

\* what create packed comes out of the archive as it was, nothing else of
\* the directory extracted to changes, and only something in the way there,
\* or a tree that is too deep, makes it fail
CreateRoundTrip ==
  /\ job = "done" /\ names = <<>> =>
       /\ \A s \in DOMAIN Tree : s \in DOMAIN out
            /\ out[s].t = Tree[s].t
            /\ Tree[s].t # "dir" => out[s].data = Body(s, Tree[s].size)
       /\ \A s \in DOMAIN out : s \notin DOMAIN Tree =>
            s \in DOMAIN given.out /\ out[s] = given.out[s]
  /\ job = "done" /\ names # <<>> =>
       /\ IsInjective(names) /\ Range(names) = {Named(s) : s \in DOMAIN Tree}
  /\ job = "failed" =>
       \/ \E s \in DOMAIN Tree : Stuck(s, Tree[s].t)
       \/ \E s \in DOMAIN Tree : Tree[s].t = "dir"
            /\ Cardinality({i \in DOMAIN s : s[i] = Slash}) >= MAXDEPTH

Lines == given.list
PrefixOf(i) ==
  LET ks == {k \in 1..i : Lines[k].key = "path"}
      l == Lines[CHOOSE k \in ks : \A j \in ks : j <= k]
  IN IF ks = {} THEN <<>>
     ELSE Str(l.name) \o <<Slash>>
            \o (IF l.path = 0 THEN <<>> ELSE Str(l.path) \o <<Slash>>)
LineName(i) == IF Lines[i].key = "path" THEN PrefixOf(i)
               ELSE PrefixOf(i) \o Str(Lines[i].name)
LineSize(i) == IF Lines[i].key = "link" THEN Lines[i].path
               ELSE Sizes[Lines[i].path]
Packed == SelectSeq([i \in 1..Len(Lines) |-> i],
                    LAMBDA i : Lines[i].key # "empty")

\* every line of a list is packed, in the directory of the last path line
\* before it, and a name given twice comes out as the last one; no line
\* ends in spaces
PackRoundTrip ==
  /\ job = "done" /\ names # <<>> =>
       names = [i \in 1..Len(Packed) |-> LineName(Packed[i])]
  /\ job = "done" /\ names = <<>> =>
       \A i \in Range(Packed) :
         \/ Path(LineName(i)) \in DOMAIN out
            /\ Lines[i].key # "path" =>
                 out[LineName(i)].data = Body(Str(Lines[i].path), LineSize(i))
         \/ \E j \in Range(Packed) : j > i /\ LineName(j) = LineName(i)
  /\ job = "failed" =>
       \/ \E i \in Range(Packed) :
            LET s == LineName(i) IN
              \/ Dots \in Range(s)
              \/ Stuck(Path(s), IF Lines[i].key = "path" THEN "dir" ELSE "file")
              \/ Lines[i].key = "path" /\ Lines[i].path # 0
              \/ \E j \in Range(Packed) :
                   Path(LineName(j)) = Path(s) /\ LineName(j) # s

\* what is packed is what is extracted and listed, wherever the window's
\* end falls and however the contents are padded, and nothing is ever
\* made outside the directory given to extract
CpioSafe ==
  /\ \A s \in DOMAIN out : Dots \notin Range(s)
  /\ given.cmd = "create" => CreateRoundTrip
  /\ given.cmd = "pack" /\ (\A i \in DOMAIN Lines : ~Lines[i].trail)
       => PackRoundTrip
====
