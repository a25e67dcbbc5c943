------------------------------- MODULE Trees -------------------------------
(* Tools that walk a tree of directories: find and delete. *)
EXTENDS Integers, Sequences, FiniteSets

(***************************************************************************)
(* find walks a tree and prints the files that match, sorted, keeping only *)
(* the lists of the directories it is in: the list of a directory, and the *)
(* index that sorts it, lie on a heap above those of its parents.          *)
(***************************************************************************)
CONSTANTS Trees    \* directory -> its entries, [name, t: "dir", "file", "other" (no match), "unknown"]

VARIABLES
  tree, closed,    \* (external) the tree, and the directories that do not open
  heap,    \* entries and indexes, up to tc->ptr
  dirs,    \* the struct dir of every scan_dir running: [dir, ents, count, idx, i]
  out,     \* what has been printed
  st       \* "run", "done", "failed"

find_vars == <<tree, closed, heap, dirs, out, st>>

\* check_dent, check_file: directories and what matches; the type must be known
Queued(d) == SelectSeq(tree[d], LAMBDA e : e.t \in {"dir", "file"})
Unknown(d) == \E i \in DOMAIN tree[d] : tree[d][i].t = "unknown"

\* index_entries: places of the entries on the heap, by name
Sorted(h, ents, count) ==
  CHOOSE s \in [1..count -> ents..(ents + count - 1)] :
    \A i, j \in 1..count : i < j => h[s[i]].name < h[s[j]].name

\* mutant of scan_dir
scan_dir_unsorted(d) ==
  LET q == Queued(d) IN
  /\ heap' = heap \o q \o [i \in 1..Len(q) |-> [name |-> 0, t |-> "index"]]
  /\ dirs' = Append(dirs, [dir |-> d, ents |-> Len(heap) + 1, count |-> Len(q), i |-> 1,
                           idx |-> [i \in 1..Len(q) |-> Len(heap) + i]])

scan_dir(d) ==
  LET q == Queued(d)
      h == heap \o q
      ix == Sorted(h, Len(heap) + 1, Len(q))
  IN  /\ heap' = h \o [i \in 1..Len(q) |-> [name |-> 0, t |-> "index"]]
      /\ dirs' = Append(dirs, [dir |-> d, ents |-> Len(heap) + 1, count |-> Len(q), idx |-> ix, i |-> 1])

Start ==
  /\ st = "start"
  /\ IF <<>> \in closed THEN st' = "done" /\ UNCHANGED <<heap, dirs>>
     ELSE IF Unknown(<<>>) THEN st' = "failed" /\ UNCHANGED <<heap, dirs>>
     ELSE st' = "run" /\ scan_dir(<<>>)
  /\ UNCHANGED <<tree, closed, out>>

\* the heap goes back to where it was
Leave(stack) ==
  LET top == stack[Len(stack)] IN
  /\ heap' = SubSeq(heap, 1, top.ents - 1)
  /\ dirs' = IF Len(stack) = 1 THEN <<>>
             ELSE [SubSeq(stack, 1, Len(stack) - 1) EXCEPT ![Len(stack) - 1].i = @ + 1]
  /\ st' = IF Len(stack) = 1 THEN "done" ELSE "run"

print_indexed ==
  /\ st = "run"
  /\ LET n == Len(dirs)
         top == dirs[n]
     IN  IF top.i > top.count THEN Leave(dirs) /\ UNCHANGED out
         ELSE LET e == heap[top.idx[top.i]]
                  path == Append(top.dir, e.name)
              IN  IF e.t # "dir"
                  THEN /\ out' = Append(out, path)
                       /\ dirs' = [dirs EXCEPT ![n].i = @ + 1]
                       /\ UNCHANGED <<heap, st>>
                  ELSE IF path \in closed \/ path \notin DOMAIN tree
                  THEN dirs' = [dirs EXCEPT ![n].i = @ + 1] /\ UNCHANGED <<heap, out, st>>
                  ELSE IF Unknown(path) THEN st' = "failed" /\ UNCHANGED <<heap, dirs, out>>
                  ELSE scan_dir(path) /\ UNCHANGED <<out, st>>
  /\ UNCHANGED <<tree, closed>>

FindInit ==
  /\ tree \in Trees
  /\ closed \in {s \in SUBSET DOMAIN tree : Cardinality(s) <= 1}
  /\ heap = <<>> /\ dirs = <<>> /\ out = <<>>
  /\ st = "start"

FindNext == Start \/ print_indexed

FindSpec == FindInit /\ [][FindNext]_find_vars

(***************************************************************************)
(* Properties                                                              *)
(***************************************************************************)
Ancestors(p) == {SubSeq(p, 1, n) : n \in 0..(Len(p) - 1)}
Matching ==
  UNION {{Append(d, e.name) : e \in {tree[d][i] : i \in {j \in DOMAIN tree[d] : tree[d][j].t = "file"}}} :
           d \in DOMAIN tree}
Reached == {p \in Matching : Ancestors(p) \cap closed = {}}
Before(p, q) ==
  \E n \in 1..Len(p) : n <= Len(q) /\ SubSeq(p, 1, n - 1) = SubSeq(q, 1, n - 1) /\ p[n] < q[n]

\* What find prints is in order, directory by directory, and in the end every matching
\* file below directories that could be opened has been printed, once: the list of a
\* directory outlives the scans of its subdirectories, which use the heap above it.
FoundOnce ==
  /\ \A i, j \in DOMAIN out : i < j => Before(out[i], out[j])
  /\ \A i \in DOMAIN out : out[i] \in Reached
  /\ st = "done" => {out[i] : i \in DOMAIN out} = Reached

(***************************************************************************)
(* delete: each argument is unlinked; what turns out to be a directory is  *)
(* entered, its entries deleted, and then removed, staying on the file     *)
(* system of the argument.  Somebody else may add entries meanwhile.       *)
(***************************************************************************)
CONSTANTS
  Nodes,     \* what there is; 0 is the root directory
  ADDED      \* bound on the entries others make

VARIABLES
  fs,        \* the file system (external): [up, dir, dev, stuck, live, added, types]
  opts,      \* [n, f, x, d, Z]
  del        \* [args, i, stack, state, failed]

del_vars == <<fs, opts, del>>

Opts == [n : BOOLEAN, f : BOOLEAN, x : BOOLEAN, d : BOOLEAN, Z : BOOLEAN]
Root == 0

Entries(i) == {j \in fs.live : j # Root /\ fs.up[j] = i}
Mounted(i) == i = Root \/ fs.dev[i] # fs.dev[fs.up[i]]

RECURSIVE Over(_)
Over(i) == IF i = Root THEN {Root} ELSE {i} \cup Over(fs.up[i])

Top == del.stack[Len(del.stack)]
Under(i) == i \in fs.live /\ (i = Root \/ fs.up[i] \in fs.live)

\* a frame: the entry to delete, what getdents said of it, whether it was entered, the
\* entries still to be read
Frame(i, type) == [node |-> i, type |-> type, at |-> "unlink", rest |-> {}, sdev |-> 0]

Pop(d) == [d EXCEPT !.stack = SubSeq(@, 1, Len(@) - 1)]

failat == IF opts.f THEN [Pop(del) EXCEPT !.failed = TRUE] ELSE [del EXCEPT !.stack = <<>>, !.failed = TRUE, !.state = "failed"]

To(at) == [del EXCEPT !.stack[Len(del.stack)].at = at]

\* main: the next argument
NextArg ==
  /\ del.state = "running" /\ del.stack = <<>>
  /\ del' = IF del.i = Len(del.args) THEN [del EXCEPT !.state = "exited"]
            ELSE [del EXCEPT !.i = @ + 1, !.stack = <<Frame(del.args[del.i + 1], "unknown")>>]
  /\ UNCHANGED <<fs, opts>>

\* delete: unlinkat, and with EISDIR the way of a directory
delete ==
  /\ del.stack # <<>> /\ Top.at = "unlink"
  /\ IF opts.d THEN del' = To("rmdir") /\ fs' = fs
     ELSE IF Top.type = "dir" \/ (Under(Top.node) /\ fs.dir[Top.node])
          THEN del' = To(IF opts.n THEN "rmdir" ELSE "enter") /\ fs' = fs
     ELSE IF Under(Top.node) /\ Top.node \notin fs.stuck
          THEN del' = Pop(del) /\ fs' = [fs EXCEPT !.live = @ \ {Top.node}]
     ELSE del' = failat /\ fs' = fs
  /\ UNCHANGED opts

\* mutant of check_xdev: where it is comes from the directory above
check_xdev_up(i, top, sdev) ==
  IF ~opts.Z /\ i = Root THEN "fail"
  ELSE IF top \/ opts.x \/ fs.dev[fs.up[i]] = sdev THEN "go" ELSE "skip"

\* the root directory ends it all; another file system is left alone
check_xdev(i, top, sdev) ==
  IF ~opts.Z /\ i = Root THEN "fail"
  ELSE IF top \/ opts.x \/ fs.dev[i] = sdev THEN "go" ELSE "skip"

enter ==
  /\ del.stack # <<>> /\ Top.at = "enter"
  /\ LET k == Len(del.stack)
         sdev == IF k = 1 THEN fs.dev[Top.node] ELSE Top.sdev
         ck == check_xdev(Top.node, k = 1, sdev)
     IN  del' = IF ~(Under(Top.node) /\ fs.dir[Top.node]) THEN [failat EXCEPT !.stack = IF opts.f THEN To("rmdir").stack ELSE <<>>]
                ELSE IF ck = "fail" THEN [del EXCEPT !.stack = <<>>, !.failed = TRUE, !.state = "failed"]
                ELSE IF ck = "skip" THEN To("rmdir")
                ELSE [del EXCEPT !.stack[k].at = "read", !.stack[k].rest = Entries(Top.node), !.stack[k].sdev = sdev]
  /\ UNCHANGED <<fs, opts>>

\* getdents' next entry, or the end of the directory
read_entry ==
  /\ del.stack # <<>> /\ Top.at = "read"
  /\ LET k == Len(del.stack) IN
     \/ /\ Top.rest = {} /\ del' = To("rmdir")
     \/ \E j \in Top.rest : 
          LET type == IF ~fs.types THEN "unknown" ELSE IF fs.dir[j] THEN "dir" ELSE "file"
          IN  del' = [del EXCEPT !.stack = [@ EXCEPT ![k].rest = @ \ {j}] \o <<[Frame(j, type) EXCEPT !.sdev = Top.sdev]>>]
  /\ UNCHANGED <<fs, opts>>

rmd ==
  /\ del.stack # <<>> /\ Top.at = "rmdir"
  /\ IF Under(Top.node) /\ fs.dir[Top.node] /\ ~Mounted(Top.node) /\ Entries(Top.node) = {} /\ Top.node \notin fs.stuck
     THEN del' = Pop(del) /\ fs' = [fs EXCEPT !.live = @ \ {Top.node}]
     ELSE del' = failat /\ fs' = fs
  /\ UNCHANGED opts

\* somebody else makes a file again that was deleted
Added ==
  /\ del.state = "running" /\ Cardinality(fs.added) < ADDED
  /\ \E j \in Nodes \ fs.live : fs.up[j] \in fs.live /\ ~fs.dir[j]
       /\ fs' = [fs EXCEPT !.live = @ \cup {j}, !.added = @ \cup {j}]
  /\ UNCHANGED <<opts, del>>

DelInit ==
  /\ \E up \in [Nodes -> Nodes], dir \in SUBSET Nodes, mnt, stuck \in SUBSET (Nodes \ {Root}), types \in BOOLEAN :
       /\ up[Root] = Root /\ Root \in dir /\ Cardinality(mnt) <= 1 /\ Cardinality(stuck) + Cardinality(mnt) <= 1
       /\ \A i \in Nodes \ {Root} : up[i] < i /\ up[i] \in dir
       /\ mnt \subseteq dir
       /\ fs = [up |-> up, dir |-> [i \in Nodes |-> i \in dir], stuck |-> stuck, live |-> Nodes, added |-> {}, types |-> types,
                dev |-> [i \in Nodes |-> IF \E m \in mnt : i = m \/ up[i] = m \/ up[up[i]] = m THEN 1 ELSE 0]]
  /\ opts \in {o \in Opts : (o.Z => o.f) /\ (o.n \/ o.d => ~o.x /\ ~o.Z /\ ~(o.n /\ o.d))}
  /\ \E args \in {<<0>>, <<1>>, <<1, 2>>} :
       del = [args |-> args, i |-> 0, stack |-> <<>>, state |-> "running", failed |-> FALSE]

DelNext == NextArg \/ delete \/ enter \/ read_entry \/ rmd \/ Added

DelSpec == DelInit /\ [][DelNext]_del_vars

\* in the tree of an argument, on the argument's file system
Deleting(i) ==
  \E k \in DOMAIN del.args : /\ del.args[k] \in Over(i)
                             /\ opts.x \/ fs.dev[i] = fs.dev[del.args[k]]

\* delete: nothing goes that is not in the tree of an argument, nothing on another file
\* system unless -x is given, and never the root directory.
StaysInside == \A i \in Nodes \ fs.live : i # Root /\ Deleting(i)

\* delete -f, and delete that reports nothing: what could go has gone; what is left in an
\* argument's tree cannot be removed, was added by others, or holds something that is left.
DeletesAll ==
  del.state = "exited" /\ ~opts.n /\ ~opts.d =>
    \A i \in fs.live :
      Deleting(i) => \/ i \in fs.stuck \cup fs.added \/ Mounted(i)
                    \/ Entries(i) # {} \/ \E j \in fs.added : i \in Over(j)

\* delete: without -f the first failure ends it, and success means the arguments are gone
SaysSo ==
  del.state = "exited" /\ ~del.failed =>
    \A k \in DOMAIN del.args : del.args[k] \in fs.live => del.args[k] \in fs.added
=============================================================================
