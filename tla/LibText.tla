------------------------------ MODULE LibText ------------------------------
(* Strings, numbers and sizes: lib/string and lib/format. *)
EXTENDS Integers, Sequences, SequencesExt, FiniteSets

(***************************************************************************)
(* The library's routines on memory and strings, and the small helpers     *)
(* built on them: each as the loop it is, against what it is for.          *)
(* A string is the sequence of its characters; the byte after the last one *)
(* is 0, and what lies beyond it is OVER, which no routine may look at.    *)
(***************************************************************************)
CONSTANTS
  Chars,      \* characters, positive numbers
  Digits,     \* the numeric ones
  MAXLEN,     \* longest string
  Cases       \* routines to check

VARIABLES
  in,         \* the call: [f, a, b, n]
  out         \* what it returned, <<>> before

str_vars == <<in, out>>

OVER == 1000
Ch(s, i) == IF i \in DOMAIN s THEN s[i] ELSE IF i = Len(s) + 1 THEN 0 ELSE OVER
NULL == 0

RECURSIVE memcmp(_, _, _, _)
memcmp(a, b, i, len) ==
  IF len = 0 THEN 0 ELSE IF a[i] # b[i] THEN a[i] - b[i] ELSE memcmp(a, b, i + 1, len - 1)

\* n bytes of memory m, from src on, to dst: upwards or downwards
RECURSIVE Up(_, _, _, _)
Up(m, d, s, n) == IF n = 0 THEN m ELSE Up([m EXCEPT ![d] = m[s]], d + 1, s + 1, n - 1)
RECURSIVE Down(_, _, _, _)
Down(m, d, s, n) == IF n = 0 THEN m ELSE Down([m EXCEPT ![d] = m[s]], d - 1, s - 1, n - 1)
memcpy(m, d, s, n) == Up(m, d, s, n)

\* mutant of memmove
memmove_up(m, d, s, n) == memcpy(m, d, s, n)

memmove(m, d, s, n) ==
  IF d < s THEN memcpy(m, d, s, n) ELSE IF d = s THEN m ELSE Down(m, d + n - 1, s + n - 1, n)

RECURSIVE strcmp_at(_, _, _)
strcmp_at(a, b, i) ==
  IF Ch(a, i) # 0 /\ Ch(a, i) = Ch(b, i) THEN strcmp_at(a, b, i + 1) ELSE Ch(a, i) - Ch(b, i)
strcmp(a, b) == strcmp_at(a, b, 1)

\* mutant of strcmpn_at
strcmpn_ncmp(a, b, i, n) ==
  LET e == CHOOSE k \in i..(n + 1) : (k > n \/ Ch(a, k) # Ch(b, k) \/ Ch(a, k) = 0) /\ \A j \in i..(k - 1) : Ch(a, j) = Ch(b, j) /\ Ch(a, j) # 0
  IN  IF e > n THEN 0 ELSE Ch(a, e) - Ch(b, e)

\* a is char[n], b a string
RECURSIVE strcmpn_at(_, _, _, _)
strcmpn_at(a, b, i, n) ==
  IF i > n THEN 0 - Ch(b, i)
  ELSE LET d == Ch(a, i) - Ch(b, i) IN IF d # 0 \/ Ch(a, i) = 0 THEN d ELSE strcmpn_at(a, b, i + 1, n)

RECURSIVE strncmp_at(_, _, _, _)
strncmp_at(a, b, i, n) ==
  IF Ch(a, i) # 0 /\ n - 1 > 0 /\ Ch(a, i) = Ch(b, i) THEN strncmp_at(a, b, i + 1, n - 1) ELSE Ch(a, i) - Ch(b, i)
strncmp(a, b, n) == IF n = 0 THEN 0 ELSE strncmp_at(a, b, 1, n)

RECURSIVE numrun(_, _)
numrun(s, i) == IF Ch(s, i) \in Digits THEN 1 + numrun(s, i + 1) ELSE 0

RECURSIVE Common(_, _, _)
Common(a, b, i) == IF Ch(a, i) # 0 /\ Ch(b, i) # 0 /\ Ch(a, i) = Ch(b, i) THEN Common(a, b, i + 1) ELSE i

natcmp(a, b) ==
  LET i == Common(a, b, 1)  na == numrun(a, i)  nb == numrun(b, i)
  IN  IF na > 0 /\ nb > 0 /\ na # nb THEN na - nb ELSE Ch(a, i) - Ch(b, i)

RECURSIVE strchr_at(_, _, _)
strchr_at(s, c, i) == IF Ch(s, i) = 0 THEN NULL ELSE IF Ch(s, i) = c THEN i ELSE strchr_at(s, c, i + 1)
RECURSIVE strcbrk_at(_, _, _)
strcbrk_at(s, c, i) == IF Ch(s, i) # 0 /\ Ch(s, i) # c THEN strcbrk_at(s, c, i + 1) ELSE i
RECURSIVE strecbrk(_, _, _, _)
strecbrk(s, p, e, c) == IF p < e /\ Ch(s, p) # c THEN strecbrk(s, p + 1, e, c) ELSE p
RECURSIVE strerev(_, _, _, _)
strerev(s, p, z, c) == IF z > p /\ Ch(s, z - 1) # c THEN strerev(s, p, z - 1, c) ELSE z
RECURSIVE strnlen_at(_, _, _)
strnlen_at(s, i, max) == IF i <= max /\ Ch(s, i) # 0 THEN strnlen_at(s, i + 1, max) ELSE i - 1
strlen(s) == strnlen_at(s, 1, OVER)

\* how far sub agrees with str from p on
RECURSIVE Agrees(_, _, _, _)
Agrees(str, sub, p, q) == IF Ch(sub, q) # 0 /\ Ch(sub, q) = Ch(str, p) THEN Agrees(str, sub, p + 1, q + 1) ELSE q
RECURSIVE strstr_at(_, _, _)
strstr_at(str, sub, p) ==
  IF Ch(str, p) = 0 THEN NULL ELSE IF Ch(sub, Agrees(str, sub, p, 1)) = 0 THEN p ELSE strstr_at(str, sub, p + 1)

strnstr(str, sub, len) ==
  LET hits == {p \in 1..(1 + len - strlen(sub)) : Ch(sub, Agrees(str, sub, p, 1)) = 0}
  IN  IF hits = {} THEN NULL ELSE CHOOSE p \in hits : \A q \in hits : p <= q

\* util: basename ('/' is character 1), getenv ('=' is 1), argbits
RECURSIVE basename_at(_, _, _)
basename_at(s, p, q) == IF Ch(s, p) = 0 THEN q ELSE basename_at(s, p + 1, IF Ch(s, p) = 1 THEN p + 1 ELSE q)

getenv(env, key) ==
  LET hits == {i \in DOMAIN env : strncmp(env[i], key, strlen(key)) = 0 /\ Ch(env[i], strlen(key) + 1) = 1}
  IN  IF hits = {} THEN <<NULL>> ELSE LET i == CHOOSE i \in hits : \A j \in hits : i <= j IN <<i, strlen(key) + 2>>

\* the indexes of the options in key; an unknown one ends the program
argbits(key, arg) ==
  LET Index(c) == LET k == strcbrk_at(key, c, 1) IN k
  IN  IF \E i \in DOMAIN arg : Ch(key, Index(arg[i])) = 0 THEN {NULL} ELSE {Index(arg[i]) : i \in DOMAIN arg}

Strings == UNION {[1..n -> Chars] : n \in 0..MAXLEN}

Result(i) ==
  CASE i.f = "memcmp" -> <<memcmp(i.a, i.b, 1, Len(i.a))>>
    [] i.f = "memmove" -> memmove(i.a, i.b[1], i.b[2], i.n)
    [] i.f = "strcmp" -> <<strcmp(i.a, i.b)>>
    [] i.f = "strcmpn" -> <<strcmpn_at(i.a, i.b, 1, i.n)>>
    [] i.f = "strncmp" -> <<strncmp(i.a, i.b, i.n)>>
    [] i.f = "natcmp" -> <<natcmp(i.a, i.b)>>
    [] i.f = "strchr" -> <<strchr_at(i.a, i.n, 1), strcbrk_at(i.a, i.n, 1), strecbrk(i.a, 1, Len(i.a) + 1, i.n),
                           strerev(i.a, 1, Len(i.a) + 1, i.n), strnlen_at(i.a, 1, i.n)>>
    [] i.f = "strstr" -> <<strstr_at(i.a, i.b, 1), strnstr(i.a, i.b, i.n)>>
    [] i.f = "basename" -> <<basename_at(i.a, 1, 1)>>
    [] i.f = "getenv" -> getenv(<<i.a, i.b>>, i.n)
    [] OTHER -> <<argbits(i.a, i.b)>>

StrInit ==
  /\ out = <<>>
  /\ \E f \in Cases, a, b \in Strings :
       \/ f \in {"strcmp", "natcmp"} /\ in = [f |-> f, a |-> a, b |-> b, n |-> 0]
       \/ f = "basename" /\ b = <<>> /\ in = [f |-> f, a |-> a, b |-> b, n |-> 0]
       \/ f = "argbits" /\ Len(b) < MAXLEN /\ in = [f |-> f, a |-> a, b |-> b, n |-> 0]
       \/ f = "memcmp" /\ Len(a) = Len(b) /\ in = [f |-> f, a |-> a, b |-> b, n |-> 0]
       \/ f \in {"strcmpn", "strncmp"} /\ Len(b) < MAXLEN /\ \E n \in 0..MAXLEN : in = [f |-> f, a |-> a, b |-> b, n |-> n]
       \/ f = "strchr" /\ b = <<>> /\ \E n \in Chars : in = [f |-> f, a |-> a, b |-> b, n |-> n]
       \/ f = "strstr" /\ Len(b) < MAXLEN /\ \E n \in 0..Len(a) : in = [f |-> f, a |-> a, b |-> b, n |-> n]
       \/ f = "getenv" /\ Len(b) < MAXLEN /\ \E n \in UNION {[1..k -> Chars \ {1}] : k \in 0..2} : in = [f |-> f, a |-> a, b |-> b, n |-> n]
       \/ f = "memmove" /\ b = <<>> /\ \E n \in 0..Len(a), d, s \in 1..MAXLEN :
            d + n <= Len(a) + 1 /\ s + n <= Len(a) + 1 /\ in = [f |-> f, a |-> a, b |-> <<d, s>>, n |-> n]

Call == out = <<>> /\ out' = <<Result(in)>> /\ UNCHANGED in

StrNext == Call

StrSpec == StrInit /\ [][StrNext]_str_vars

(***************************************************************************)
(* What the routines are for                                               *)
(***************************************************************************)
Sign(n) == IF n < 0 THEN -1 ELSE IF n > 0 THEN 1 ELSE 0
First(set) == IF set = {} THEN NULL ELSE CHOOSE p \in set : \A q \in set : p <= q
Less(a, b) == \E i \in 0..Len(a) : /\ \A j \in 1..i : j \in DOMAIN b /\ a[j] = b[j]
                                   /\ (i = Len(a) /\ Len(b) > i) \/ (i < Len(a) /\ i < Len(b) /\ a[i + 1] < b[i + 1])
Order(a, b) == IF a = b THEN 0 ELSE IF Less(a, b) THEN -1 ELSE 1
Cut(s, n) == SubSeq(s, 1, IF Len(s) < n THEN Len(s) ELSE n)
\* a name that ends in its number, and that number
Stem(s) == LET d == {i \in 0..Len(s) : \A j \in (i + 1)..Len(s) : s[j] \in Digits} IN SubSeq(s, 1, First(d))
Numbered(s) == \A i \in 1..Len(Stem(s)) : s[i] \notin Digits
Number(s) == SubSeq(s, Len(Stem(s)) + 1, Len(s))

\* Every routine returns what it is for, and none looks past the end of a string: the
\* comparisons order strings the way their bytes do, up to n of them where n is given;
\* strcmpn compares a padded field with a whole string; memmove copies as if through
\* another buffer, however source and destination overlap; the searches find the first or
\* the last place there is; getenv takes no variable of which the name is only a prefix;
\* natcmp orders names that differ in a number by that number.
TextRight ==
  out # <<>> =>
    LET a == in.a  b == in.b  n == in.n  r == out[1]
    IN  CASE in.f = "memcmp" -> Sign(r[1]) = Order(a, b)
          [] in.f = "memmove" -> r = [i \in DOMAIN a |-> IF i >= b[1] /\ i < b[1] + n THEN a[b[2] + i - b[1]] ELSE a[i]]
          [] in.f = "strcmp" -> Sign(r[1]) = Order(a, b)
          [] in.f = "strcmpn" -> (r[1] = 0) = (Cut(a, n) = b)
          [] in.f = "strncmp" -> Sign(r[1]) = Order(Cut(a, n), Cut(b, n))
          [] in.f = "natcmp" -> /\ r[1] = 0 <=> a = b
                                /\ Sign(natcmp(b, a)) = 0 - Sign(r[1])
                                /\ Numbered(a) /\ Numbered(b) /\ Stem(a) = Stem(b) /\ Len(Number(a)) # Len(Number(b)) =>
                                     (r[1] < 0 <=> Len(Number(a)) < Len(Number(b)))
          [] in.f = "strchr" -> /\ r[1] = First({i \in DOMAIN a : a[i] = n})
                                /\ r[2] = IF r[1] = NULL THEN Len(a) + 1 ELSE r[1]
                                /\ r[3] = r[2]
                                /\ r[4] = 1 + Cardinality(IF r[1] = NULL THEN {} ELSE 1..(CHOOSE i \in DOMAIN a : a[i] = n /\ \A j \in (i + 1)..Len(a) : a[j] # n))
                                /\ r[5] = Len(Cut(a, n))
          [] in.f = "strstr" ->
               LET hits(len) == {p \in 1..(1 + len - Len(b)) : SubSeq(a, p, p + Len(b) - 1) = b}
               IN  (a # <<>> => r[1] = First(hits(Len(a)))) /\ r[2] = First(hits(n))
          [] in.f = "basename" -> /\ \A i \in r[1]..Len(a) : a[i] # 1
                                  /\ r[1] > 1 => a[r[1] - 1] = 1
          [] in.f = "getenv" ->
               LET env == <<a, b>>  set == {i \in 1..2 : Len(env[i]) > Len(n) /\ SubSeq(env[i], 1, Len(n)) = n /\ env[i][Len(n) + 1] = 1}
               IN  r = IF set = {} THEN <<NULL>> ELSE <<First(set), Len(n) + 2>>
          [] OTHER -> r[1] = IF \E i \in DOMAIN b : b[i] \notin Range(a) THEN {NULL}
                             ELSE {First({k \in DOMAIN a : a[k] = b[i]}) : i \in DOMAIN b}

(***************************************************************************)
(* The fmt* and parse* routines of the library.  Text is put together in a *)
(* fixed buffer by a chain of calls, each taking the pointer the one       *)
(* before it has returned and the end of the buffer; what does not fit is  *)
(* to be cut, in whichever call it happens.                                *)
(***************************************************************************)
CONSTANTS
  Items,       \* what may be formatted: [t, v, w, pad]
  Caps,        \* sizes of the buffer
  MAXITEMS     \* calls in a chain

VARIABLES
  mem,         \* the buffer and what follows it
  p, e,        \* the pointer and the end of the buffer, 0-based
  want,        \* the whole text, whatever fits
  past,        \* a routine that does not look at the end has gone past it
  left         \* calls to come

fmt_vars == <<mem, p, e, want, past, left>>

SLACK == 12
Put(m, i, c) == IF i < 0 \/ i >= Len(m) THEN m ELSE [m EXCEPT ![i + 1] = c]
Least(a, b) == IF a < b THEN a ELSE b
\* characters: digits and others
Dg(n) == <<"d", n>>
C(c) == <<"c", c>>
RECURSIVE DigitsOf(_, _)
DigitsOf(n, base) == IF n < base THEN <<Dg(n)>> ELSE Append(DigitsOf(n \div base, base), Dg(n % base))
Repeat(c, n) == [i \in 1..n |-> c]

\* a result: memory and the pointer returned
Res(m, q) == [m |-> m, q |-> q]

fmtchar(m, a, c) == IF a < e THEN Res(Put(m, a, c), a + 1) ELSE Res(m, a)

RECURSIVE fmtraw_at(_, _, _)
fmtraw_at(m, a, s) == IF s = <<>> THEN m ELSE fmtraw_at(Put(m, a, Head(s)), a + 1, Tail(s))
fmtraw(m, a, s) ==
  LET len == Least(Len(s), e - a)
  IN  IF len <= 0 THEN Res(m, a) ELSE Res(fmtraw_at(m, a, SubSeq(s, 1, len)), a + len)
fmtstr(m, a, s) == IF a >= e THEN Res(m, a) ELSE fmtraw(m, a, SubSeq(s, 1, Least(Len(s), e - a)))

\* digits from the last one, each where it belongs, those before the end only
RECURSIVE FromEnd(_, _, _)
FromEnd(m, at, ds) ==
  IF ds = <<>> THEN m ELSE FromEnd(IF at < e THEN Put(m, at, ds[Len(ds)]) ELSE m, at - 1, Front(ds))

\* mutant of fmtint64
fmtint64_shift(m, a, minus, num) ==
  LET ds == DigitsOf(num, 10)  n == IF a + Len(ds) + minus > e THEN e - a - minus ELSE Len(ds)
      m1 == FromEnd(m, a + n + minus - 1, ds)
  IN  Res(IF minus = 1 THEN Put(m1, a, C("-")) ELSE m1, Least(a + Len(ds) + minus, e))

fmtint64(m, a, minus, num) ==
  LET ds == DigitsOf(num, 10)  end == a + Len(ds) + minus
      m1 == FromEnd(m, end - 1, ds)
  IN  Res(IF minus = 1 THEN Put(m1, a, C("-")) ELSE m1, IF end > e THEN e ELSE end)
fmti64(m, a, n) == fmtint64(m, a, IF n < 0 THEN 1 ELSE 0, IF n < 0 THEN 0 - n ELSE n)
fmtu64(m, a, n) == fmtint64(m, a, 0, n)
fmtx64(m, a, n) == LET ds == DigitsOf(n, 16)  end == a + Len(ds) IN Res(FromEnd(m, end - 1, ds), IF end < e THEN end ELSE e)
\* these two return a pointer past the end
fmthex(m, a, n) == LET ds == DigitsOf(n, 16) IN Res(FromEnd(m, a + Len(ds) - 1, ds), a + Len(ds))
Padded(n, pad) == LET ds == DigitsOf(n, 10) IN IF Len(ds) < pad THEN Repeat(Dg(0), pad - Len(ds)) \o ds ELSE ds
fmtulp(m, a, n, pad) == LET ds == Padded(n, pad) IN Res(FromEnd(m, a + Len(ds) - 1, ds), a + Len(ds))

fmtbyte(m, a, n) == LET r == fmtchar(m, a, Dg(n \div 16)) IN fmtchar(r.m, r.q, Dg(n % 16))
RECURSIVE fmtbytes(_, _, _)
fmtbytes(m, a, l) == IF l = <<>> THEN Res(m, a) ELSE LET r == fmtbyte(m, a, Head(l)) IN fmtbytes(r.m, r.q, Tail(l))
RECURSIVE MacTail(_, _, _)
MacTail(m, a, l) ==
  IF l = <<>> THEN Res(m, a)
  ELSE LET c == fmtchar(m, a, C(":"))  b == fmtbyte(c.m, c.q, Head(l)) IN MacTail(b.m, b.q, Tail(l))
fmtmac(m, a, l) == LET r == fmtbyte(m, a, Head(l)) IN MacTail(r.m, r.q, Tail(l))
RECURSIVE IpTail(_, _, _)
IpTail(m, a, l) ==
  IF l = <<>> THEN Res(m, a)
  ELSE LET c == fmtchar(m, a, C("."))  n == fmti64(c.m, c.q, Head(l)) IN IpTail(n.m, n.q, Tail(l))
fmtip(m, a, l) == LET r == fmti64(m, a, Head(l)) IN IpTail(r.m, r.q, Tail(l))

\* fmtsize: the number, its decimal or -1, and the suffix; sizes up to 1G here
SizeParts(n0) ==
  LET sfi == IF n0 < 1024 THEN 0 ELSE IF n0 < 1048576 THEN 1 ELSE 2
      n == IF sfi = 0 THEN n0 ELSE IF sfi = 1 THEN n0 \div 1024 ELSE n0 \div 1048576
      fr == IF sfi = 0 THEN 0 ELSE IF sfi = 1 THEN n0 % 1024 ELSE (n0 \div 1024) % 1024
      tenth == ((fr * 100) \div 1024 + 5) \div 10
  IN  CASE sfi = 0 -> <<n, -1, 0>>
        [] sfi = 1 \/ n >= 10 -> <<IF fr >= 512 THEN n + 1 ELSE n, -1, sfi>>
        [] OTHER -> IF tenth >= 10 THEN <<n + 1, 0, sfi>> ELSE <<n, tenth, sfi>>
fmtsize(m, a, n0) ==
  LET s == SizeParts(n0)
      r1 == fmtu64(m, a, s[1])
      r2 == IF s[2] < 0 THEN r1 ELSE LET d == fmtchar(r1.m, r1.q, C(".")) IN fmtchar(d.m, d.q, Dg(s[2]))
  IN  IF s[3] = 0 THEN r1 ELSE fmtchar(r2.m, r2.q, IF s[3] = 1 THEN C("K") ELSE C("M"))

\* what is between a and q, to the right of a field of that width
RECURSIVE MoveUp(_, _, _, _)
MoveUp(m, z, lo, shift) ==
  IF z < lo THEN m ELSE MoveUp(IF z < e THEN Put(m, z, m[z - shift + 1]) ELSE m, z - 1, lo, shift)
Fill(m, a, n, c) == [i \in DOMAIN m |-> IF i > a /\ i <= a + n THEN c ELSE m[i]]

fmtpad(m, a, width, q) ==
  LET shift == width - (q - a)
  IN  IF q < a \/ q > e \/ shift < 0 THEN Res(m, q)
      ELSE Res(Fill(MoveUp(m, q + shift - 1, a + shift, shift), a, shift, C(" ")), q + shift)
fmtpad0(m, a, width, q) ==
  LET shift == width - (q - a)
  IN  IF shift <= 0 THEN Res(m, q)
      ELSE Res(Fill(MoveUp(m, q + shift - 1, a + shift, shift), a, shift, Dg(0)), q + shift)
RECURSIVE PadRight(_, _, _)
PadRight(m, q, t) == IF q < t /\ q < e THEN PadRight(Put(m, q, C(" ")), q + 1, t) ELSE Res(m, q)
fmtpadr(m, a, width, q) == IF q < a \/ q > e THEN Res(m, q) ELSE PadRight(m, q, a + width)

Plain(m, a, it) ==
  CASE it.t = "int" -> fmti64(m, a, it.v[1])
    [] it.t = "uint" -> fmtu64(m, a, it.v[1])
    [] it.t = "xint" -> fmtx64(m, a, it.v[1])
    [] it.t = "hex" -> fmthex(m, a, it.v[1])
    [] it.t = "ulp" -> fmtulp(m, a, it.v[1], 2)
    [] it.t = "size" -> fmtsize(m, a, it.v[1])
    [] it.t = "str" -> fmtstr(m, a, [i \in DOMAIN it.v |-> C(it.v[i])])
    [] it.t = "bytes" -> fmtbytes(m, a, it.v)
    [] it.t = "mac" -> fmtmac(m, a, it.v)
    [] it.t = "ip" -> fmtip(m, a, it.v)

\* one conversion of pprintf, or a call with a pad around it
Convert(m, a, it) ==
  LET r == Plain(m, a, it)
  IN  CASE it.pad = "none" -> r
        [] r.q - a >= it.w -> r
        [] it.pad = "0" -> fmtpad0(r.m, a, it.w, r.q)
        [] it.pad = "-" -> fmtpadr(r.m, a, it.w, r.q)
        [] OTHER -> fmtpad(r.m, a, it.w, r.q)

(***************************************************************************)
(* Parsing: <<where it stopped, the value>>, or <<>>                       *)
(***************************************************************************)
RECURSIVE Run(_, _, _, _)
Run(s, i, base, n) ==
  IF i \in DOMAIN s /\ s[i][1] = "d" /\ s[i][2] < base THEN Run(s, i + 1, base, n * base + s[i][2]) ELSE <<i, n>>
\* parseint, parseuint, parselong, parseulong, parseu64; parsehex, parsexlong; parseoct
ParseNum(s, i, base) == LET r == Run(s, i, base, 0) IN IF r[1] = i THEN <<>> ELSE r
parsebyte(s, i) ==
  IF \A j \in {i, i + 1} : j \in DOMAIN s /\ s[j][1] = "d" THEN <<i + 2, 16 * s[i][2] + s[i + 1][2]>> ELSE <<>>
RECURSIVE ParseMany(_, _, _, _, _)
ParseMany(s, i, n, sep, got) ==
  LET at == IF got # <<>> /\ sep # "" THEN i + 1 ELSE i
      r == IF sep = "." THEN ParseNum(s, at, 10) ELSE parsebyte(s, at)
  IN  IF n = 0 THEN <<i, got>>
      ELSE IF got # <<>> /\ sep # "" /\ ~(i \in DOMAIN s /\ s[i] = C(sep)) THEN <<>>
      ELSE IF r = <<>> THEN <<>>
      ELSE IF sep = "." /\ r[2] > 255 THEN <<>>
      ELSE ParseMany(s, r[1], n - 1, sep, Append(got, r[2]))
parsebytes(s, i, n) == ParseMany(s, i, n, "", <<>>)
parsemac(s, i) == ParseMany(s, i, 6, ":", <<>>)
parseip(s, i) == ParseMany(s, i, 4, ".", <<>>)

(***************************************************************************)
(* The text meant                                                          *)
(***************************************************************************)
RECURSIVE Joined(_, _)
Joined(l, sep) == IF Len(l) = 1 THEN l[1] ELSE l[1] \o sep \o Joined(Tail(l), sep)
Hex2(b) == <<Dg(b \div 16), Dg(b % 16)>>
PlainText(it) ==
  CASE it.t = "int" -> IF it.v[1] < 0 THEN <<C("-")>> \o DigitsOf(0 - it.v[1], 10) ELSE DigitsOf(it.v[1], 10)
    [] it.t = "uint" -> DigitsOf(it.v[1], 10)
    [] it.t \in {"xint", "hex"} -> DigitsOf(it.v[1], 16)
    [] it.t = "ulp" -> IF it.v[1] < 10 THEN <<Dg(0)>> \o DigitsOf(it.v[1], 10) ELSE DigitsOf(it.v[1], 10)
    [] it.t = "size" -> LET s == SizeParts(it.v[1])
                        IN  DigitsOf(s[1], 10) \o (IF s[2] >= 0 THEN <<C("."), Dg(s[2])>> ELSE <<>>)
                              \o (IF s[3] = 0 THEN <<>> ELSE IF s[3] = 1 THEN <<C("K")>> ELSE <<C("M")>>)
    [] it.t = "str" -> [i \in DOMAIN it.v |-> C(it.v[i])]
    [] it.t = "bytes" -> FlattenSeq([i \in DOMAIN it.v |-> Hex2(it.v[i])])
    [] it.t = "mac" -> Joined([i \in DOMAIN it.v |-> Hex2(it.v[i])], <<C(":")>>)
    [] it.t = "ip" -> Joined([i \in DOMAIN it.v |-> DigitsOf(it.v[i], 10)], <<C(".")>>)
Text(it) ==
  LET s == PlainText(it)  n == IF it.w > Len(s) THEN it.w - Len(s) ELSE 0
  IN  CASE it.pad = "none" -> s
        [] it.pad = "0" -> Repeat(Dg(0), n) \o s
        [] it.pad = "-" -> s \o Repeat(C(" "), n)
        [] OTHER -> Repeat(C(" "), n) \o s

Unbounded(it) == it.t \in {"hex", "ulp"} \/ it.pad \in {"0", " "}

Format ==
  /\ left > 0 /\ ~past
  /\ \E it \in Items :
       LET r == Convert(mem, p, it)
       IN  /\ mem' = r.m /\ p' = r.q
           /\ want' = want \o Text(it)
           /\ past' = (p + Len(Text(it)) > e /\ (Unbounded(it) \/ (it.t = "int" /\ it.v[1] < 0 /\ p = e)))
  /\ left' = left - 1
  /\ UNCHANGED e

FmtInit ==
  /\ \E c \in Caps : e = c /\ mem = Repeat(C("?"), c + SLACK)
  /\ p = 0 /\ want = <<>> /\ past = FALSE /\ left = MAXITEMS

FmtNext == Format

FmtSpec == FmtInit /\ [][FmtNext]_fmt_vars

(***************************************************************************)
(* Properties                                                              *)
(***************************************************************************)
Abs(n) == IF n < 0 THEN 0 - n ELSE n

\* Whatever is formatted in whatever order, the buffer has the text that was meant, from
\* its start up to where it ends, and nothing behind its end has been written, unless a
\* routine that does not look at the end (fmthex, fmtulp, the padding ones, the sign of a
\* number at the very end) was called without room.  What is formatted parses back to
\* itself, and a size is shown within half of the last digit.
FormatsRight ==
  /\ ~past =>
       /\ p = Least(Len(want), e)
       /\ SubSeq(mem, 1, p) = SubSeq(want, 1, p)
       /\ \A i \in (e + 1)..Len(mem) : mem[i] = C("?")
FmtItems ==
  \A it \in Items :
    LET s == PlainText(it)
    IN  /\ it.t = "int" /\ it.v[1] >= 0 => ParseNum(s, 1, 10) = <<Len(s) + 1, it.v[1]>>
        /\ it.t \in {"xint", "hex"} => ParseNum(s, 1, 16) = <<Len(s) + 1, it.v[1]>>
        /\ it.t = "bytes" => parsebytes(s, 1, Len(it.v)) = <<Len(s) + 1, it.v>>
        /\ it.t = "mac" => parsemac(s, 1) = <<Len(s) + 1, it.v>>
        /\ it.t = "ip" => parseip(s, 1) = <<Len(s) + 1, it.v>>
        /\ it.t = "size" =>
             LET z == SizeParts(it.v[1])
                 unit == IF z[3] = 0 THEN 1 ELSE IF z[3] = 1 THEN 1024 ELSE 1048576
                 shown == z[1] * unit + (IF z[2] > 0 THEN (z[2] * unit) \div 10 ELSE 0)
                 half == IF z[3] = 0 THEN 0 ELSE IF z[2] >= 0 THEN unit \div 20 ELSE unit \div 2
             IN  Abs(shown - it.v[1]) <= half + (unit \div 100)
TextSound == FormatsRight /\ (left = MAXITEMS => FmtItems)
=============================================================================
