------------------------------ MODULE Messages ------------------------------
(* Messages: those of control sockets (nlusctl) and of netlink. *)
EXTENDS Integers, Sequences, SequencesExt

(***************************************************************************)
(* Messages of the control protocol all services and their tools use: a    *)
(* message is packed attribute by attribute into a buffer, sent without    *)
(* its length, received into a buffer of another size and taken apart.     *)
(* A spawn request of appctl, ptyctl and nestvt has lists of strings, in a *)
(* buffer whose size has been estimated.                                   *)
(***************************************************************************)
CONSTANTS
  Messages,    \* attributes to send: sequences of [t, key, v]
  Spawns,      \* <<arguments, environment>>
  Caps,        \* sizes of the sender's buffer
  RCaps,       \* sizes of the receiver's buffer
  MAXSTR,      \* longest string
  LIMIT        \* lengths are below it, 2^16

VARIABLES
  msg,     \* what is to be sent: [kind, attrs, next, fd]
  uc,      \* struct ucbuf: [buf, cap]; the length of the message is its first cell
  wire,    \* the packet: <<>> or <<[data, fd]>>
  rcv,     \* the received message: [buf, len, fd]
  st       \* "pack", "sent", "nobufs", "received"

uc_vars == <<msg, uc, wire, rcv, st>>

\* A buffer is a sequence of bytes; the two bytes of a number are <<"L", n>> and <<"-">>
Junk == <<"?">>
Hdr(len, key) == <<<<"L", len>>, <<"-">>, <<"K", key>>, <<"-">>>>
HDR == 4
Pad(n) == n + ((4 - (n % 4)) % 4)
Chars(s) == [i \in DOMAIN s |-> <<"c", s[i]>>]
Zeros(n) == [i \in 1..n |-> <<"c", "0">>]
Over(buf, at, cells) == [i \in DOMAIN buf |-> IF i > at /\ i <= at + Len(cells) THEN cells[i - at] ELSE buf[i]]
Len16(buf, at) == IF buf[at + 1][1] = "L" THEN buf[at + 1][2] ELSE 0
Key16(buf, at) == IF buf[at + 3][1] = "K" THEN buf[at + 3][2] ELSE 0
Min2(a, b) == IF a < b THEN a ELSE b

MsgLen(u) == Len16(u.buf, 0)
\* what is stored in a length is cut to its width
WithLenAt(u, at, n) == [u EXCEPT !.buf = Over(u.buf, at, <<<<"L", n % LIMIT>>>>)]
WithLen(u, n) == WithLenAt(u, 0, n)

(***************************************************************************)
(* Packing                                                                 *)
(***************************************************************************)
uc_put_hdr(u, cmd) == [u EXCEPT !.buf = Over(u.buf, 0, Hdr(HDR, cmd))]

\* mutant of uc_put
uc_put_late(u, key, len, alloc) ==
  LET ptr == MsgLen(u)  full == HDR + alloc  new == ptr + full
  IN  IF full > u.cap \/ new <= 0 \/ new >= LIMIT \/ new > u.cap THEN [u |-> WithLen(u, 0), at |-> -1]
      ELSE [u |-> WithLen([u EXCEPT !.buf = Over(u.buf, ptr, Hdr((HDR + len) % LIMIT, key))], new), at |-> ptr]

\* a message that did not fit stays empty, whatever comes after; at is the attribute
uc_put(u, key, len, alloc) ==
  LET ptr == MsgLen(u)  full == HDR + alloc  new == ptr + full
  IN  IF ptr = 0 THEN [u |-> u, at |-> -1]
      ELSE IF full > u.cap \/ new <= 0 \/ new >= LIMIT \/ new > u.cap THEN [u |-> WithLen(u, 0), at |-> -1]
      ELSE [u |-> WithLen([u EXCEPT !.buf = Over(u.buf, ptr, Hdr((HDR + len) % LIMIT, key))], new), at |-> ptr]

Payload(r, cells) == IF r.at < 0 THEN r.u ELSE [r.u EXCEPT !.buf = Over(r.u.buf, r.at + HDR, cells)]

uc_put_flag(u, key) == uc_put(u, key, 0, 0).u
uc_put_int(u, key, v) == Payload(uc_put(u, key, 4, 4), [i \in 1..4 |-> <<"i", v, i>>])
uc_put_i64(u, key, v) == Payload(uc_put(u, key, 8, 8), [i \in 1..8 |-> <<"i", v, i>>])
uc_put_bin(u, key, src) ==
  LET len == Len(src) IN Payload(uc_put(u, key, len, Pad(len)), Chars(src) \o Zeros(Pad(len) - len))
\* a string of MAXSTR or more is not terminated
uc_put_str(u, key, s) ==
  uc_put_bin(u, key, IF Len(s) < MAXSTR THEN Append(s, "0") ELSE SubSeq(s, 1, MAXSTR))
uc_put_strn(u, key, s, max) ==
  LET str == SubSeq(s, 1, Min2(Len(s), max))  lenz == Len(str) + 1
  IN  Payload(uc_put(u, key, lenz, Pad(lenz)), Chars(str) \o Zeros(Pad(lenz) - Len(str)))

\* mutant of uc_end_nest
uc_end_nest_body(u, at) ==
  IF at < 0 \/ at >= MsgLen(u) THEN u
  ELSE WithLenAt(u, at, MsgLen(u) - at - HDR)

uc_end_nest(u, at) ==
  IF at < 0 \/ at >= MsgLen(u) THEN u
  ELSE WithLenAt(u, at, MsgLen(u) - at)

\* lists of strings, one after the other, padded at the end; unlike uc_put, this starts
\* over after an overflow, and a length that has grown to LIMIT starts at 0 again
uc_add_str(u, s) ==
  LET ptr == MsgLen(u)
      str == Append(SubSeq(s, 1, Min2(Len(s), MAXSTR)), IF Len(s) > MAXSTR THEN s[MAXSTR + 1] ELSE "0")
  IN  IF ptr + Len(str) > u.cap THEN WithLen(u, 0)
      ELSE WithLen([u EXCEPT !.buf = Over(u.buf, ptr, Chars(str))], ptr + Len(str))
RECURSIVE AddAll(_, _)
AddAll(u, l) == IF l = <<>> THEN u ELSE AddAll(uc_add_str(u, Head(l)), Tail(l))

uc_end_strs(u, at) ==
  LET ptr == MsgLen(u)
  IN  IF at < 0 \/ ptr - at < HDR THEN u
      ELSE WithLen(WithLenAt(u, at, ptr - at), IF Pad(ptr) > u.cap THEN 0 ELSE Pad(ptr))
PutStrs(u, key, l) == LET r == uc_put(u, key, 0, 0) IN uc_end_strs(AddAll(r.u, l), r.at)

RECURSIVE PutAll(_, _)
PutOne(u, a) ==
  CASE a.t = "flag" -> uc_put_flag(u, a.key)
    [] a.t = "int" -> uc_put_int(u, a.key, a.v)
    [] a.t = "i64" -> uc_put_i64(u, a.key, a.v)
    [] a.t = "bin" -> uc_put_bin(u, a.key, a.v)
    [] a.t = "str" -> uc_put_str(u, a.key, a.v)
    [] a.t = "strn" -> uc_put_strn(u, a.key, a.v, MAXSTR - 1)
    [] a.t = "strs" -> PutStrs(u, a.key, a.v)
    [] a.t = "nest" -> LET r == uc_put(u, a.key, 0, 0) IN uc_end_nest(PutAll(r.u, a.v), r.at)
PutAll(u, l) == IF l = <<>> THEN u ELSE PutAll(PutOne(u, Head(l)), Tail(l))

Put ==
  /\ st = "pack" /\ msg.next <= Len(msg.attrs)
  /\ uc' = PutOne(uc, msg.attrs[msg.next])
  /\ msg' = [msg EXCEPT !.next = @ + 1]
  /\ UNCHANGED <<wire, rcv, st>>

(***************************************************************************)
(* The socket: the length is not sent, a packet longer than the receiver's *)
(* buffer loses its end                                                    *)
(***************************************************************************)
uc_iov_hdr(u) == IF u.cap < HDR \/ MsgLen(u) < HDR THEN <<>> ELSE <<SubSeq(u.buf, 3, MsgLen(u))>>

\* uc_send, uc_send_aux with ux_putf1
uc_send ==
  /\ st = "pack" /\ msg.next > Len(msg.attrs)
  /\ LET iov == uc_iov_hdr(uc)
     IN  IF iov = <<>> THEN st' = "nobufs" /\ UNCHANGED wire
         ELSE st' = "sent" /\ wire' = <<[data |-> iov[1], fd |-> msg.fd]>>
  /\ UNCHANGED <<msg, uc, rcv>>

\* ux_getf1
ux_getf1(fd) == IF fd = 0 THEN -1 ELSE fd

\* uc_recv, uc_recv_aux, then uc_msg
uc_recv ==
  /\ st = "sent"
  /\ \E len \in RCaps :
       LET got == SubSeq(wire[1].data, 1, Min2(Len(wire[1].data), len - 2))
           full == 2 + Len(got)
       IN  rcv' = [buf |-> <<<<"L", full>>, <<"-">>>> \o got, len |-> full, fd |-> ux_getf1(wire[1].fd)]
  /\ st' = "received"
  /\ UNCHANGED <<msg, uc, wire>>

(***************************************************************************)
(* Parsing                                                                 *)
(***************************************************************************)

attr_in(buf, ptr, end) ==
  IF ptr + HDR > end THEN -1
  ELSE IF ptr + Len16(buf, ptr) > end THEN -1 ELSE ptr

uc_get_0(buf, m) == attr_in(buf, m + HDR, m + Len16(buf, m))
uc_get_n(buf, m, at) ==
  IF Len16(buf, at) <= 0 THEN -1
  ELSE attr_in(buf, at + Pad(Len16(buf, at)), m + Len16(buf, m))

RECURSIVE AttrsFrom(_, _, _)
AttrsFrom(buf, m, at) == IF at < 0 THEN <<>> ELSE <<at>> \o AttrsFrom(buf, m, uc_get_n(buf, m, at))
AttrsOf(buf, m) == AttrsFrom(buf, m, uc_get_0(buf, m))

uc_payload(buf, at) == SubSeq(buf, at + HDR + 1, Min2(at + Len16(buf, at), Len(buf)))
uc_is_bin(buf, at, len) == Len(uc_payload(buf, at)) = len
is_zstr(p) == p # <<>> /\ p[Len(p)] = <<"c", "0">> /\ \A i \in 1..(Len(p) - 1) : p[i] # <<"c", "0">>

\* what the other side makes of an attribute it expects to be of type t
Decoded(buf, at, t) ==
  LET p == uc_payload(buf, at)  chars == [i \in DOMAIN p |-> p[i][2]]
  IN  CASE t = "flag" -> IF p = <<>> THEN <<"flag">> ELSE <<"bad">>
        [] t = "int" -> IF uc_is_bin(buf, at, 4) /\ \A i \in 1..4 : p[i] = <<"i", p[1][2], i>> THEN <<"int", p[1][2]>> ELSE <<"bad">>
        [] t = "i64" -> IF uc_is_bin(buf, at, 8) /\ \A i \in 1..8 : p[i] = <<"i", p[1][2], i>> THEN <<"i64", p[1][2]>> ELSE <<"bad">>
        [] t = "bin" -> <<"bin", chars>>
        [] t \in {"str", "strn"} -> IF is_zstr(p) THEN <<"str", SubSeq(chars, 1, Len(p) - 1)>> ELSE <<"cut", chars>>
        [] t = "strs" -> <<"strs", chars>>
        [] OTHER -> <<"nest">>

uc_get(buf, key) == SelectSeq(AttrsOf(buf, 0), LAMBDA at : Key16(buf, at) = key)

(***************************************************************************)
(* Spawn requests: an estimate on one side, indexing on the other           *)
(***************************************************************************)
\* the strings in p that are terminated, up to room of them
RECURSIVE index_strings(_, _)
index_strings(p, room) ==
  LET z == {i \in DOMAIN p : p[i] = <<"c", "0">>}
      q == CHOOSE i \in z : \A j \in z : i <= j
  IN  IF room = 0 \/ z = {} THEN <<>>
      ELSE <<[i \in 1..(q - 1) |-> p[i][2]]>> \o index_strings(SubSeq(p, q + 1, Len(p)), room - 1)

\* a table of n pointers takes both lists and a NULL after each
prep_argv_envp(buf, n) ==
  LET argv == index_strings(uc_payload(buf, uc_get(buf, 1)[1]), n)
      envp == index_strings(uc_payload(buf, uc_get(buf, 2)[1]), n - Len(argv) - 1)
  IN  IF Len(argv) >= n THEN <<"E2BIG">>
      ELSE IF argv = <<>> THEN <<"EINVAL">>
      ELSE IF Len(argv) + 1 + Len(envp) >= n THEN <<"E2BIG">>
      ELSE <<"run", argv, envp>>

estimate_request_size(args, envp) ==
  LET Sum(l) == FoldSeq(LAMBDA s, n : n + 4 + Pad(Len(s)), 0, l) IN 64 + Sum(args) + Sum(envp)

UcInit ==
  /\ wire = <<>> /\ st = "pack" /\ rcv = [buf |-> <<>>, len |-> 0, fd |-> -1]
  /\ \/ \E m \in Messages, c \in Caps, f \in {0, 5} :
          /\ msg = [kind |-> "plain", attrs |-> m, next |-> 1, fd |-> f]
          /\ uc = uc_put_hdr([buf |-> [i \in 1..c |-> Junk], cap |-> c], 7)
     \/ \E s \in Spawns :
          LET c == estimate_request_size(s[1], s[2])
          IN  /\ msg = [kind |-> "spawn", next |-> 1, fd |-> 0,
                        attrs |-> <<[t |-> "strs", key |-> 1, v |-> s[1]], [t |-> "strs", key |-> 2, v |-> s[2]]>>]
              /\ uc = uc_put_hdr([buf |-> [i \in 1..c |-> Junk], cap |-> c], 7)

UcNext == Put \/ uc_send \/ uc_recv

UcSpec == UcInit /\ [][UcNext]_uc_vars

(***************************************************************************)
(* Properties                                                              *)
(***************************************************************************)
RECURSIVE Size(_)
SizeOne(a) == HDR +
  CASE a.t = "flag" -> 0 [] a.t = "int" -> 4 [] a.t = "i64" -> 8 [] a.t = "bin" -> Pad(Len(a.v))
    [] a.t = "str" -> Pad(Min2(Len(a.v) + 1, MAXSTR)) [] a.t = "strn" -> Pad(Min2(Len(a.v) + 1, MAXSTR))
    [] a.t = "strs" -> Pad(FoldSeq(LAMBDA s, n : n + Len(s) + 1, 0, a.v)) [] OTHER -> Size(a.v)
Size(l) == IF l = <<>> THEN 0 ELSE SizeOne(Head(l)) + Size(Tail(l))

RECURSIVE Same(_, _, _)
Same(buf, at, a) ==
  /\ Key16(buf, at) = a.key
  /\ LET d == Decoded(buf, at, a.t) IN
     CASE a.t = "flag" -> d = <<"flag">>
       [] a.t \in {"int", "i64", "bin"} -> d = <<a.t, a.v>>
       [] a.t = "str" -> d = IF Len(a.v) < MAXSTR THEN <<"str", a.v>> ELSE <<"cut", SubSeq(a.v, 1, MAXSTR)>>
       [] a.t = "strn" -> d = <<"str", SubSeq(a.v, 1, Min2(Len(a.v), MAXSTR - 1))>>
       [] a.t = "strs" -> d = <<"strs", FlattenSeq([i \in DOMAIN a.v |-> Append(a.v[i], "0")])>>
       [] OTHER -> LET sub == AttrsOf(buf, at)
                   IN  Len(sub) = Len(a.v) /\ \A i \in DOMAIN sub : Same(buf, sub[i], a.v[i])

Full == HDR + Size(msg.attrs)
Fits == Full <= uc.cap /\ Full < LIMIT

\* A message either does not fit, into its buffer or the width of its length, and is not
\* sent at all, or it arrives with the attributes that were put, in order, each with its
\* key and value, nested ones included; a receiver whose buffer is too short sees the
\* first of them, whole, and no part of another one.  The estimate of a spawn request is
\* always enough; below LIMIT it arrives in the same way, and what it spawns gets the
\* arguments and the environment it was given, as long as the table of pointers has room
\* for them and none of the strings is longer than MAXSTR.  (One of LIMIT bytes or more is
\* not refused, and what is sent is not what was put.)
MsgKept ==
  /\ msg.kind = "plain" => (st = "nobufs" <=> (st # "pack" /\ ~Fits))
  /\ st = "received" /\ Fits =>
       LET got == AttrsOf(rcv.buf, 0)
       IN  /\ Len(got) <= Len(msg.attrs)
           /\ \A i \in DOMAIN got : Same(rcv.buf, got[i], msg.attrs[i])
           /\ Len(rcv.buf) = Full => Len(got) = Len(msg.attrs)
           /\ Key16(rcv.buf, 0) = 7
           /\ rcv.fd = IF msg.fd = 0 THEN -1 ELSE msg.fd
  /\ msg.kind = "spawn" => Full <= uc.cap /\ (Full < LIMIT => st # "nobufs")
  /\ msg.kind = "spawn" /\ st = "received" /\ Fits /\ Len(rcv.buf) = Full =>
       LET argv == msg.attrs[1].v  envp == msg.attrs[2].v
       IN  \A n \in 2..6 : prep_argv_envp(rcv.buf, n) =
             IF Len(argv) + Len(envp) + 2 <= n THEN IF argv = <<>> THEN <<"EINVAL">> ELSE <<"run", argv, envp>>
             ELSE IF argv = <<>> THEN <<"EINVAL">> ELSE <<"E2BIG">>

(***************************************************************************)
(* Netlink messages: requests packed into a fixed buffer, answers that     *)
(* come in packets of several messages and are read through a shift        *)
(* buffer, and the attributes in them.                                     *)
(***************************************************************************)
CONSTANTS
  Requests,   \* sequences of attributes [t, key, v] to pack
  NlCaps,       \* sizes of the request buffer
  Replies,    \* what the kernel sends: sequences of packets, each a sequence of attribute lists
  NRBUF,      \* size of the receive buffer
  NLMSG,      \* sizeof(struct nlmsg)
  FIXED       \* size of the header that follows it, struct nlgen and the like, included

VARIABLES
  req,     \* the request, and what the kernel answers: [attrs, next, reply]
  nc,      \* struct ncbuf: [buf, ptr]; ptr = Len(buf) + 1 is the mark of an overflow
  net,     \* packets the kernel has queued
  nr,      \* struct nrbuf: [buf, msg], where buf goes up to nr->ptr
  got,     \* messages nr_next has returned
  nl_st       \* "pack", "nobufs", "idle", "read", "lost"

nl_vars == <<req, nc, net, nr, got, nl_st>>

Num(buf, at, k) == IF at + 1 \in DOMAIN buf /\ buf[at + 1][1] = k THEN buf[at + 1][2] ELSE 0
LenAt(buf, at) == Num(buf, at, "L")
TypeAt(buf, at) == Num(buf, at + 2, "K")

(***************************************************************************)
(* Packing                                                                 *)
(***************************************************************************)
End(c) == Len(c.buf)
Overflown(c) == [c EXCEPT !.ptr = End(c) + 1]

nc_buf_set(size) == [buf |-> [i \in 1..size |-> Junk], ptr |-> 0]
nc_header(c, type) ==
  IF NLMSG > End(c) THEN Overflown(c)
  ELSE [buf |-> Over(c.buf, 2, <<<<"K", type>>>>), ptr |-> NLMSG]
nc_fixed(c, size) ==
  IF size <= NLMSG \/ c.ptr # NLMSG \/ size > End(c) THEN Overflown(c)
  ELSE [buf |-> Over(c.buf, NLMSG, Zeros(size - NLMSG)), ptr |-> size]

\* mutant of nc_put_
nc_put_mark(c, key, payload) ==
  LET full == HDR + Len(payload)  ptr == c.ptr + Pad(full)
  IN  IF ptr > End(c) THEN c
      ELSE [buf |-> Over(c.buf, c.ptr, <<<<"L", full>>, <<"-">>, <<"K", key>>, <<"-">>>> \o payload
                                        \o Zeros(Pad(full) - full)),
            ptr |-> ptr]

\* an attribute; an overflow marks the buffer, and nothing is put into a marked one
nc_put_(c, key, payload) ==
  LET full == HDR + Len(payload)  ptr == c.ptr + Pad(full)
  IN  IF c.ptr > End(c) THEN c
      ELSE IF ptr > End(c) THEN Overflown(c)
      ELSE IF ptr < NLMSG THEN c
      ELSE [buf |-> Over(c.buf, c.ptr, <<<<"L", full>>, <<"-">>, <<"K", key>>, <<"-">>>> \o payload
                                        \o Zeros(Pad(full) - full)),
            ptr |-> ptr]

nc_put_nest(c, key) ==
  LET ptr == c.ptr + HDR
  IN  IF c.ptr > End(c) THEN [c |-> c, at |-> -1]
      ELSE IF ptr > End(c) THEN [c |-> Overflown(c), at |-> -1]
      ELSE [c |-> [buf |-> Over(c.buf, c.ptr + 2, <<<<"K", key>>>>), ptr |-> ptr], at |-> c.ptr]

\* mutant of nc_end_nest
nc_end_nest_pay(c, at) ==
  IF at < 0 \/ at + HDR > c.ptr THEN c ELSE [c EXCEPT !.buf = Over(c.buf, at, <<<<"L", c.ptr - at - HDR>>>>)]

nc_end_nest(c, at) ==
  IF at < 0 \/ at + HDR > c.ptr THEN c ELSE [c EXCEPT !.buf = Over(c.buf, at, <<<<"L", c.ptr - at>>>>)]

RECURSIVE NlPutAll(_, _)
NlPutOne(c, a) ==
  CASE a.t = "flag" -> nc_put_(c, a.key, <<>>)
    [] a.t = "byte" -> nc_put_(c, a.key, <<<<"i", a.v, 1>>>>)
    [] a.t = "int" -> nc_put_(c, a.key, [i \in 1..4 |-> <<"i", a.v, i>>])
    [] a.t = "bin" -> nc_put_(c, a.key, Chars(a.v))
    [] a.t = "str" -> nc_put_(c, a.key, Chars(a.v) \o Zeros(1))
    [] a.t = "nest" -> LET r == nc_put_nest(c, a.key) IN nc_end_nest(NlPutAll(r.c, a.v), r.at)
NlPutAll(c, l) == IF l = <<>> THEN c ELSE NlPutAll(NlPutOne(c, Head(l)), Tail(l))

\* nc_send and nc_msg fill in the length
Whole(c) == SubSeq(Over(c.buf, 0, <<<<"L", c.ptr>>, <<"-">>>>), 1, c.ptr)

(***************************************************************************)
(* The kernel: a request it understands is answered with packets           *)
(***************************************************************************)
Kernel(attrs) == Whole(NlPutAll(nc_fixed(nc_header(nc_buf_set(200), 7), FIXED), attrs))
Packet(l) == FlattenSeq([i \in DOMAIN l |-> Kernel(l[i])])

NlPut ==
  /\ nl_st = "pack" /\ req.next <= Len(req.attrs)
  /\ nc' = NlPutOne(nc, req.attrs[req.next])
  /\ req' = [req EXCEPT !.next = @ + 1]
  /\ UNCHANGED <<net, nr, got, nl_st>>

nc_send ==
  /\ nl_st = "pack" /\ req.next > Len(req.attrs)
  /\ IF nc.ptr > End(nc) THEN nl_st' = "nobufs" /\ UNCHANGED net
     ELSE /\ nl_st' = "idle"
          /\ \E r \in Replies : net' = <<<<req.attrs>>>> \o r
  /\ req' = [req EXCEPT !.reply = net']
  /\ UNCHANGED <<nc, nr, got>>

(***************************************************************************)
(* Receiving                                                               *)
(***************************************************************************)
\* a packet goes to what is left of the buffer; what does not fit is lost
nr_recv ==
  /\ nl_st = "idle" /\ net # <<>>
  /\ LET p == Packet(Head(net))  left == NRBUF - Len(nr.buf)
     IN  IF left <= 0 THEN nl_st' = "nobufs" /\ UNCHANGED nr
         ELSE /\ nr' = [nr EXCEPT !.buf = @ \o SubSeq(p, 1, Min2(Len(p), left))]
              /\ nl_st' = IF Len(p) > left THEN "lost" ELSE "read"
  /\ net' = Tail(net)
  /\ UNCHANGED <<req, nc, got>>

nl_msg(buf, at) == Len(buf) - at >= NLMSG /\ LenAt(buf, at) <= Len(buf) - at

\* the next whole message, or the buffer shifted to its start
nr_next ==
  /\ nl_st \in {"read", "lost"}
  /\ IF nr.msg < NRBUF /\ nl_msg(nr.buf, nr.msg)
       THEN LET m == nr.msg + LenAt(nr.buf, nr.msg)
            IN  /\ got' = Append(got, SubSeq(nr.buf, nr.msg + 1, m))
                /\ nr' = IF m < Len(nr.buf) THEN [nr EXCEPT !.msg = m] ELSE [buf |-> <<>>, msg |-> 0]
                /\ UNCHANGED nl_st
     ELSE /\ nr' = [buf |-> SubSeq(nr.buf, nr.msg + 1, Len(nr.buf)), msg |-> 0]
          /\ nl_st' = IF nl_st = "read" THEN "idle" ELSE "stop"
          /\ UNCHANGED got
  /\ UNCHANGED <<req, nc, net>>

(***************************************************************************)
(* Attributes of a message, or of a nested attribute, in lo .. hi of it     *)
(***************************************************************************)
nl_attr_0_in(buf, lo, hi) == IF hi - lo < HDR \/ lo + LenAt(buf, lo) > hi THEN -1 ELSE lo

nl_attr_n_in(buf, lo, hi, curr) ==
  LET next == curr + Pad(LenAt(buf, curr))
  IN  IF LenAt(buf, curr) < HDR \/ next >= hi THEN -1 ELSE next

RECURSIVE NlAttrsFrom(_, _, _, _)
NlAttrsFrom(buf, lo, hi, at) == IF at < 0 THEN <<>> ELSE <<at>> \o NlAttrsFrom(buf, lo, hi, nl_attr_n_in(buf, lo, hi, at))
AttrsIn(buf, lo, hi) == NlAttrsFrom(buf, lo, hi, nl_attr_0_in(buf, lo, hi))
nl_attr_k_in(buf, lo, hi, key) == SelectSeq(AttrsIn(buf, lo, hi), LAMBDA at : TypeAt(buf, at) = key)

\* nl_get and its like: NLPAYLOAD, ATPAYLOAD
nl_get(buf, key) == nl_attr_k_in(buf, FIXED, LenAt(buf, 0), key)
nl_sub_all(buf, at) == AttrsIn(buf, at + HDR, at + LenAt(buf, at))

nl_payload(buf, at) == SubSeq(buf, at + HDR + 1, at + LenAt(buf, at))
nl_check_zstr(p) == p # <<>> /\ p[Len(p)] = <<"c", "0">> /\ \A i \in 1..(Len(p) - 1) : p[i] # <<"c", "0">>
RECURSIVE nl_check_nest(_, _, _)
nl_check_nest(buf, p, end) ==
  IF p >= end THEN p = end
  ELSE Pad(LenAt(buf, p)) > 0 /\ nl_check_nest(buf, p + Pad(LenAt(buf, p)), end)
nl_nest(buf, at) == LenAt(buf, at) - HDR > HDR /\ nl_check_nest(buf, at + HDR, at + LenAt(buf, at))

NlInit ==
  /\ \E r \in Requests, c \in NlCaps :
       req = [attrs |-> r, next |-> 1, reply |-> <<>>] /\ nc = nc_fixed(nc_header(nc_buf_set(c), 7), FIXED)
  /\ net = <<>> /\ nr = [buf |-> <<>>, msg |-> 0] /\ got = <<>> /\ nl_st = "pack"

NlNext == NlPut \/ nc_send \/ nr_recv \/ nr_next

NlSpec == NlInit /\ [][NlNext]_nl_vars

(***************************************************************************)
(* Properties                                                              *)
(***************************************************************************)
RECURSIVE NlSize(_)
NlSizeOne(a) == HDR +
  CASE a.t = "flag" -> 0 [] a.t = "byte" -> 4 [] a.t = "int" -> 4 [] a.t = "bin" -> Pad(Len(a.v))
    [] a.t = "str" -> Pad(Len(a.v) + 1) [] OTHER -> NlSize(a.v)
NlSize(l) == IF l = <<>> THEN 0 ELSE NlSizeOne(Head(l)) + NlSize(Tail(l))

RECURSIVE NlSame(_, _, _)
NlSame(buf, at, a) ==
  LET p == nl_payload(buf, at)  chars == [i \in DOMAIN p |-> p[i][2]]
  IN  /\ TypeAt(buf, at) = a.key
      /\ CASE a.t = "flag" -> p = <<>>
           [] a.t = "byte" -> p = <<<<"i", a.v, 1>>>>
           [] a.t = "int" -> p = [i \in 1..4 |-> <<"i", a.v, i>>]
           [] a.t = "bin" -> chars = a.v
           [] a.t = "str" -> nl_check_zstr(p) /\ SubSeq(chars, 1, Len(p) - 1) = a.v
           [] OTHER -> LET sub == nl_sub_all(buf, at)
                       IN  /\ a.v # <<>> => nl_nest(buf, at) \/ NlSize(a.v) = HDR
                           /\ Len(sub) = Len(a.v) /\ \A i \in DOMAIN sub : NlSame(buf, sub[i], a.v[i])

SameMsg(m, attrs) ==
  LET at == AttrsIn(m, FIXED, LenAt(m, 0))
  IN  /\ Len(m) = LenAt(m, 0)
      /\ Len(at) = Len(attrs) /\ \A i \in DOMAIN at : NlSame(m, at[i], attrs[i])
      /\ \A a \in Range(attrs) :
           LET first == CHOOSE i \in DOMAIN attrs : attrs[i].key = a.key /\ \A j \in 1..(i - 1) : attrs[j].key # a.key
           IN  nl_get(m, a.key)[1] = at[first]

\* A request that does not fit is not sent; one that does is the message nl_* reads back.
\* As long as every packet of the kernel fits into the buffer, its messages are returned
\* whole, each once and in order, with the attributes that were in them: after each packet
\* the buffer is empty again.  (A packet that does not fit loses its end, netlink being a
\* packet socket; the messages before the cut one are still returned.)
NetlinkKept ==
  /\ nl_st = "nobufs" <=> (nl_st # "pack" /\ FIXED + NlSize(req.attrs) > End(nc))
  /\ LET all == FlattenSeq(req.reply)
     IN  /\ Len(got) <= Len(all) /\ \A i \in DOMAIN got : SameMsg(got[i], all[i])
         /\ got # <<>> => got[1] = Whole(nc)
         /\ nl_st = "idle" => nr.buf = <<>> /\ Len(got) = Len(all) - Len(FlattenSeq(net))
=============================================================================
