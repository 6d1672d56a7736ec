-------------------------------- MODULE Codec --------------------------------
(***************************************************************************)
(* What one end of the connection writes and the other end reads: numbers  *)
(* and indices (io.c), the entries of file lists (FlistWire), extended     *)
(* attributes and ACLs (Attrs).  A behaviour is about one of these parts.  *)
(* An integer of 32 or 64 bits is the sequence of its bytes, lowest first; *)
(* a reader gets the value that was written and leaves the bytes behind    *)
(* it: [val, rest].                                                        *)
(***************************************************************************)
EXTENDS FlistWire, Attrs, FiniteSets, TLC

From(s, n) == SubSeq(s, n + 1, Len(s))
First(s, n) == SubSeq(s, 1, n)
Zeros(n) == [i \in 1..n |-> 0]
Got(v, r) == [val |-> v, rest |-> r]
Overflow == Got(<<>>, <<>>)

\* x as a little-endian sequence of n bytes, x >= 0
Bytes(x, n) == [i \in 1..n |-> (x \div 256 ^ (i - 1)) % 256]
Value(b) == b[1] + 256 * b[2] + (IF Len(b) > 2 THEN 65536 * b[3] + 16777216 * b[4] ELSE 0)
----------------------------------------------------------------------------
\* the number of bytes that follow a first byte, by its upper six bits
int_byte_extra(ch) ==
  LET i == ch \div 4
  IN CASE i < 32 -> 0 [] i \in 32..47 -> 1 [] i \in 48..55 -> 2
       [] i \in 56..59 -> 3 [] i \in 60..61 -> 4 [] i = 62 -> 5 [] i = 63 -> 6

\* the last byte that must be sent, min at least
Significant(x, min) ==
  IF \E c \in min + 1..Len(x) : x[c] # 0
  THEN CHOOSE c \in min + 1..Len(x) : x[c] # 0 /\ \A d \in c + 1..Len(x) : x[d] = 0
  ELSE min

\* The first byte holds the top byte, marked with the number of extra bytes,
\* or the mark alone when the top byte is too large to share it.
Pack(x, min) ==
  LET cnt == Significant(x, min)
      bit == 2 ^ (7 - cnt + min)
  IN IF x[cnt] >= bit THEN <<256 - bit>> \o First(x, cnt)
     ELSE IF cnt > min THEN <<x[cnt] + 256 - 2 * bit>> \o First(x, cnt - 1)
     ELSE <<x[cnt]>> \o First(x, cnt - 1)

write_varint(x) == Pack(x, 1)
write_varlong(x, min_bytes) == Pack(x, min_bytes)

read_varint(s) ==
  LET extra == int_byte_extra(s[1])
      top == s[1] % 2 ^ (8 - extra)
  IN IF extra >= 5 THEN Overflow
     ELSE IF extra = 0 THEN Got(<<s[1]>> \o Zeros(3), Tail(s))
     ELSE Got(First(SubSeq(s, 2, extra + 1) \o <<top>> \o Zeros(4), 4), From(s, extra + 1))

read_varlong(s, min_bytes) ==
  LET extra == int_byte_extra(s[1])
      top == s[1] % 2 ^ (8 - extra)
      low == SubSeq(s, 2, min_bytes)
  IN IF extra > 0 /\ min_bytes + extra > 9 THEN Overflow
     ELSE Got(First(low \o SubSeq(s, min_bytes + 1, min_bytes + extra) \o <<top>> \o Zeros(8), 8),
              From(s, min_bytes + extra))

\* A 64-bit value that fits 31 bits takes four bytes, any other
\* twelve, the first four of which are 0xFF.
Fits31(x) == x[4] < 128 /\ \A i \in 5..8 : x[i] = 0
write_longint(x) == IF Fits31(x) THEN First(x, 4) ELSE <<255, 255, 255, 255>> \o x
Extended(b) == First(b, 4) \o [i \in 1..4 |-> IF b[4] >= 128 THEN 255 ELSE 0]
read_longint(s) ==
  IF First(s, 4) = <<255, 255, 255, 255>> THEN Got(SubSeq(s, 5, 12), From(s, 12))
  ELSE Got(Extended(s), From(s, 4))
----------------------------------------------------------------------------
(* A string of at most 0x7FFF bytes behind its length; only the length is  *)
(* kept here, n bytes of it stand for the string.                          *)

MaxVstring == 32767
write_vstring(n) ==
  IF n > MaxVstring THEN <<>>   \* exit_cleanup
  ELSE (IF n > 127 THEN <<n \div 256 + 128>> ELSE <<>>) \o <<n % 256>>
read_vstring(s, bufsize) ==
  LET long == s[1] >= 128
      len == IF long THEN (s[1] - 128) * 256 + s[2] ELSE s[1]
  IN Got(IF len >= bufsize THEN -1 ELSE len, From(s, IF long THEN 2 ELSE 1))
----------------------------------------------------------------------------
(* A file index is sent as the difference to the one before, kept apart    *)
(* for indices >= 0 and < 0.  Both ends keep the same state.               *)

NDX_DONE == -1
NdxStart == [pos |-> -1, neg |-> 1]

NdxBytes(n, diff) ==
  IF diff < 254 /\ diff > 0 THEN <<diff>>
  ELSE IF diff < 0 \/ diff > 32767
  THEN <<254>> \o LET b == Bytes(n, 4) IN <<b[4] + 128, b[1], b[2], b[3]>>
  ELSE <<254, diff \div 256, diff % 256>>

write_ndx(st, ndx) ==
  IF ndx = NDX_DONE THEN [st |-> st, bytes |-> <<0>>]
  ELSE IF ndx >= 0
  THEN [st |-> [st EXCEPT !.pos = ndx], bytes |-> NdxBytes(ndx, ndx - st.pos)]
  ELSE [st |-> [st EXCEPT !.neg = -ndx], bytes |-> <<255>> \o NdxBytes(-ndx, -ndx - st.neg)]

read_ndx(st, s) ==
  LET neg == s[1] = 255
      b == IF neg THEN Tail(s) ELSE s
      prev == IF neg THEN st.neg ELSE st.pos
      num == IF b[1] # 254 THEN b[1] + prev
             ELSE IF b[2] >= 128 THEN Value(<<b[3], b[4], b[5], b[2] - 128>>)
             ELSE b[2] * 256 + b[3] + prev
      used == IF b[1] # 254 THEN 1 ELSE IF b[2] >= 128 THEN 5 ELSE 3
  IN IF s[1] = 0 THEN [st |-> st, val |-> NDX_DONE, rest |-> Tail(s)]
     ELSE [st |-> IF neg THEN [st EXCEPT !.neg = num] ELSE [st EXCEPT !.pos = num],
           val |-> IF neg THEN -num ELSE num,
           rest |-> From(b, used)]
-----------------------------------------------------------------------------
CONSTANTS
  Parts,       \* the parts to explore
  Numbers, Longs, Strings, Indices,  \* what is written
  Options, Files,  \* options and files of file lists
  MaxItems,    \* indices in a row, entries of a list
  MaxBase      \* a list that starts behind this index has no successor

VARIABLES
  part,
  item, got,         \* a number and what the reader made of it
  wst, rst,          \* the memory of writer and reader of indices
  opt, ss, rs,       \* options, the memory of sender and receiver of a list
  base, sent, list,  \* index of the list's first entry, entries sent and received
  wrong              \* the ends lost step

fvars == <<opt, ss, rs, base, sent, list, wrong>>
vars == <<part, item, got, wst, rst, fvars, avars>>
----------------------------------------------------------------------------
None == [val |-> <<>>, rest |-> <<>>]

Init ==
  /\ part \in Parts
  /\ item = [kind |-> "none", v |-> <<>>, n |-> 0] /\ got = None
  /\ wst = NdxStart /\ rst = NdxStart
  /\ opt \in IF part = "flist" THEN Options ELSE {CHOOSE o \in Options : TRUE}
  /\ ss = SendStart /\ rs = RecvStart /\ base = 1 /\ sent = <<>> /\ list = <<>> /\ wrong = {}
  /\ IF part = "xattr" THEN XattrInit ELSE XattrIdle
  /\ IF part = "acl" THEN AclInit ELSE AclIdle
  /\ FakeIdle

\* Behind a value, there are more bytes.
Behind == <<7, 200>>

Number ==
  /\ part = "number" /\ item.kind = "none"
  /\ \/ \E x \in Numbers :
          /\ item' = [kind |-> "varint", v |-> x, n |-> 0]
          /\ got' = read_varint(write_varint(x) \o Behind)
     \/ \E x \in Longs, n \in {3, 4} :
          /\ item' = [kind |-> "varlong", v |-> x, n |-> n]
          /\ got' = read_varlong(write_varlong(x, n) \o Behind, n)
     \/ \E x \in Longs :
          /\ item' = [kind |-> "longint", v |-> x, n |-> 0]
          /\ got' = read_longint(write_longint(x) \o Behind)
     \/ \E n \in Strings :
          /\ item' = [kind |-> "vstring", v |-> <<n>>, n |-> 0]
          /\ got' = IF write_vstring(n) = <<>> THEN None
                    ELSE LET r == read_vstring(write_vstring(n) \o Behind, MaxVstring + 1)
                         IN Got(<<r.val>>, r.rest)
  /\ UNCHANGED <<part, wst, rst, fvars, avars>>

Index ==
  /\ part = "index" /\ item.n < MaxItems
  /\ \E ndx \in Indices :
       LET w == write_ndx(wst, ndx)
           r == read_ndx(rst, w.bytes \o Behind)
       IN /\ item' = [kind |-> "ndx", v |-> <<ndx>>, n |-> item.n + 1]
          /\ wst' = w.st /\ rst' = r.st /\ got' = Got(<<r.val>>, r.rest)
  /\ UNCHANGED <<part, fvars, avars>>

SendEntry ==
  /\ part = "flist" /\ Len(sent) < MaxItems /\ wrong = {} /\ item.kind = "none"
  /\ \E g \in Files :
     \E f \in {[g EXCEPT !.ino = IF opt.preserve_hard_links THEN @ ELSE 0]} :
     \E e \in {send_file_entry(opt, ss, f, base + Len(sent), base)} :
     \E r \in {recv_file_entry(opt, rs, e.flags, e.fields, list, base)} :
       /\ ss' = e.st
       /\ sent' = Append(sent, f)
       /\ IF EndsList(opt, e.flags) \/ r.bad \/ r.keys # Keys(e.fields)
          THEN wrong' = {"entry"} /\ UNCHANGED <<rs, list>>
          ELSE rs' = r.st /\ list' = Append(list, r.file) /\ UNCHANGED wrong
  /\ UNCHANGED <<part, item, got, wst, rst, opt, base, avars>>

\* The end of the list; the names of the owners follow unless more lists do.
EndList ==
  /\ part = "flist" /\ wrong = {} /\ item.kind = "none" /\ sent # <<>>
  /\ \E send_io_error \in {FALSE, TRUE} :
       LET e == write_end_of_flist(opt, send_io_error, 1)
       IN wrong' = IF EndsList(opt, e.flags) /\ (Has(e.fields, "err") <=> (opt.varint \/ XMIT_IO_ERROR_ENDLIST \in e.flags))
                   THEN {} ELSE {"end"}
  /\ IF opt.inc_recurse
     THEN /\ base <= MaxBase
          /\ base' = base + Len(sent) + 1 /\ sent' = <<>> /\ list' = <<>>
          /\ UNCHANGED <<rs, item>>
     ELSE /\ list' = IF opt.numeric_ids > 0 THEN recv_id_list(opt, list, <<>>, <<>>, rs.uids, rs.gids)
                     ELSE recv_id_list(opt, list,
                            IF opt.preserve_uid THEN send_one_list(opt, opt.unames, ss.uids) ELSE <<>>,
                            IF opt.preserve_gid THEN send_one_list(opt, opt.gnames, ss.gids) ELSE <<>>,
                            rs.uids, rs.gids)
          /\ item' = [kind |-> "named", v |-> <<>>, n |-> 0]
          /\ UNCHANGED <<base, sent, rs>>
  /\ UNCHANGED <<part, got, wst, rst, opt, ss, avars>>

Attributes == (AttrNext \/ (part = "fake" /\ FakeSet)) /\ UNCHANGED <<part, item, got, wst, rst, fvars>>

Next == Number \/ Index \/ SendEntry \/ EndList \/ Attributes
Spec == Init /\ [][Next]_vars
----------------------------------------------------------------------------
(* Properties *)

TypeOK ==
  /\ part \in Parts /\ wrong \subseteq {"entry", "end"}
  /\ Len(list) <= Len(sent) /\ Len(sent) <= MaxItems
  /\ rs.cnt \in 0..MaxItems
  /\ \A l \in {ss.uids, ss.gids} : \A i, j \in 1..Len(l) : l[i].id = l[j].id => i = j

\* A number that was written with any of the encodings is read back, and the
\* reader stops where the writer did.
NumbersArrive ==
  part = "number" /\ item.kind # "none" /\ ~(item.kind = "vstring" /\ item.v[1] > MaxVstring) => got = [val |-> item.v, rest |-> Behind]

\* After any sequence of indices, positive and negative, large and small,
\* the reader knows the one that was written and both ends remember the same.
IndicesArrive ==
  part = "index" /\ item.kind = "ndx" => got = [val |-> item.v, rest |-> Behind] /\ wst = rst

\* The receiver reads exactly the fields that the sender wrote, takes no
\* entry for the end of the list and no end for an entry.
InStep == wrong = {}

\* the owner that the receiver must find: by map, by name, or by number
Owner(names, local, idmap, id, byName) ==
  LET name == IF byName /\ id \in DOMAIN names THEN names[id] ELSE ""
      hits == {i \in 1..Len(idmap) : MapMatches(idmap[i], id, name)}
  IN IF hits # {} THEN idmap[CHOOSE i \in hits : \A j \in hits : i <= j].id2
     ELSE IF name # "" /\ id # 0 /\ name \in DOMAIN local THEN local[name] ELSE id

Named == opt.inc_recurse \/ item.kind = "named"
Same(f, g) ==
  /\ g.name = f.name /\ g.mode = Tweaked(opt, f.mode) /\ g.modtime = f.modtime
  /\ opt.proto >= 31 => g.nsec = f.nsec
  /\ opt.atimes /\ f.mode.type # "dir" => g.atime = f.atime
  /\ opt.crtimes => g.crtime = f.crtime
  /\ IsDev(opt, f) => <<g.major, g.minor>> = <<f.major, f.minor>>
  /\ opt.preserve_links /\ f.mode.type = "lnk" => g.target = f.target
  /\ f.mode.type = "reg" => g.len = f.len
  /\ opt.always_checksum /\ f.mode.type = "reg" => g.sum = f.sum
  /\ opt.proto >= 30 /\ f.mode.type = "dir" => g.dir = f.dir
  /\ opt.preserve_uid /\ Named => g.uid = Owner(opt.unames, opt.local_users, opt.usermap, f.uid, opt.numeric_ids = 0)
  /\ opt.preserve_gid /\ Named => g.gid = Owner(opt.gnames, opt.local_groups, opt.groupmap, f.gid, opt.numeric_ids = 0)

\* Whatever entries came before, an entry arrives as it was sent, with the
\* changes that the options ask for and its owner by name.
EntriesArrive == part = "flist" => \A i \in 1..Len(list) : Same(sent[i], list[i])

\* Two entries of a list carry one link number exactly if they are links of
\* one file.
LinksArrive ==
  part = "flist" => \A i, j \in 1..Len(list) :
    sent[i].ino # 0 => (list[i].gnum = list[j].gnum <=> <<sent[i].dev, sent[i].ino>> = <<sent[j].dev, sent[j].ino>>)

\* Whatever was written before, numbers, indices and entries of file lists,
\* with their attributes and ACLs, are read as they were written, and both
\* ends stay in step.
ValuesArrive ==
  TypeOK /\ InStep /\ NumbersArrive /\ IndicesArrive /\ EntriesArrive /\ LinksArrive /\ AttributesArrive
=============================================================================
