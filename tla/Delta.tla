------------------------------- MODULE Delta -------------------------------
(***************************************************************************)
(* The delta transfer of one file: the generator describes the old file by *)
(* the checksums of its blocks, the sender looks for those blocks at every *)
(* offset of the new file and sends the rest as literal data, the receiver *)
(* builds the new file from both (generator.c, sender.c, match.c,          *)
(* receiver.c).  When the checksum of the whole file does not agree, the   *)
(* transfer is repeated once with full block checksums.                    *)
(*                                                                         *)
(* The weak checksum is the code's, with its modulus as a parameter; the   *)
(* short form of the strong one confuses bytes that are equal modulo 2,    *)
(* its full form and the checksum of the file confuse nothing.  Sender and *)
(* receiver share nothing but the stream, so here the receiver starts when *)
(* the sender is done.                                                     *)
(*                                                                         *)
(* Files are read through a sliding window and written through a buffer or *)
(* as sparse files (fileio.c).  A file is its sequence of bytes; offsets   *)
(* start at 0.                                                             *)
(***************************************************************************)
EXTENDS Token, FiniteSets

CONSTANTS
  AlignBoundary,  \* ALIGN_BOUNDARY
  WriteBufSize,   \* size of wf_writeBuf
  SparseSize      \* SPARSE_WRITE_SIZE

Lower(a, b) == IF a < b THEN a ELSE b
Nulls(n) == [i \in 1..n |-> 0]
Part(f, off, n) == SubSeq(f, off + 1, off + n)

\* the file after a write at pos: a gap reads as zeros
WriteAt(f, pos, data) ==
  IF data = <<>> THEN f
  ELSE [i \in 1..(IF Len(f) > pos + Len(data) THEN Len(f) ELSE pos + Len(data)) |->
          IF i > pos /\ i <= pos + Len(data) THEN data[i - pos] ELSE IF i <= Len(f) THEN f[i] ELSE 0]
ftruncate(f, n) == [i \in 1..n |-> IF i <= Len(f) THEN f[i] ELSE 0]
----------------------------------------------------------------------------
(* map_file and map_ptr *)

AlignedLength(n) == ((n - 1) \div AlignBoundary + 1) * AlignBoundary
map_file(len, read_size, blk) ==
  [size |-> len, def |-> AlignedLength(IF blk > 0 /\ read_size % blk > 0 THEN read_size + (blk - (read_size % blk)) ELSE read_size),
   off |-> 0, p |-> <<>>, status |-> 0]

\* The bytes off..off+len-1 of file, as the window has them or as they are
\* read now; what the file no longer has is read as zeros and noted.
\* The window is moved: what it holds already is kept, the rest is read, and
\* what the file no longer has is zero.
WindowSize(m, start, need) ==
  LET want == Lower(m.def, m.size - start) IN IF want < need THEN AlignedLength(need) ELSE want
KeptPart(m, start, size) ==
  LET end == m.off + Len(m.p)
  IN IF start >= m.off /\ start < end /\ start + size >= end THEN Part(m.p, start - m.off, end - start) ELSE <<>>
ReadPart(file, from, n) == IF Len(file) > from THEN Part(file, from, Lower(n, Len(file) - from)) ELSE <<>>
Window(m, start, size, data) ==
  [m EXCEPT !.off = start, !.p = data \o Nulls(size - Len(data)), !.status = IF Len(data) < size THEN 1 ELSE @]
MoveWindow(m, file, start, size, keep) ==
  Window(m, start, size, keep \o ReadPart(file, start + Len(keep), size - Len(keep)))
InWindow(m, off, len) == [m |-> m, data |-> Part(m.p, off - m.off, len)]
Remap(m, file, start, size) == MoveWindow(m, file, start, size, KeptPart(m, start, size))

map_ptr(m, file, off, len) ==
  IF len = 0 THEN [m |-> m, data |-> <<>>]
  ELSE IF off >= m.off /\ off + len <= m.off + Len(m.p) THEN InWindow(m, off, len)
  ELSE LET fudge == off % AlignBoundary
       IN InWindow(Remap(m, file, off - fudge, WindowSize(m, off - fudge, len + fudge)), off, len)
----------------------------------------------------------------------------
(* write_file: w is the state of the one file that is written: its         *)
(* position, the write buffer, and for sparse files the zeros not yet      *)
(* written, the end of the last write and the length allocated before.     *)

WriteStart(prealloc) == [pos |-> 0, buf |-> <<>>, seek |-> 0, past |-> 0, pre |-> prealloc, err |-> FALSE]

flush_write_file(w, f) == [w |-> [w EXCEPT !.pos = @ + Len(w.buf), !.buf = <<>>], f |-> WriteAt(f, w.pos, w.buf)]

\* A hole of n zeros at pos; the file position has to be there.
do_punch_hole(w, f, pos, n) ==
  [w |-> [w EXCEPT !.pos = @ + n, !.err = @ \/ w.pos # pos],
   f |-> [i \in 1..Len(f) |-> IF i > pos /\ i <= pos + n THEN 0 ELSE f[i]]]

LeadingZeros(s) == Cardinality({i \in 1..Len(s) : \A j \in 1..i : s[j] = 0})
TrailingZeros(s) == Cardinality({i \in 1..Len(s) : \A j \in i..Len(s) : s[j] = 0})

write_sparse(w, f, use_seek, off, s) ==
  LET l1 == LeadingZeros(s)
      l2 == IF l1 = Len(s) THEN 0 ELSE TrailingZeros(s)
      seek == w.seek + l1
      data == Part(s, l1, Len(s) - l1 - l2)
      gap == CASE seek = 0 -> [w |-> w, f |-> f]
               [] seek > 0 /\ w.past >= w.pre -> [w |-> [w EXCEPT !.pos = @ + seek], f |-> f]
               [] OTHER -> do_punch_hole(w, f, w.past, seek)
  IN IF l1 = Len(s) THEN [w |-> [w EXCEPT !.seek = seek], f |-> f]
     ELSE [w |-> [gap.w EXCEPT !.seek = l2, !.past = off + Len(s) - l2, !.pos = @ + Len(data)],
           f |-> IF use_seek \/ gap.w.err THEN gap.f ELSE WriteAt(gap.f, gap.w.pos, data)]

\* The data goes to the sparse writer in pieces, or into the buffer, which
\* is written whenever it is full.
write_file(w, f, sparse, use_seek, off, s) ==
  IF sparse
  THEN LET n == (Len(s) + SparseSize - 1) \div SparseSize
           Piece(i) == Part(s, (i - 1) * SparseSize, Lower(SparseSize, Len(s) - (i - 1) * SparseSize))
           done[i \in 0..n] ==
             IF i = 0 THEN [w |-> w, f |-> f]
             ELSE IF done[i - 1].w.err THEN done[i - 1]
             ELSE write_sparse(done[i - 1].w, done[i - 1].f, use_seek, off + (i - 1) * SparseSize, Piece(i))
       IN done[n]
  ELSE LET all == w.buf \o s
           out == (Len(all) \div WriteBufSize) * WriteBufSize
       IN [w |-> [w EXCEPT !.pos = @ + out, !.buf = Part(all, out, Len(all) - out)],
           f |-> WriteAt(f, w.pos, Part(all, 0, out))]

\* Data that is in place already: skipped, or given to the sparse writer.
skip_matched(w, f, sparse, off, s) ==
  IF sparse THEN write_file(w, f, sparse, TRUE, off, s)
  ELSE LET r == flush_write_file(w, f) IN [w |-> [r.w EXCEPT !.pos = @ + Len(s), !.err = @ \/ r.w.pos # off], f |-> r.f]

sparse_end(w, f, size) ==
  [w |-> [w EXCEPT !.past = 0, !.seek = 0], f |-> IF w.seek = 0 THEN f ELSE ftruncate(f, size)]
----------------------------------------------------------------------------

CONSTANTS
  Sources, Bases,  \* new and old files
  DeltaConfigs,       \* options
  SumMod,          \* modulus of the two halves of the weak checksum (2^16)
  BLOCK_SIZE,      \* default and largest block length
  MaxBlockSize,
  MaxMapSize,      \* MAX_MAP_SIZE, the sender's window
  RecvMapSize,     \* the receiver's (16 K)
  Changed,         \* what others make of the source while it is sent
  MaxChanges       \* how often

VARIABLES
  conf,     \* options
  src,      \* the file at the source
  dst,      \* the file at the destination
  tmp,      \* the temp file
  phase,    \* 0, or 1 when the transfer is repeated
  pc,       \* "generate", "open", "search", "literal", "receive", "done"
  sums,     \* the sender's copy of the checksums
  snd, rcv, \* the sender's and the receiver's variables
  wire,     \* items on their way
  verdict,  \* "none", "kept", "failed" or "error"
  changes   \* changes of the source

deltaVars == <<conf, src, dst, tmp, phase, pc, sums, snd, rcv, wire, verdict, changes>>
----------------------------------------------------------------------------
(* Checksums *)

get_checksum1(d) ==
  LET s1[i \in 0..Len(d)] == IF i = 0 THEN 0 ELSE s1[i - 1] + d[i]
      s2[i \in 0..Len(d)] == IF i = 0 THEN 0 ELSE s2[i - 1] + (Len(d) + 1 - i) * d[i]
  IN <<s1[Len(d)] % SumMod, s2[Len(d)] % SumMod>>

\* csum_length is SUM_LENGTH in the second phase only.
get_checksum2(d) == IF phase = 1 THEN d ELSE [i \in 1..Len(d) |-> d[i] % 2]

\* append_mode and sparse_files are switched off for the second phase.
AppendMode == IF phase = 0 THEN conf.append ELSE 0
Sparse == conf.sparse /\ ~(conf.append # 0 /\ phase = 1)
----------------------------------------------------------------------------
(* Generator *)

\* The block length is given, the default, or the largest multiple of 8 that
\* is not above the square root of the file's length.
BlockLength(len) ==
  IF conf.block # 0 THEN conf.block
  ELSE IF len <= BLOCK_SIZE * BLOCK_SIZE \/ MaxBlockSize = BLOCK_SIZE THEN BLOCK_SIZE
  ELSE LET fits == {b \in BLOCK_SIZE..MaxBlockSize : b % 8 = 0 /\ b * b <= len}
       IN CHOOSE b \in fits : \A c \in fits : c <= b
sum_sizes_sqroot(len) ==
  LET b == BlockLength(len)
  IN [count |-> (len \div b) + (IF len % b # 0 THEN 1 ELSE 0), blength |-> b, rem |-> len % b]

NullSum == [count |-> 0, blength |-> 0, rem |-> 0]

\* what the head says of block i
BlockLen(h, i) == IF i = h.count - 1 /\ h.rem # 0 THEN h.rem ELSE h.blength
FLength(h) == h.count * h.blength - (IF h.rem # 0 THEN h.blength - h.rem ELSE 0)

generate_and_send_sums(file) ==
  LET h == sum_sizes_sqroot(Len(file))
      Block(i) == Part(file, i * h.blength, BlockLen(h, i))
  IN [head |-> h,
      list |-> IF AppendMode > 0 THEN <<>>
               ELSE [i \in 1..h.count |-> [sum1 |-> get_checksum1(Block(i - 1)), sum2 |-> get_checksum2(Block(i - 1))]]]

\* Offsets and lengths are not sent: they follow from the head.
receive_sums(h, list) ==
  [head |-> h, flength |-> FLength(h),
   blk |-> [i \in 0..(Len(list) - 1) |-> [sum1 |-> list[i + 1].sum1, sum2 |-> list[i + 1].sum2,
                                          len |-> BlockLen(h, i), offset |-> i * h.blength]],
   same |-> {}]

Generate ==
  /\ pc = "generate" /\ pc' = "open"
  /\ LET g == IF conf.whole THEN [head |-> NullSum, list |-> <<>>] ELSE generate_and_send_sums(dst)
     IN sums' = receive_sums(g.head, g.list)
  /\ UNCHANGED <<conf, src, dst, tmp, phase, snd, rcv, wire, verdict, changes>>
----------------------------------------------------------------------------
(* Sender *)

\* n bytes of the source, read in chunks
Longer(data, q) == [m |-> q.m, data |-> data \o q.data]
ReadOne(r, off, left) == Longer(r.data, map_ptr(r.m, src, off, Min2(ChunkSize, left)))
ReadChunks(m, off, n) ==
  LET c == (n + ChunkSize - 1) \div ChunkSize
      upto[i \in 0..c] == IF i = 0 THEN [m |-> m, data |-> <<>>]
                          ELSE ReadOne(upto[i - 1], off + (i - 1) * ChunkSize, n - (i - 1) * ChunkSize)
  IN upto[c]

\* Everything up to offset off is sent, and block i if it is one: the data
\* is read once for the token and again for the checksum of the file.
Sent(s, t) == [s EXCEPT !.tok = t.st, !.out = @ \o t.items]
Summed(s, all, last) == [s EXCEPT !.map = all.m, !.sum = @ \o all.data, !.last = last]
SendMatch(s, off, i, len, literal, blk) ==
  Summed(Sent(s, send_token(conf.z, conf.proto, s.tok, i, literal, blk.data)),
         ReadChunks(blk.m, s.last, Max2(off - s.last, 0) + len), off + len)
MatchLen(s, off, i, len, lit) ==
  SendMatch(s, off, i, len, lit.data,
            IF i >= 0 /\ conf.z = "zlib" THEN map_ptr(lit.m, src, off, len) ELSE [m |-> lit.m, data |-> <<>>])

matched(s, off, i) ==
  MatchLen(s, off, i, IF i >= 0 THEN sums.blk[i].len ELSE 0, ReadChunks(s.map, s.last, Max2(off - s.last, 0)))

updating_basis_file == conf.inplace

\* When updating in place, a block may be used that is still ahead, or that
\* the new file has at the same place.
Usable(i, off) == updating_basis_file => sums.blk[i].offset >= off \/ i \in sums.same

Emptied(s) == [s EXCEPT !.out = <<>>]

\* the sender opens the file: match_sums up to the search
StartSend ==
  /\ pc = "open"
  /\ LET len == Len(src)
         m0 == map_file(len, Max2(3 * sums.head.blength, MaxMapSize), sums.head.blength)
         search == len > 0 /\ sums.head.count > 0 /\ AppendMode = 0
         k == Min2(len, sums.head.blength)
     IN \E pre \in {IF AppendMode = 2 THEN ReadChunks(m0, 0, sums.flength) ELSE [m |-> m0, data |-> <<>>]} :
        \E first \in {map_ptr(pre.m, src, 0, IF search THEN k ELSE 0)} : \E w \in {get_checksum1(first.data)} :
          /\ snd' = [snd EXCEPT !.map = first.m, !.sum = pre.data, !.last = IF AppendMode > 0 THEN sums.flength ELSE 0,
                                !.off = 0, !.want = 0, !.k = k, !.s1 = w[1], !.s2 = w[2], !.len = len]
          /\ pc' = IF search THEN "search" ELSE "literal"
  /\ UNCHANGED <<conf, src, dst, tmp, phase, sums, rcv, wire, verdict, changes>>

\* What the blocks with the checksums at the current offset allow: the last
\* of them in the file heads its chain.
Candidates(weak, l, strong) ==
  {i \in DOMAIN sums.blk : Usable(i, snd.off) /\ sums.blk[i].sum1 = weak /\ sums.blk[i].len = l /\ sums.blk[i].sum2 = strong}

\* A match at the current offset: which block, at which offset, the blocks
\* known to be in place, and the checksums for the comparison that follows.
\* Zeros are also matched further along, where the old file has them in place.
LookAhead(f, a, ahead) ==
  LET g == [f EXCEPT !.weak = get_checksum1(ahead.data), !.m = ahead.m]
      h == [g EXCEPT !.strong = get_checksum2(ahead.data)]
  IN IF g.weak # sums.blk[f.i].sum1 THEN g
     ELSE IF h.strong # sums.blk[f.i].sum2 THEN h
     ELSE [h EXCEPT !.off = a, !.same = @ \cup {f.i}, !.want = f.i]

InPlace(i, l, weak, strong, m) ==
  LET b == sums.head.blength
      ai == (snd.off + b - 1) \div b
      a == ai * b
      Try == (snd.off = a \/ (weak = <<0, 0>> /\ l = b /\ a + l <= snd.len)) /\ ai < sums.head.count
      Is(j) == sums.blk[j].sum1 = weak /\ sums.blk[j].len = l /\ sums.blk[j].sum2 = strong
      Here(j) == [i |-> j, off |-> snd.off, same |-> sums.same, want |-> snd.want, weak |-> weak, strong |-> strong, m |-> m]
  IN IF ~(updating_basis_file /\ Try /\ (i = ai \/ Is(ai))) THEN Here(i)
     ELSE IF snd.off = a THEN [Here(ai) EXCEPT !.same = @ \cup {ai}, !.want = ai]
     ELSE LookAhead(Here(ai), a, map_ptr(m, src, a, l))

\* The block after the one matched last is preferred.
Preferred(f) ==
  IF /\ f.i # f.want /\ f.want < sums.head.count
     /\ (updating_basis_file => sums.blk[f.want].offset >= f.off \/ f.want \in f.same)
     /\ f.weak = sums.blk[f.want].sum1 /\ f.strong = sums.blk[f.want].sum2
  THEN f.want ELSE f.i

\* The checksums of the window one byte further on.
RollOver(s, more, b) ==
  LET s1 == s.s1 - b[1] + (IF more = 1 THEN b[s.k + 1] ELSE 0)
  IN [s EXCEPT !.s1 = s1 % SumMod,
               !.s2 = (s.s2 - s.k * b[1] + (IF more = 1 THEN s1 ELSE 0)) % SumMod,
               !.k = IF more = 1 THEN @ ELSE @ - 1, !.off = @ + 1]
RollIn(s, more, backup, d) == RollOver([s EXCEPT !.map = d.m], more, Part(d.data, backup, s.k + more))
Roll(s) ==
  LET more == IF s.off + s.k < s.len THEN 1 ELSE 0
      backup == Max2(s.off - s.last, 0)
  IN RollIn(s, more, backup, map_ptr(s.map, src, s.off - backup, s.k + more + backup))

\* A match at the current offset: the sender after it, with its window on the
\* last byte of the block.
Restarted(s, d, off, k, w) == [s EXCEPT !.map = d.m, !.off = off, !.k = k, !.s1 = w[1], !.s2 = w[2]]
RestartIn(s, off, k, d) == Restarted(s, d, off, k, get_checksum1(d.data))
Restart(s, off, k) == RestartIn(s, off, k, map_ptr(s.map, src, off, k))

HitBlock(f, i) ==
  LET off == f.off + sums.blk[i].len - 1
  IN [s |-> Restart(matched([snd EXCEPT !.map = f.m, !.want = i + 1], f.off, i), off,
                    Min2(sums.head.blength, snd.len - off)),
      same |-> f.same]
HitFound(f) == HitBlock(f, Preferred(f))
Hit(l, weak, strong, m, cands) ==
  HitFound(InPlace(CHOOSE i \in cands : \A j \in cands : j <= i, l, weak, strong, m))

\* One round of the search at the current offset.
RoundCands(weak, l, strong, m, cands) ==
  IF cands = {} THEN [s |-> [snd EXCEPT !.map = m], same |-> sums.same] ELSE Hit(l, weak, strong, m, cands)
RoundStrong(weak, l, strong, m) == RoundCands(weak, l, strong, m, Candidates(weak, l, strong))
RoundData(weak, l, d) == RoundStrong(weak, l, get_checksum2(d.data), d.m)
Round ==
  LET weak == <<snd.s1, snd.s2>>
      l == Min2(sums.head.blength, snd.len - snd.off)
      similar == \E j \in DOMAIN sums.blk : sums.blk[j].sum1 = weak /\ sums.blk[j].len = l /\ Usable(j, snd.off)
  IN IF ~similar THEN [s |-> snd, same |-> sums.same]
     ELSE RoundData(weak, l, map_ptr(snd.map, src, snd.off, l))

\* Long literal data is sent early; the rest at the end of the file.
hash_search ==
  /\ pc = "search"
  /\ LET end == snd.len + 1 - sums.blk[sums.head.count - 1].len
     IN \E r \in {Round} : \E rolled \in {Roll(r.s)} :
          LET early == r.s.off - r.s.last >= sums.head.blength + ChunkSize /\ end - r.s.off > ChunkSize
              more == rolled.off < end
          IN \E s \in {IF early THEN matched(rolled, r.s.off - sums.head.blength, -2) ELSE rolled} :
             \E last \in {IF more THEN s ELSE matched(s, snd.len, -1)} :
               /\ snd' = Emptied(last)
               /\ wire' = wire \o last.out
               /\ sums' = [sums EXCEPT !.same = r.same]
               /\ pc' = IF more THEN pc ELSE "receive"
  /\ UNCHANGED <<conf, src, dst, tmp, phase, rcv, verdict, changes>>

\* No blocks to look for: the file in chunks.
SendLiteral ==
  /\ pc = "literal"
  /\ LET more == snd.last + ChunkSize < snd.len
     IN \E s \in {matched(snd, IF more THEN snd.last + ChunkSize ELSE snd.len, IF more THEN -2 ELSE -1)} :
          /\ snd' = Emptied(s) /\ wire' = wire \o s.out
          /\ pc' = IF more THEN pc ELSE "receive"
  /\ UNCHANGED <<conf, src, dst, tmp, phase, sums, rcv, verdict, changes>>

\* The file is changed by others while it is sent.
SourceChanges ==
  /\ pc \in {"search", "literal"} /\ changes < MaxChanges
  /\ \E f \in Changed : f # src /\ src' = f
  /\ changes' = changes + 1
  /\ UNCHANGED <<conf, dst, tmp, phase, pc, sums, snd, rcv, wire, verdict>>

\* The checksum of the file; one that cannot be right after a read error.
FileSum == IF snd.map.status # 0 THEN <<"bad">> ELSE <<"sum", snd.sum>>
----------------------------------------------------------------------------
(* Receiver *)

Out == IF conf.inplace THEN dst ELSE tmp
PutOut(f) == IF conf.inplace THEN dst' = f /\ UNCHANGED tmp ELSE tmp' = f /\ UNCHANGED dst

\* receive_data up to its loop
StartReceive ==
  /\ pc = "receive" /\ ~rcv.on
  /\ LET size_r == Len(dst)
         \* a sparse file that is sent whole is truncated first
         trunc == conf.inplace /\ Sparse /\ conf.whole
         pre == IF conf.prealloc /\ snd.len > 0 /\ (~conf.inplace \/ snd.len > size_r) THEN snd.len
                ELSE IF conf.inplace /\ ~trunc THEN size_r ELSE 0
         m0 == map_file(size_r, Max2(2 * sums.head.blength, RecvMapSize), sums.head.blength)
         seen == IF AppendMode = 2 /\ size_r > 0 THEN Part(dst, 0, sums.flength) ELSE <<>>
         off == IF AppendMode > 0 THEN sums.flength ELSE 0
     IN /\ rcv' = [rcv EXCEPT !.on = TRUE, !.off = off, !.map = m0, !.sum = seen,
                              !.w = [WriteStart(pre) EXCEPT !.pos = off], !.basis = dst]
        /\ IF conf.inplace
           THEN dst' = (IF trunc /\ pre = 0 THEN <<>> ELSE IF pre > Len(dst) THEN ftruncate(dst, pre) ELSE dst) /\ UNCHANGED tmp
           ELSE tmp' = Nulls(pre) /\ UNCHANGED dst
  /\ UNCHANGED <<conf, src, phase, pc, sums, snd, wire, verdict, changes>>

\* what is written, and the receiver with it
Put(put, r) ==
  /\ PutOut(put.f)
  /\ rcv' = [r EXCEPT !.w = put.w]
  /\ IF put.w.err THEN verdict' = "error" /\ pc' = "done" ELSE UNCHANGED <<verdict, pc>>

ReceiveLiteral(r) ==
  Put(write_file(rcv.w, Out, Sparse, FALSE, rcv.off, r.data),
      [rcv EXCEPT !.tok = r.st, !.sum = @ \o r.data, !.off = @ + r.val])

\* a block that is in its place already is not written
WriteBlock(i, data) ==
  IF Len(rcv.basis) = 0 THEN [w |-> rcv.w, f |-> Out]
  ELSE IF conf.inplace /\ rcv.off = i * sums.head.blength THEN skip_matched(rcv.w, Out, Sparse, rcv.off, data)
  ELSE write_file(rcv.w, Out, Sparse, FALSE, rcv.off, data)
ReceiveBlock(r, i) ==
  \E b \in {map_ptr(rcv.map, dst, i * sums.head.blength, BlockLen(sums.head, i))} :
    Put(WriteBlock(i, b.data),
        [rcv EXCEPT !.tok = see_token(conf.z, conf.proto, r.st, b.data), !.sum = @ \o b.data,
                    !.off = @ + BlockLen(sums.head, i), !.map = b.m])

\* One round of the loop: literal data is written; a block is read from the
\* old file, and skipped where it already is.
receive_data ==
  /\ pc = "receive" /\ rcv.on /\ verdict = "none"
  /\ wire # <<>> \/ rcv.tok.run > 0
  /\ LET none == Item("end", 0, 0, <<>>, <<>>)
     IN \E r \in {recv_token(conf.z, rcv.tok, IF wire = <<>> THEN none ELSE wire[1])} :
          /\ r.val # 0
          /\ wire' = SubSeq(wire, 1 + r.took, Len(wire))
          /\ IF r.val > 0 THEN ReceiveLiteral(r) ELSE ReceiveBlock(r, -(r.val + 1))
  /\ UNCHANGED <<conf, src, phase, sums, snd, changes>>

\* The end of the data: what is still held back is written, what is left of
\* an old or preallocated file is cut off, the checksums are compared.
EndReceive ==
  /\ pc = "receive" /\ rcv.on /\ wire # <<>> /\ rcv.tok.run = 0
  /\ LET r == recv_token(conf.z, rcv.tok, wire[1])
         e == IF rcv.off = 0 THEN [w |-> rcv.w, f |-> Out]
              ELSE IF Sparse THEN sparse_end(rcv.w, Out, rcv.off) ELSE flush_write_file(rcv.w, Out)
         f == IF conf.inplace \/ rcv.w.pre > rcv.off THEN ftruncate(e.f, rcv.off) ELSE e.f
         ok == FileSum = <<"sum", rcv.sum>>
     IN /\ r.val = 0
        /\ wire' = SubSeq(wire, 2, Len(wire))
        /\ IF conf.inplace \/ ok THEN dst' = f ELSE UNCHANGED dst
        /\ tmp' = <<>>
        /\ rcv' = [rcv EXCEPT !.on = FALSE, !.tok = r.st]
        /\ IF ok THEN pc' = "done" /\ verdict' = "kept" /\ UNCHANGED <<phase, snd>>
           ELSE IF phase = 0 THEN pc' = "generate" /\ phase' = 1 /\ UNCHANGED <<verdict, snd>>
           ELSE pc' = "done" /\ verdict' = "failed" /\ UNCHANGED <<phase, snd>>
  /\ UNCHANGED <<conf, src, sums, changes>>
----------------------------------------------------------------------------
DeltaStart(c, new, old) ==
  /\ conf = c /\ src = new /\ dst = old
  /\ tmp = <<>> /\ phase = 0 /\ pc = "generate" /\ wire = <<>> /\ verdict = "none" /\ changes = 0
  /\ sums = receive_sums(NullSum, <<>>)
  /\ snd = [map |-> map_file(0, 1, 0), sum |-> <<>>, last |-> 0, off |-> 0, want |-> 0, k |-> 0, s1 |-> 0, s2 |-> 0,
            len |-> 0, tok |-> SendTokenStart, out |-> <<>>]
  /\ rcv = [on |-> FALSE, off |-> 0, map |-> map_file(0, 1, 0), sum |-> <<>>, w |-> WriteStart(0),
            tok |-> RecvTokenStart, basis |-> <<>>]

\* --append skips a file that is not shorter than the new one.
DeltaInit ==
  \E c \in DeltaConfigs, new \in Sources : \E old \in {b \in Bases : c.append > 0 => Len(b) < Len(new)} : DeltaStart(c, new, old)

DeltaDone == pc = "done" /\ UNCHANGED deltaVars

DeltaNext ==
  \/ Generate \/ StartSend \/ hash_search \/ SendLiteral \/ SourceChanges
  \/ StartReceive \/ receive_data \/ EndReceive \/ DeltaDone

----------------------------------------------------------------------------
(* Properties *)

\* The receiver writes where it is in the file, and the sender searches inside it.
OffsetsAgree ==
  /\ phase \in {0, 1} /\ pc \in {"generate", "open", "search", "literal", "receive", "done"}
  /\ verdict \in {"none", "kept", "failed", "error"}
  /\ pc = "search" => snd.off \in 0..snd.len /\ snd.last \in 0..snd.len /\ snd.k \in 0..sums.head.blength
  /\ rcv.on => rcv.w.pos + Len(rcv.w.buf) + rcv.w.seek = rcv.off

\* A file that the receiver keeps is, byte for byte, the data that the sender
\* read; with --append, after what was there before.
KeptIsWhatWasSent ==
  verdict = "kept" =>
    /\ snd.map.status = 0
    /\ IF AppendMode = 1 THEN dst = Part(rcv.basis, 0, sums.flength) \o snd.sum ELSE dst = snd.sum
    /\ changes = 0 /\ AppendMode # 1 => dst = src

\* The second transfer, with full checksums, succeeds if the source is left
\* alone: no collision is left, and no block was overwritten in place before
\* it was used.
RedoSucceeds == changes = 0 => verdict \notin {"failed", "error"}

\* The rolling checksum is the checksum of the window.
RollingSum ==
  pc = "search" /\ changes = 0 => <<snd.s1, snd.s2>> = get_checksum1(Part(src, snd.off, snd.k))

\* Both ends have the same compression history unless a block was taken for
\* another with the same short checksum, no data is left on the way,
\* and the receiver did not take a piece of data for the end of the file.
StreamInStep ==
  /\ rcv.tok.lost => phase = 0 /\ rcv.sum # SubSeq(snd.sum, 1, Len(rcv.sum))
  /\ pc \in {"done", "generate"} => wire = <<>> \/ verdict = "error"

\* The receiver keeps only what the sender sent, byte for byte, the repeated
\* transfer succeeds unless the source changes, and offsets, rolling sums and
\* compressor histories agree on the way.
FileArrives == KeptIsWhatWasSent /\ RedoSucceeds /\ OffsetsAgree /\ RollingSum /\ StreamInStep
=============================================================================
