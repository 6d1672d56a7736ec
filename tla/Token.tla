------------------------------- MODULE Token -------------------------------
(***************************************************************************)
(* The stream of literal data and block numbers in which a file is sent    *)
(* (token.c).  Without compression every literal chunk and every block     *)
(* number is an item of its own.  With compression runs of adjacent block  *)
(* numbers share an item, relative to the end of the run before, and       *)
(* literal data goes through a compressor whose history both ends have to  *)
(* keep the same: with zlib it also holds the data of matched blocks.      *)
(* An item carries its data and, with zlib and zstd, the history that the  *)
(* compressor had; a decompressor with another history garbles the data.   *)
(***************************************************************************)
EXTENDS Integers, Sequences

CONSTANTS
  ChunkSize,    \* CHUNK_SIZE
  MaxRel,       \* the largest relative block number (63)
  MaxRun,       \* blocks of a run (65536)
  MaxInsert,    \* bytes of a stored block (0xffff)
  MaxDataCount  \* bytes of a compressed item (MAX_DATA_COUNT)

Min2(a, b) == IF a < b THEN a ELSE b
Max2(a, b) == IF a > b THEN a ELSE b

Item(k, n, run, data, hist) == [k |-> k, n |-> n, run |-> run, data |-> data, hist |-> hist]

\* data in pieces of at most n bytes
Pieces(data, n) ==
  [i \in 1..((Len(data) + n - 1) \div n) |-> SubSeq(data, (i - 1) * n + 1, Min2(i * n, Len(data)))]

\* What matched data leaves in the history: before protocol 31, every stored
\* block of a long token held the token's first bytes.
Inserted(proto, data) ==
  LET p == Pieces(data, MaxInsert)
      parts == [i \in 1..Len(p) |-> IF proto >= 31 THEN p[i] ELSE SubSeq(data, 1, Len(p[i]))]
      upto[i \in 0..Len(p)] == IF i = 0 THEN <<>> ELSE upto[i - 1] \o parts[i]
  IN upto[Len(p)]
----------------------------------------------------------------------------
(* Sender *)

SendTokenStart == [last |-> -1, start |-> 0, end |-> 0, pend |-> <<>>, hist |-> <<>>]

simple_send_token(token, data) ==
  [i \in 1..Len(Pieces(data, ChunkSize)) |->
     Item("int", Len(Pieces(data, ChunkSize)[i]), 0, Pieces(data, ChunkSize)[i], <<>>)]
  \o (IF token = -2 THEN <<>> ELSE <<Item("int", -(token + 1), 0, <<>>, <<>>)>>)

\* the item of the run that ends with the last block
RunItem(t) ==
  LET r == t.start - t.end
      n == t.last - t.start
  IN IF r >= 0 /\ r <= MaxRel THEN Item("rel", r, n, <<>>, <<>>) ELSE Item("long", t.start, n, <<>>, <<>>)

\* A run ends with literal data, with another block than the next, or when
\* it is too long.  A new file starts with an empty run, and zlib then with
\* an empty history.
RunEnds(t, token, nb) == t.last >= 0 /\ (nb # 0 \/ token # t.last + 1 \/ token >= t.start + MaxRun)
AfterRun(z, t, token, nb) ==
  [t EXCEPT !.end = IF t.last = -1 THEN 0 ELSE IF RunEnds(t, token, nb) THEN t.last ELSE @,
            !.start = IF t.last < 0 \/ RunEnds(t, token, nb) THEN token ELSE @,
            !.hist = IF t.last = -1 /\ z # "zstd" THEN <<>> ELSE @,
            !.pend = IF t.last = -1 /\ z # "zstd" THEN <<>> ELSE @,
            !.last = token]
RunItems(t, token, nb) == IF RunEnds(t, token, nb) THEN <<RunItem(t)>> ELSE <<>>
EndItem(token) == IF token = -1 THEN <<Item("end", 0, 0, <<>>, <<>>)>> ELSE <<>>

\* deflate keeps the data of a token -2 back until it is flushed; with zlib
\* the data of a matched block is inserted into the history.
send_deflated_token(z, proto, t, token, data, block) ==
  LET a == AfterRun(z, t, token, Len(data))
      all == a.pend \o data
      flush == token # -2 /\ all # <<>>
      old == SubSeq(a.hist, 1, Len(a.hist) - Len(a.pend))
  IN [st |-> [a EXCEPT !.pend = IF token = -2 THEN all ELSE <<>>,
                       !.hist = @ \o data \o (IF token >= 0 /\ z = "zlib" THEN Inserted(proto, block) ELSE <<>>)],
      items |-> RunItems(t, token, Len(data))
                \o (IF flush THEN <<Item("data", 0, 0, all, old)>> ELSE <<>>)
                \o EndItem(token)]

\* zstd has one compressor for all files.
send_zstd_token(t, token, data) == send_deflated_token("zstd", 31, t, token, data, <<>>)

\* lz4 compresses every piece by itself; a flush without data would be an
\* empty piece.
send_compressed_token(t, token, data) ==
  LET a == AfterRun("lz4", t, token, Len(data))
      p == IF data = <<>> /\ t.last = -2 THEN <<(<<>>)>> ELSE Pieces(data, MaxDataCount)
  IN [st |-> a,
      items |-> RunItems(t, token, Len(data)) \o [i \in 1..Len(p) |-> Item("data", 0, 0, p[i], <<>>)] \o EndItem(token)]

send_token(z, proto, t, token, data, block) ==
  CASE z = "none" -> [st |-> t, items |-> simple_send_token(token, data)]
    [] z \in {"zlib", "zlibx"} -> send_deflated_token(z, proto, t, token, data, block)
    [] z = "zstd" -> send_zstd_token(t, token, data)
    [] z = "lz4" -> send_compressed_token(t, token, data)
----------------------------------------------------------------------------
(* Receiver: what recv_token returns, the state after it, and how many      *)
(* items it took.  A positive result is the length of literal data, a       *)
(* negative one a block number, zero is the end of the file.                *)

RecvTokenStart == [token |-> 0, run |-> 0, hist |-> <<>>, lost |-> FALSE]

Result(v, data, st, took) == [val |-> v, data |-> data, st |-> st, took |-> took]

simple_recv_token(t, it) == Result(it.n, it.data, t, 1)

Running(t) == Result(-1 - (t.token + 1), <<>>, [t EXCEPT !.token = @ + 1, !.run = @ - 1], 0)
Numbered(t, it) ==
  LET n == IF it.k = "rel" THEN t.token + it.n ELSE it.n
  IN Result(-1 - n, <<>>, [t EXCEPT !.token = n, !.run = it.run], 1)
Ended(z, t) == Result(0, <<>>, [t EXCEPT !.token = 0, !.lost = FALSE, !.hist = IF z = "zstd" THEN @ ELSE <<>>], 1)

\* what a decompressor with another history makes of data
Garbled(data) == [i \in 1..Len(data) |-> data[i] + 1]

recv_deflated_token(z, t, it) ==
  IF t.run > 0 THEN Running(t)
  ELSE CASE it.k = "data" -> LET d == IF it.hist = t.hist THEN it.data ELSE Garbled(it.data)
                           IN Result(Len(d), d, [t EXCEPT !.hist = @ \o d, !.lost = it.hist # t.hist], 1)
         [] it.k = "end" -> Ended(z, t)
         [] OTHER -> Numbered(t, it)

recv_zstd_token(t, it) == recv_deflated_token("zstd", t, it)

recv_compressed_token(t, it) ==
  IF t.run > 0 THEN Running(t)
  ELSE CASE it.k = "data" -> Result(Len(it.data), it.data, t, 1)
         [] it.k = "end" -> Ended("lz4", t)
         [] OTHER -> Numbered(t, it)

recv_token(z, t, it) ==
  CASE z = "none" -> simple_recv_token(t, it)
    [] z \in {"zlib", "zlibx"} -> recv_deflated_token(z, t, it)
    [] z = "zstd" -> recv_zstd_token(t, it)
    [] z = "lz4" -> recv_compressed_token(t, it)

SeeWhole(z, proto, t, data) == IF z = "zlib" THEN [t EXCEPT !.hist = @ \o data] ELSE t
\* The data of a matched block goes into the history of zlib.
see_token(z, proto, t, data) ==
  IF z = "zlib" THEN [t EXCEPT !.hist = @ \o Inserted(proto, data)] ELSE t
=============================================================================
