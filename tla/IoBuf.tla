------------------------------- MODULE IoBuf -------------------------------
(***************************************************************************)
(* The multiplexed, circularly buffered stream between two rsync processes *)
(* (src/rsync/io.c): raw data and messages of one process share a pipe or  *)
(* a socket.  The writer keeps raw data in iobuf.out, where room for the   *)
(* header of the next MSG_DATA chunk is always reserved, and messages in   *)
(* iobuf.msg; perform_io writes from one of them whatever the descriptor   *)
(* takes.  The reader keeps what it read in iobuf.in and separates the two *)
(* again.  A cell of a buffer is a byte: the k-th byte of a header, the    *)
(* k-th byte of the i-th message, or the i-th byte of raw data.            *)
(***************************************************************************)
EXTENDS Integers, Sequences, FiniteSetsExt

CONSTANTS
  Hdr,       \* bytes of a header (4 in the code)
  Unit,      \* what buffer sizes are rounded up to (256 in the code)
  OutSize, MsgSize, InSize,   \* allocated sizes (the first two multiples of Unit)
  PipeCap,   \* bytes the descriptor holds
  MaxLen,    \* longest raw write or message
  MaxRaw, MaxMsg, MaxFlush,   \* bounds on what the writer sends
  MaxWork,   \* and on all of it together
  AmReceiver \* the values of am_receiver to explore

ASSUME IoBufAssumption ==
  /\ {Hdr, Unit, PipeCap, MaxLen} \subseteq Nat \ {0}
  /\ {OutSize, MsgSize, InSize} \subseteq Nat
  /\ OutSize >= MaxLen + Hdr /\ MsgSize >= MaxLen + 2 * Hdr - 1
  /\ InSize >= Hdr /\ InSize >= MaxLen /\ Unit >= Hdr
  /\ \A n \in {OutSize, MsgSize} : n % Unit = 0
  /\ AmReceiver \subseteq BOOLEAN

VARIABLES
  out, msg,      \* xbufs of the writer: [buf, pos, len, size]
  raw_data_header_pos, raw_flushing_ends_before,
  am_receiver,
  wop,           \* what the writer waits for in perform_io, or Idle
  pipe,
  in,            \* xbuf of the reader
  raw_input_ends_before,
  rop,           \* what the reader waits for in perform_io, or Idle
  nraw, nmsg, nflush,  \* bytes and messages written, flushes called
  stamp,         \* stamp[i]: how many messages were sent before raw byte i
  msgLen,        \* lengths of the messages sent (-1: empty MSG_DATA)
  gotRaw, gotMsg \* what the reader was given

writer == <<out, msg, raw_data_header_pos, raw_flushing_ends_before,
            am_receiver, wop, nraw, nmsg, nflush, stamp, msgLen>>
reader == <<in, raw_input_ends_before, rop, gotRaw, gotMsg>>
ioVars == <<writer, pipe, reader>>

Idle == [op |-> "idle", n |-> 0]
Blank == <<>>
KeepAlive == -1

RawCell(i) == <<"raw", i>>
MsgCells(i, len) == [k \in 1..len |-> <<"msg", i, k>>]
HdrCells(code, i, len) == [k \in 1..Hdr |-> <<"hdr", code, i, len, k>>]

Xbuf(size, extra) == [buf |-> [i \in 0..(size + extra - 1) |-> Blank],
                      pos |-> 0, len |-> 0, size |-> size]

IoInit ==
  /\ am_receiver \in AmReceiver
  /\ out = [Xbuf(OutSize, Hdr) EXCEPT !.len = Hdr]  \* io_start_multiplex_out
  /\ msg = Xbuf(MsgSize, Hdr)
  /\ raw_data_header_pos = 0 /\ raw_flushing_ends_before = 0
  /\ wop = Idle /\ rop = Idle
  /\ pipe = <<>>
  /\ in = Xbuf(InSize, 0)
  /\ raw_input_ends_before = 0
  /\ nraw = 0 /\ nmsg = 0 /\ nflush = 0
  /\ stamp = <<>> /\ msgLen = <<>> /\ gotRaw = <<>> /\ gotMsg = <<>>
----------------------------------------------------------------------------
(* Buffers *)

\* cells stored from position p on, and split in two when the buffer ends
Poke(b, p, cells) ==
  [b EXCEPT !.buf = [i \in DOMAIN b.buf |->
     IF i >= p /\ i < p + Len(cells) THEN cells[i - p + 1] ELSE b.buf[i]]]
Copy(b, p, cells) ==
  LET siz == b.size - p
  IN IF p >= b.pos /\ siz < Len(cells)
     THEN Poke(Poke(b, p, SubSeq(cells, 1, siz)), 0, SubSeq(cells, siz + 1, Len(cells)))
     ELSE Poke(b, p, cells)

reduce_iobuf_size(b, newSize) == IF newSize < b.size THEN [b EXCEPT !.size = newSize] ELSE b
\* a mistake: the size stays reduced
KeepReduced(b) == b

restore_iobuf_size(b) ==
  IF b.size % Unit = 0 THEN b ELSE [b EXCEPT !.size = (b.size \div Unit + 1) * Unit]

\* The position a header goes to, counted from p: never across the end.
HeaderWraps(b, p) == p < b.size /\ p + Hdr > b.size
----------------------------------------------------------------------------
(* Writer *)

Budget(n) == nraw + nmsg + nflush + n <= MaxWork
OutRoom(n) == out.len + n <= out.size
MsgRoom(n) == msg.len + n <= msg.size
Needed(len) == len + Hdr + Hdr - 1

\* write_buf, once there is room
PutRaw(n) ==
  LET p == IF out.pos + out.len >= out.size THEN out.pos + out.len - out.size
                                            ELSE out.pos + out.len
  IN /\ out' = [Copy(out, p, [k \in 1..n |-> RawCell(nraw + k)]) EXCEPT !.len = @ + n]
     /\ nraw' = nraw + n
     /\ stamp' = stamp \o [k \in 1..n |-> nmsg]
     /\ UNCHANGED <<msg, nmsg, msgLen>>

\* a mistake: the wrapped part stays at the start of the larger buffer
GrownInPlace(b) ==
  LET r == restore_iobuf_size(b)
  IN [r EXCEPT !.size = 2 * @,
        !.buf = [i \in 0..(2 * r.size + Hdr - 1) |-> IF i \in DOMAIN r.buf THEN r.buf[i] ELSE Blank]]

\* The receiver's message buffer grows instead of being flushed.
Grown(b) ==
  LET r == restore_iobuf_size(b)
      g == [r EXCEPT !.size = 2 * @,
              !.buf = [i \in 0..(2 * r.size + Hdr - 1) |-> IF i \in DOMAIN r.buf THEN r.buf[i] ELSE Blank]]
      wrapped == b.pos + b.len - b.size
  IN IF wrapped > 0 THEN Poke(g, b.size, [k \in 1..wrapped |-> g.buf[k - 1]]) ELSE g

\* send_msg, once there is room in b: header, then the body
PutMsg(b, code, len) ==
  LET p0 == b.pos + b.len
      r == IF HeaderWraps(b, p0) THEN reduce_iobuf_size(b, p0) ELSE b
      p == IF p0 >= b.size THEN p0 - b.size ELSE IF HeaderWraps(b, p0) THEN 0 ELSE p0
      p2 == IF p + Hdr = r.size THEN 0 ELSE p + Hdr
      h == Poke(r, p, HdrCells(code, nmsg + 1, len))
  IN /\ msg' = [Copy(h, p2, MsgCells(nmsg + 1, len)) EXCEPT !.len = @ + Hdr + len]
     /\ nmsg' = nmsg + 1
     /\ msgLen' = Append(msgLen, IF code = "data" THEN KeepAlive ELSE len)
     /\ UNCHANGED <<out, nraw, stamp>>

write_buf(n) ==
  /\ wop = Idle /\ nraw + n <= MaxRaw /\ Budget(n)
  /\ IF OutRoom(n) THEN PutRaw(n) /\ UNCHANGED wop
     ELSE wop' = [op |-> "write", n |-> n] /\ UNCHANGED <<out, msg, nraw, nmsg, stamp, msgLen>>
  /\ UNCHANGED <<raw_data_header_pos, raw_flushing_ends_before, am_receiver, nflush, pipe, reader>>

send_msg(len) ==
  /\ wop = Idle /\ nmsg < MaxMsg /\ Budget(1)
  /\ CASE MsgRoom(Needed(len)) -> PutMsg(msg, "msg", len) /\ UNCHANGED wop
       [] ~MsgRoom(Needed(len)) /\ am_receiver -> PutMsg(Grown(msg), "msg", len) /\ UNCHANGED wop
       [] OTHER -> wop' = [op |-> "send", n |-> len] /\ UNCHANGED <<out, msg, nraw, nmsg, stamp, msgLen>>
  /\ UNCHANGED <<raw_data_header_pos, raw_flushing_ends_before, am_receiver, nflush, pipe, reader>>

\* An empty MSG_DATA if nothing else waits to be written; a caller that
\* allows it also waits until something has been written.
maybe_send_keepalive(allow_flush) ==
  /\ wop = Idle /\ nmsg < MaxMsg /\ Budget(1)
  /\ IF msg.len = 0 /\ out.len = Hdr THEN PutMsg(msg, "data", 0)
     ELSE allow_flush /\ UNCHANGED <<out, msg, nraw, nmsg, stamp, msgLen>>
  /\ wop' = CASE ~allow_flush -> Idle
              [] allow_flush /\ msg'.len > 0 -> [op |-> "lull", n |-> msg'.size - msg'.len + 1]
              [] OTHER -> [op |-> "flush", n |-> out.size - out.len + 1]
  /\ UNCHANGED <<raw_data_header_pos, raw_flushing_ends_before, am_receiver, nflush, pipe, reader>>

\* io_flush: first the raw data, then the messages.  "n" is the room that
\* perform_io is asked for.
FlushMsgs == IF msg.len > 0 THEN [op |-> "flushmsg", n |-> msg.size] ELSE Idle
io_flush(type) ==
  /\ wop = Idle /\ nflush < MaxFlush /\ Budget(1)
  /\ nflush' = nflush + 1
  /\ wop' = IF out.len > Hdr /\ type # "msg"
            THEN IF type = "full" THEN [op |-> "flushfull", n |-> out.size - Hdr]
                                  ELSE [op |-> "flush", n |-> out.size - out.len + 1]
            ELSE FlushMsgs
  /\ UNCHANGED <<out, msg, raw_data_header_pos, raw_flushing_ends_before, am_receiver,
                 nraw, nmsg, stamp, msgLen, pipe, reader>>

\* perform_io for input writes what it can meanwhile, and returns as soon as
\* the input is there.
AwaitInput ==
  /\ wop = Idle /\ (out.len > Hdr \/ msg.len > 0)
  /\ wop' = [op |-> "input", n |-> 0]
  /\ UNCHANGED <<out, msg, raw_data_header_pos, raw_flushing_ends_before, am_receiver,
                 nraw, nmsg, nflush, stamp, msgLen, pipe, reader>>

Satisfied ==
  CASE wop.op \in {"write", "flush", "flushfull"} -> OutRoom(wop.n)
    [] wop.op = "send" -> MsgRoom(Needed(wop.n))
    [] wop.op \in {"flushmsg", "lull"} -> MsgRoom(wop.n)
    [] OTHER -> FALSE

\* perform_io returns and its caller goes on.
Resume ==
  /\ Satisfied \/ wop.op = "input"
  /\ \/ wop.op = "write" /\ PutRaw(wop.n) /\ wop' = Idle
     \/ wop.op = "send" /\ PutMsg(msg, "msg", wop.n) /\ wop' = Idle
     \/ wop.op \in {"flush", "flushfull"} /\ wop' = FlushMsgs /\ UNCHANGED <<out, msg, nraw, nmsg, stamp, msgLen>>
     \/ wop.op \in {"flushmsg", "lull", "input"} /\ wop' = Idle /\ UNCHANGED <<out, msg, nraw, nmsg, stamp, msgLen>>
  /\ UNCHANGED <<raw_data_header_pos, raw_flushing_ends_before, am_receiver, nflush, pipe, reader>>

\* The next MSG_DATA chunk: its header is filled in and room for the
\* header after it is reserved.
StartChunk ==
  LET end == out.pos + out.len
      filled == Poke(out, raw_data_header_pos, HdrCells("data", 0, out.len - Hdr))
      wraps == HeaderWraps(out, end)
  IN [out |-> [(IF wraps THEN reduce_iobuf_size(filled, end) ELSE filled) EXCEPT !.len = @ + Hdr],
      hdr |-> IF end >= out.size THEN end - out.size ELSE IF wraps THEN 0 ELSE end,
      ends |-> end]

\* What is written next: the rest of a chunk, then messages, then raw data.
OutFirst ==
  \/ raw_flushing_ends_before # 0
  \/ msg.len = 0 /\ out.len > Hdr /\ wop.op \notin {"send", "flushmsg", "lull"}

\* Free cells hold nothing that matters: they are blank.
Blanks(n) == [k \in 1..n |-> Blank]

\* b after n of its bytes have been written
Written(b, n, empty) ==
  LET f == Poke(b, b.pos, Blanks(n))
      c == IF b.pos + n = b.size THEN restore_iobuf_size([f EXCEPT !.pos = 0])
                                 ELSE [f EXCEPT !.pos = @ + n]
      d == [c EXCEPT !.len = @ - n]
  IN IF d.len = empty THEN restore_iobuf_size([d EXCEPT !.pos = 0]) ELSE d

\* One round of perform_io on the writing side.
PerformWrite ==
  /\ wop # Idle /\ ~Satisfied
  /\ Len(pipe) < PipeCap
  /\ IF OutFirst
     THEN LET c == IF raw_flushing_ends_before = 0 THEN StartChunk
                   ELSE [out |-> out, hdr |-> raw_data_header_pos, ends |-> raw_flushing_ends_before]
              o == c.out
              len == Min({c.ends - o.pos, o.size - o.pos})
          IN \E n \in 1..Min({len, PipeCap - Len(pipe)}) :
               LET endOfBuf == o.pos + n = o.size
                   ends == IF endOfBuf THEN c.ends - o.size
                           ELSE IF o.pos + n = c.ends THEN 0 ELSE c.ends
               IN /\ pipe' = pipe \o [k \in 1..n |-> o.buf[o.pos + k - 1]]
                  /\ out' = Written(o, n, Hdr)
                  /\ raw_flushing_ends_before' = ends
                  /\ raw_data_header_pos' = IF o.len - n = Hdr THEN 0 ELSE c.hdr
                  /\ UNCHANGED msg
     ELSE /\ msg.len > 0
          /\ \E n \in 1..Min({msg.len, msg.size - msg.pos, PipeCap - Len(pipe)}) :
               /\ pipe' = pipe \o [k \in 1..n |-> msg.buf[msg.pos + k - 1]]
               /\ msg' = Written(msg, n, 0)
               /\ UNCHANGED <<out, raw_data_header_pos, raw_flushing_ends_before>>
  /\ UNCHANGED <<am_receiver, wop, nraw, nmsg, nflush, stamp, msgLen, reader>>
----------------------------------------------------------------------------
(* Reader *)

\* perform_io starts over at the beginning of an empty input buffer.
Reset == in.len = 0 /\ in.pos # 0
in0 == IF Reset THEN [in EXCEPT !.pos = 0] ELSE in
ends0 == IF Reset /\ raw_input_ends_before # 0 THEN raw_input_ends_before - in.pos
                                                ELSE raw_input_ends_before

\* A raw read is called: pos0 is where raw_read_buf believes it starts, and
\* "direct" is raw_read_int's shortcut.
Call(op, n, code, id) ==
  /\ rop' = [op |-> op, n |-> n, code |-> code, id |-> id, pos0 |-> in.pos,
             direct |-> op = "hdr" /\ in.size - in.pos >= Hdr]
  /\ in' = in0
  /\ raw_input_ends_before' = ends0

\* read_buf: a message header first if no chunk is open, else at most what
\* is left of the chunk.
read_buf(len) ==
  /\ rop = Idle
  /\ IF raw_input_ends_before = 0 THEN Call("hdr", Hdr, "none", 0)
     ELSE Call("raw", Min({len, raw_input_ends_before - in.pos, in.size}), "none", 0)
  /\ UNCHANGED <<gotRaw, gotMsg, pipe, writer>>

\* One round of perform_io on the reading side.  It also reads ahead while
\* its process waits to write (rop = Idle).
PerformRead ==
  LET b == IF rop = Idle THEN in0 ELSE in
      p == IF b.pos + b.len >= b.size THEN b.pos + b.len - b.size ELSE b.pos + b.len
      len == IF b.pos + b.len >= b.size THEN b.size - b.len ELSE b.size - p
  IN /\ rop = Idle \/ in.len < rop.n
     /\ pipe # <<>> /\ b.len < b.size
     /\ \E n \in 1..Min({len, Len(pipe)}) :
          /\ in' = [Poke(b, p, SubSeq(pipe, 1, n)) EXCEPT !.len = @ + n]
          /\ pipe' = SubSeq(pipe, n + 1, Len(pipe))
     /\ raw_input_ends_before' = IF rop = Idle THEN ends0 ELSE raw_input_ends_before
     /\ UNCHANGED <<rop, gotRaw, gotMsg, writer>>

\* PIO_CONSUME_INPUT: the input buffer and the end of the chunk after n bytes
ConsumedPos(n) == IF in.pos + n >= in.size THEN in.pos + n - in.size ELSE in.pos + n
ConsumedEnds(n) ==
  IF in.pos + n = raw_input_ends_before \/ raw_input_ends_before = 0 THEN 0
  ELSE IF in.pos + n >= in.size THEN raw_input_ends_before - in.size
  ELSE raw_input_ends_before

\* The bytes that raw_read_int and raw_read_buf return.
RawRead(n) ==
  LET pos == ConsumedPos(n)
      siz == n - pos
  IN IF ~rop.direct /\ pos <= rop.pos0 /\ n > 0
     THEN [k \in 1..n |-> IF k <= siz THEN in.buf[in.pos + k - 1] ELSE in.buf[k - siz - 1]]
     ELSE [k \in 1..n |-> in.buf[in.pos + k - 1]]

\* read_a_msg and read_buf go on with what perform_io returns.
Consume ==
  /\ rop # Idle /\ in.len >= rop.n
  /\ LET data == RawRead(rop.n)
         pos == ConsumedPos(rop.n)
         IsHdr(code) == rop.op = "hdr" /\ data[1] # Blank /\ data[1][1] = "hdr" /\ data[1][2] = code
     IN /\ in' = [Copy(in, in.pos, Blanks(rop.n)) EXCEPT !.pos = pos, !.len = @ - rop.n]
        /\ CASE IsHdr("data") ->
                  /\ raw_input_ends_before' = IF data[1][4] = 0 THEN 0 ELSE pos + data[1][4]
                  /\ rop' = Idle
                  /\ gotMsg' = IF data[1][4] = 0 THEN Append(gotMsg, <<>>) ELSE gotMsg
                  /\ UNCHANGED gotRaw
             [] IsHdr("msg") ->
                  /\ rop' = [op |-> "body", n |-> data[1][4], code |-> "msg", id |-> data[1][3],
                             pos0 |-> pos, direct |-> FALSE]
                  /\ raw_input_ends_before' = 0
                  /\ UNCHANGED <<gotRaw, gotMsg>>
             [] rop.op = "body" ->
                  /\ gotMsg' = Append(gotMsg, data)
                  /\ rop' = Idle
                  /\ raw_input_ends_before' = 0
                  /\ UNCHANGED gotRaw
             [] OTHER ->   \* raw data, or a header that is none: "unexpected tag"
                  /\ gotRaw' = gotRaw \o data
                  /\ rop' = Idle
                  /\ raw_input_ends_before' = ConsumedEnds(rop.n)
                  /\ UNCHANGED gotMsg
  /\ UNCHANGED <<pipe, writer>>
----------------------------------------------------------------------------
Writer == \/ \E n \in 1..MaxLen : write_buf(n)
          \/ \E n \in 0..MaxLen : send_msg(n)
          \/ \E f \in BOOLEAN : maybe_send_keepalive(f)
          \/ \E t \in {"full", "normal", "msg"} : io_flush(t)
          \/ AwaitInput
          \/ Resume
          \/ PerformWrite
Reader == \/ \E n \in 1..MaxLen : read_buf(n)
          \/ PerformRead
          \/ Consume
IoNext == Writer \/ Reader
----------------------------------------------------------------------------
(* Properties *)

\* The positions stay inside the allocated buffers, and only a full header
\* before the end of a buffer makes it shorter than it was allocated.
PositionsInside ==
  /\ \A b \in {out, msg} :
        /\ b.pos \in 0..b.size /\ b.size \in 1..(Len(msgLen) + 1) * (OutSize + MsgSize) * 4
        /\ restore_iobuf_size(b).size - b.size < Hdr
  /\ in.pos \in 0..(in.size - 1) /\ in.len \in 0..in.size
  /\ raw_input_ends_before >= 0 /\ raw_flushing_ends_before >= 0

\* The reader is given the raw bytes exactly as they were written, whatever
\* messages were put between them and wherever the buffers wrapped.
RawDataIntact == gotRaw = [i \in 1..Len(gotRaw) |-> RawCell(i)]

\* Messages arrive whole and in the order in which they were sent.
MessagesIntact ==
  gotMsg = [i \in 1..Len(gotMsg) |-> IF i > Len(msgLen) \/ msgLen[i] = KeepAlive THEN <<>>
                                     ELSE MsgCells(i, msgLen[i])]

\* Raw data never overtakes a message that was sent before it: the generator
\* knows of every MSG_REDO when it sees the NDX_DONE that follows it.
NeverOvertaken == \A i \in 1..Len(gotRaw) : stamp[i] <= Len(gotMsg)

\* No store goes past the allocated end of a buffer, and a header is stored
\* in one piece.
NoOverrun ==
  /\ \A i \in OutSize..(OutSize + Hdr - 1) : out.buf[i] = Blank
  /\ \A i \in DOMAIN msg.buf : i >= restore_iobuf_size(msg).size => msg.buf[i] = Blank

\* Whoever waits in perform_io for room has something to write that makes
\* room: no process waits for ever for a reader that reads.
NeverStuck == wop.op \notin {"idle", "input"} /\ ~Satisfied => OutFirst \/ msg.len > 0

\* Raw data and messages arrive complete and in their order, no message is
\* overtaken by data written after it, and no buffer is written outside its
\* bounds or over bytes that are still needed (perform_io, send_msg,
\* write_buf), whatever the descriptors take and give.
BytesArrive == PositionsInside /\ NoOverrun /\ RawDataIntact /\ MessagesIntact /\ NeverOvertaken
============================================================================
