---------------------------- MODULE DelayDelete ----------------------------
(***************************************************************************)
(* --delete-delay: the generator notes what it will delete in a buffer,    *)
(* which it flushes to an unlinked temporary file, and reads it all back   *)
(* at the end (generator.c).  A note is the characters "!" (if the owner   *)
(* may not write), some of its name, and a zero.                           *)
(***************************************************************************)
EXTENDS Integers, FiniteSets, SequencesExt

CONSTANTS
  Victims,          \* what is to be deleted: [name, len, flag]
  deldelay_size,   \* the size of the buffer
  MaxFailures      \* calls that fail in a behaviour

ASSUME BufferAssumption == \A x \in Victims : x.len < deldelay_size

VARIABLE dd

Zero == "0"
Mark == "!"
NameOf(x) == [i \in 1..x.len |-> IF i = x.len THEN Zero ELSE x.name]

(***************************************************************************)
(* Writing.  "ok" says whether the last call worked; bad, if not empty, is *)
(* the call that fails next: "temp" or "write".                            *)
(***************************************************************************)
GiveUp(d) == [d EXCEPT !.during = FALSE, !.after = ~d.inc_recurse, !.ok = FALSE]

start_delete_delay_temp(d, bad) == IF bad = "temp" THEN GiveUp(d) ELSE [d EXCEPT !.fd = TRUE, !.ok = TRUE]

flush_delete_delay(d, bad) ==
  LET t == IF d.fd THEN [d EXCEPT !.ok = TRUE] ELSE start_delete_delay_temp(d, bad)
  IN IF ~t.ok THEN t
     ELSE IF bad = "write" THEN GiveUp(t)
     ELSE [t EXCEPT !.file = @ \o t.buf, !.buf = <<>>]

\* The mark may be flushed before the name, which always follows it.
remember_delete(d, x, bad) ==
  LET f == IF Len(d.buf) = deldelay_size THEN flush_delete_delay(d, bad) ELSE [d EXCEPT !.ok = TRUE]
      m == IF x.flag THEN [f EXCEPT !.buf = Append(@, Mark)] ELSE f
      g == IF Len(m.buf) + x.len > deldelay_size THEN flush_delete_delay(m, bad) ELSE m
  IN IF ~f.ok THEN f ELSE IF ~g.ok THEN g ELSE [g EXCEPT !.buf = @ \o NameOf(x)]

(***************************************************************************)
(* Reading.                                                                *)
(***************************************************************************)
\* r: [buf, pos, file (what is not read yet)]
Refill(r) ==
  LET kept == SubSeq(r.buf, r.pos + 1, Len(r.buf))
      room == deldelay_size - Len(kept)
      n == IF room <= Len(r.file) THEN room ELSE Len(r.file)
  IN [r EXCEPT !.buf = kept \o SubSeq(r.file, 1, n), !.pos = 0, !.file = SubSeq(@, n + 1, Len(@))]

Parsed(line) ==
  LET flag == line[1] = Mark
      name == IF flag THEN Tail(line) ELSE line
  IN [name |-> name[1], len |-> Len(name), flag |-> flag]

RECURSIVE read_delay_lines(_, _)
\* Calls of read_delay_line until it returns -1 (errors of read are left out).
read_delay_lines(r, fd) ==
  LET ends == {j \in r.pos + 1 .. Len(r.buf) : r.buf[j] = Zero}
      j == CHOOSE k \in ends : \A l \in ends : k <= l
      full == Len(r.buf) - r.pos = deldelay_size
  IN IF ends # {} THEN <<Parsed(SubSeq(r.buf, r.pos + 1, j))>> \o read_delay_lines([r EXCEPT !.pos = j], fd)
     ELSE IF ~fd \/ full \/ r.file = <<>> THEN <<>>
     ELSE read_delay_lines(Refill(r), fd)

\* What delete_item is called for.
do_delayed_deletions(d, bad) ==
  LET f == IF d.fd /\ d.buf # <<>> THEN flush_delete_delay(d, bad) ELSE [d EXCEPT !.ok = TRUE]
      lines == read_delay_lines([buf |-> f.buf, pos |-> 0, file |-> f.file], f.fd)
  IN IF ~f.ok THEN f ELSE [f EXCEPT !.gone = lines]

(***************************************************************************)
(* A transfer: directories are gone through one file at a time; once        *)
(* remember_delete fails, the rest of the walk deletes nothing.             *)
(***************************************************************************)
DelayIdle == dd = [step |-> "idle"]
DelayInit == \E inc \in BOOLEAN :
  dd = [step |-> "walk", inc_recurse |-> inc, during |-> TRUE, after |-> FALSE, ok |-> TRUE, fd |-> FALSE,
        buf |-> <<>>, file |-> <<>>, noted |-> <<>>, gone |-> <<>>, failures |-> 0]

Failures == {"no"} \union (IF dd.failures < MaxFailures THEN {"temp", "write"} ELSE {})

DelayVictim(x) ==
  /\ dd.step = "walk" /\ dd.during /\ \A i \in 1..Len(dd.noted) : dd.noted[i] # x
  /\ \E bad \in Failures :
       LET d == remember_delete(dd, x, bad)
       IN dd' = [d EXCEPT !.noted = Append(@, x), !.failures = IF d.ok THEN @ ELSE @ + 1]

\* The end of generate_files; do_delete_pass deletes whatever is doomed.
DelayFinish ==
  /\ dd.step = "walk" /\ (dd.during => Len(dd.noted) = Cardinality(Victims))
  /\ \E bad \in Failures :
       LET d == IF dd.during THEN do_delayed_deletions(dd, bad) ELSE dd
       IN dd' = [d EXCEPT !.step = "done", !.gone = IF d.after THEN SetToSeq(Victims) ELSE @,
                   !.failures = IF d.ok THEN @ ELSE @ + 1]

DelayNext == (\E x \in Victims : DelayVictim(x)) \/ DelayFinish
----------------------------------------------------------------------------
\* What was noted is deleted in the end, in order, with the flag of each,
\* however the notes fell on the edges of the buffer; without an incremental
\* scan all is deleted even if the temporary file failed.  Only with one, and
\* after such a failure, nothing is.
DelayedAllDeleted ==
  dd.step = "done" =>
    IF dd.during THEN dd.gone = dd.noted
    ELSE ToSet(dd.gone) = IF dd.inc_recurse THEN {} ELSE Victims
=============================================================================
