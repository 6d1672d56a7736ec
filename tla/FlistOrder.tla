----------------------------- MODULE FlistOrder -----------------------------
(***************************************************************************)
(* The order of a file list, how it is sorted and cleaned, and how an      *)
(* entry is found in it (src/rsync/flist.c).  Sender and receiver sort the *)
(* same entries on their own and then speak of them by index only.         *)
(*                                                                         *)
(* An entry has a path (a sequence of names, each a sequence of            *)
(* characters), abs for a path that was sent with a leading slash, its     *)
(* kind, its flags and, once it is cleared, the distances to the next      *)
(* entries that are not.                                                   *)
(***************************************************************************)
EXTENDS Integers, Sequences, FiniteSets, SequencesExt

Slash == 47
DotName == <<46>>

Joined(path) == FoldLeft(LAMBDA s, n : IF s = <<>> THEN n ELSE s \o <<Slash>> \o n, <<>>, path)
dirname(f) == (IF f.abs THEN <<Slash>> ELSE <<>>) \o Joined(Front(f.path))
HasDir(f) == Len(f.path) > 1 \/ f.abs
basename(f) == Last(f.path)
f_name(f) == f.path

\* The characters of a name in the order in which they are compared, each
\* with its type: 1 for a part of a path, 0 for an item that is no directory.
\* A directory ends with a slash, "." is empty.
Typed(s, t) == [i \in 1..Len(s) |-> <<t, s[i]>>]
Stream(proto, f) ==
  LET t_path == IF proto >= 29 THEN 1 ELSE 0
      type == IF f.isdir THEN t_path ELSE 0
  IN (IF ~HasDir(f) THEN <<>>
      ELSE Typed(IF Len(f.path) > 1 \/ ~f.abs THEN dirname(f) \o <<Slash>> ELSE <<Slash>>, t_path))
     \o IF type = 1 /\ basename(f) = DotName THEN <<>>
        ELSE Typed(basename(f) \o IF type = 1 THEN <<Slash>> ELSE <<>>, type)

\* the first difference decides: by its type, then by its character
Differ(c, d) == IF c[1] # d[1] THEN c[1] - d[1] ELSE c[2] - d[2]
Compare(a, b) ==
  IF a = b THEN 0
  ELSE LET i == CHOOSE k \in 1..Len(a) : a[k] # b[k] /\ SubSeq(a, 1, k - 1) = SubSeq(b, 1, k - 1)
       IN Differ(a[i], b[i])

f_name_cmp(proto, f1, f2) ==
  IF ~f1.active \/ ~f2.active THEN IF ~f1.active /\ ~f2.active THEN 0 ELSE IF f2.active THEN -1 ELSE 1
  ELSE Compare(Append(Stream(proto, f1), <<0, 0>>), Append(Stream(proto, f2), <<0, 0>>))

----------------------------------------------------------------------------
(* The merge sort is stable: equal names stay in the order in which they   *)
(* were sent.                                                              *)

RECURSIVE Merge(_, _, _)
Merge(proto, a, b) ==
  IF a = <<>> THEN b ELSE IF b = <<>> THEN a
  ELSE IF f_name_cmp(proto, a[1], b[1]) <= 0 THEN <<a[1]>> \o Merge(proto, Tail(a), b)
  ELSE <<b[1]>> \o Merge(proto, a, Tail(b))

RECURSIVE fsort(_, _)
fsort(proto, s) ==
  IF Len(s) <= 1 THEN s
  ELSE LET n1 == Len(s) \div 2
       IN Merge(proto, fsort(proto, SubSeq(s, 1, n1)), fsort(proto, SubSeq(s, n1 + 1, Len(s))))
----------------------------------------------------------------------------
(* A list is [sorted, low, high]; the entries at low and high are active   *)
(* unless there is none.  A search keeps the distances it has measured.    *)

clear_file(f) == [f EXCEPT !.active = FALSE, !.isdir = FALSE, !.depth = 1, !.len = 1, !.flags = {}]

RECURSIVE Upwards(_, _)
Upwards(s, i) == IF s[i].active THEN i ELSE Upwards(s, i + s[i].depth)
RECURSIVE Downwards(_, _)
Downwards(s, i) == IF s[i].active THEN i ELSE Downwards(s, i - s[i].len)

\* indices start at 1, 0 is "not found"
RECURSIVE Search(_, _, _, _, _)
Search(proto, s, f, low, high) ==
  LET mid == (low + high - 2) \div 2 + 1
      up == Upwards(s, mid)
      s2 == IF up = mid THEN s ELSE [s EXCEPT ![mid].depth = up - mid]
      down == Downwards(s2, mid)
      diff == f_name_cmp(proto, s2[up], f)
  IN IF low > high THEN [at |-> 0, sorted |-> s]
     ELSE IF up > high THEN Search(proto, [s2 EXCEPT ![mid].len = mid - down], f, low, down)
     ELSE IF diff = 0 THEN [at |-> IF proto < 29 /\ s2[up].isdir # f.isdir THEN 0 ELSE up, sorted |-> s2]
     ELSE IF diff < 0 THEN Search(proto, s2, f, up + 1, high)
     ELSE Search(proto, s2, f, low, mid - 1)

flist_find(proto, l, f) == Search(proto, l.sorted, f, l.low, l.high)

flist_find_ignore_dirness(proto, l, f) ==
  LET one == flist_find(proto, l, f)
  IN IF one.at > 0 THEN one
     ELSE flist_find(proto, [l EXCEPT !.sorted = one.sorted], [f EXCEPT !.isdir = ~@])

\* want_dir_match: 1 directories, 0 others, -1 both
flist_find_name(proto, l, path, want_dir_match) ==
  LET f == [path |-> path, abs |-> FALSE, isdir |-> want_dir_match > 0, active |-> TRUE]
  IN IF want_dir_match < 0 THEN flist_find_ignore_dirness(proto, l, f) ELSE flist_find(proto, l, f)
----------------------------------------------------------------------------
(* Cleaning: of entries with one name all but one are cleared (receiver)   *)
(* or, for directories, marked (sender with incremental recursion).        *)

FirstActive(s, i) ==
  LET A == {k \in i..Len(s) : s[k].active} IN IF A = {} THEN Len(s) + 1 ELSE CHOOSE k \in A : \A m \in A : k <= m
LastActive(s, i) ==
  LET A == {k \in 1..i : s[k].active} IN IF A = {} THEN 0 ELSE CHOOSE k \in A : \A m \in A : m <= k

Merged(fp, file) ==
  [fp EXCEPT !.flags = (@ \cup (file.flags \cap {"TOP_DIR", "CONTENT_DIR"}))
                       \ ({"IMPLIED_DIR"} \ file.flags)]

\* The entry that file duplicates: the one before it, or for a directory a
\* file of that name anywhere before it.
DuplicateOf(proto, l, file) ==
  IF f_name_cmp(proto, file, l.sorted[l.prev]) = 0 THEN [at |-> l.prev, sorted |-> l.sorted]
  ELSE IF proto >= 29 /\ file.isdir THEN Search(proto, l.sorted, [file EXCEPT !.isdir = FALSE], l.low, l.prev)
  ELSE [at |-> 0, sorted |-> l.sorted]

\* what becomes of s when entry i duplicates entry j and one is dropped
Dropped(sender, s, i, j, drop) ==
  LET s1 == IF ~s[i].isdir \/ drop = j THEN s
            ELSE IF sender THEN [s EXCEPT ![i].flags = @ \cup {"DUPLICATE"}]
            ELSE [s EXCEPT ![j] = Merged(@, s[i])]
  IN IF sender THEN s1 ELSE [s1 EXCEPT ![drop] = clear_file(@)]

\* the low end moves up when its entry is the one that is dropped
Relow(low, drop, i, next) == IF low = drop THEN IF next < i THEN next ELSE i ELSE low

CleanAgainst(sender, l, i, s, j) ==
  IF s[i].isdir /\ ~s[j].isdir
  THEN LET kept == Dropped(sender, s, i, j, j)
       IN [l EXCEPT !.sorted = kept, !.prev = i, !.low = Relow(@, j, i, FirstActive(kept, j + 1))]
  ELSE [l EXCEPT !.sorted = Dropped(sender, s, i, j, i)]

\* one round of the loop: entry i against what is kept so far
CleanHit(sender, l, i, hit) ==
  IF hit.at = 0 THEN [l EXCEPT !.sorted = hit.sorted, !.prev = i]
  ELSE CleanAgainst(sender, l, i, hit.sorted, hit.at)

CleanOne(proto, sender, l, i) ==
  IF ~l.sorted[i].active THEN l ELSE CleanHit(sender, l, i, DuplicateOf(proto, l, l.sorted[i]))

\* --relative: the leading slashes go once the list is sorted
Stripped(l) == [l EXCEPT !.sorted = [i \in 1..Len(l.sorted) |->
                  IF i \in l.low..l.high THEN [l.sorted[i] EXCEPT !.abs = FALSE] ELSE l.sorted[i]]]

KeepThrough(pending) == <<>>

\* --prune-empty-dirs.  pending is the chain of directories, innermost
\* first, that have nothing but directories in them so far; excluded are the
\* names that the filter rules hide (name_is_excluded).
PruneOne(excluded, st, i) ==
  LET file == st.sorted[i]
      back == {k \in 1..Len(st.pending) : st.sorted[st.pending[k]].depth >= file.depth}
      left == SubSeq(st.pending, Cardinality(back) + 1, Len(st.pending))
      pruned == [k \in 1..Len(st.sorted) |->
                   IF \E b \in back : st.pending[b] = k THEN clear_file(st.sorted[k]) ELSE st.sorted[k]]
  IN IF file.isdir /\ file.depth > 0
     THEN [sorted |-> pruned, pending |-> IF Last(f_name(file)) \in excluded THEN KeepThrough(left) ELSE <<i>> \o left]
     ELSE [st EXCEPT !.pending = KeepThrough(@)]

\* the directories that are still pending at the end go too
PruneRest(end) ==
  [k \in 1..Len(end.sorted) |->
     IF \E b \in 1..Len(end.pending) : end.pending[b] = k THEN clear_file(end.sorted[k]) ELSE end.sorted[k]]

\* low and high of a list whose entries s have been pruned
Narrowed(l, s) ==
  LET a == FirstActive(s, l.low)
      low == IF a > l.high THEN l.high + 1 ELSE a
      z == LastActive(s, l.high)
  IN [l EXCEPT !.sorted = s, !.low = low, !.high = IF z < low THEN low - 1 ELSE z]

Pruned(l, excluded) ==
  Narrowed(l, PruneRest(FoldLeft(LAMBDA st, i : PruneOne(excluded, st, i),
                                 [sorted |-> l.sorted, pending |-> <<>>],
                                 [k \in 1..(l.high - l.low + 1) |-> l.low + k - 1])))

\* a sorted list, cleaned from its first active entry on
CleanFrom(o, sender, s, first) ==
  FoldLeft(LAMBDA l, i : CleanOne(o.proto, sender, l, i),
           [sorted |-> s, low |-> first, prev |-> first, high |-> Len(s)],
           [k \in 1..(Len(s) - first) |-> first + k])
Cleaned(o, sender, s) ==
  LET a == FirstActive(s, 1) IN CleanFrom(o, sender, s, IF a > Len(s) THEN 1 ELSE a)

CutHigh(l) == [l EXCEPT !.high = l.prev]
StripIf(strip_root, l) == IF strip_root THEN Stripped(l) ELSE l
PruneIf(o, sender, l) == IF o.prune_empty_dirs /\ ~sender THEN Pruned(l, o.excluded) ELSE l

flist_sort_and_clean(o, sender, files, strip_root) ==
  IF files = <<>> THEN [sorted |-> <<>>, low |-> 1, prev |-> 1, high |-> 0]
  ELSE IF sender /\ ~o.inc_recurse
  THEN [sorted |-> fsort(o.proto, files), low |-> 1, prev |-> Len(files), high |-> Len(files)]
  ELSE PruneIf(o, sender, StripIf(strip_root, CutHigh(Cleaned(o, sender, fsort(o.proto, files)))))
=============================================================================
