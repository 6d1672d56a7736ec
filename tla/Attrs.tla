-------------------------------- MODULE Attrs --------------------------------
(***************************************************************************)
(* Extended attributes (xattrs.c) and access control lists (acls.c) on      *)
(* their way from the sender to the destination.  Both keep a list of the   *)
(* different values on each side and send an index for a value that was     *)
(* sent before.  A long attribute is first sent as a checksum: the          *)
(* generator compares it with the file that is there, asks the sender for   *)
(* what is missing, and the receiver gets it with the file.  Sender,        *)
(* generator and receiver each have their own copy of the list.             *)
(*                                                                          *)
(* A name is the number of its place in strcmp order.  A value is a number; *)
(* one of at least LongFrom has more than MAX_FULL_DATUM bytes.             *)
(***************************************************************************)
EXTENDS Integers, Sequences, FiniteSets, SequencesExt

CONSTANTS
  AttrCases,    \* sequences of files [src, dst, exists, data, lost], with
                \* am_root of sender and receiver, and the number of -X
  AclFiles,     \* the sequences of files with an ACL: [acl, sp, dst, dsp, dir, def]
  AclRoots,     \* am_root of the receiver
  StatFiles,    \* the modes, owners and devices that --fake-super is to store
  LocalId       \* what match_uid and match_gid return

VARIABLES xa, acl, fake
avars == <<xa, acl, fake>>

SystemAttr == 0       \* system.s
TrustedAttr == 1      \* trusted.t
UserA == 2            \* user.a
StatAttr == 3         \* user.rsync.%stat
Disguised == 4        \* user.rsync.trusted.t
UserZ == 5            \* user.z
IsUser(n) == n >= UserA
LongFrom == 10
IsLong(v) == v >= LongFrom
EmptyAttrs == [n \in {} |-> 0]

(***************************************************************************)
(* Reading and sending the attributes of a file.  An item is                *)
(* [name, val, num, st]: a long one is abbreviated ("abbrev"), asked for    *)
(* ("todo"), dealt with ("done") or, on the receiver, "full".               *)
(***************************************************************************)
rsync_xal_get(attrs, sender, root, level) ==
  LET skipped(n) ==
        \/ IF ~sender /\ root = 0 THEN ~IsUser(n) ELSE n = SystemAttr
        \/ n = StatAttr /\ ((sender /\ level < 2) \/ root < 0)
      names == SetToSortSeq({n \in DOMAIN attrs : ~skipped(n)}, <)
  IN [i \in 1 .. Len(names) |->
        [name |-> names[i], val |-> attrs[names[i]], num |-> i,
         st |-> IF IsLong(attrs[names[i]]) THEN "abbrev" ELSE "full"]]

SameItems(l1, l2) ==
  /\ Len(l1) = Len(l2)
  /\ \A i \in 1 .. Len(l1) : l1[i].name = l2[i].name /\ l1[i].val = l2[i].val

\* The index of an equal list that was sent before, or 0.
find_matching_xattr(lists, l) ==
  LET same == {k \in 1 .. Len(lists) : SameItems(lists[k], l)}
  IN IF same = {} THEN 0 ELSE CHOOSE k \in same : \A j \in same : k <= j

\* send_xattr: a sender with --fake-super takes off the disguise.
SentName(n, root) == IF root < 0 /\ n = Disguised THEN TrustedAttr ELSE n

\* receive_xattr: what a receiver without privileges cannot store is dropped,
\* or hidden in the user namespace with --fake-super, which changes the order.
receive_xattr(l, sroot, root, level) ==
  LET named == [i \in 1 .. Len(l) |-> [l[i] EXCEPT !.name =
                  LET n == SentName(l[i].name, sroot)
                  IN IF root < 0 /\ ~IsUser(n) THEN Disguised ELSE n]]
      kept == SelectSeq(named, LAMBDA e : /\ root = 0 => IsUser(e.name)
                                          /\ level < 2 => e.name # StatAttr)
  IN SortSeq(kept, LAMBDA a, b : a.name < b.name)

(***************************************************************************)
(* Requests.                                                                *)
(***************************************************************************)
\* xattr_diff with find_all: whether anything differs, and the sender's list
\* with a mark on the long values that are needed and were not asked for.
xattr_diff(l, rec) ==
  LET has(e) == \E i \in 1 .. Len(rec) : rec[i].name = e.name /\ rec[i].val = e.val
  IN [differs |-> ~SameItems(l, rec),
      list |-> [i \in 1 .. Len(l) |->
                  IF l[i].st = "abbrev" /\ ~has(l[i]) THEN [l[i] EXCEPT !.st = "todo"] ELSE l[i]]]

\* Mutant: only what was asked for is marked as dealt with.
GenKeepsAbbrev(l) ==
  [nums |-> LET todo == SelectSeq(l, LAMBDA e : e.st = "todo")
            IN [i \in 1 .. Len(todo) |-> todo[i].num], list |-> l]

\* send_xattr_request by the generator: the numbers it asks for.  What was
\* left abbreviated is on the disk, and the receiver will find it there.
GenRequest(l) ==
  [nums |-> LET todo == SelectSeq(l, LAMBDA e : e.st = "todo")
            IN [i \in 1 .. Len(todo) |-> todo[i].num],
   list |-> [i \in 1 .. Len(l) |-> IF IsLong(l[i].val) /\ l[i].st # "full"
                                   THEN [l[i] EXCEPT !.st = "done"] ELSE l[i]]]

\* recv_xattr_request on the sender: NoItem for a number that is not there or
\* not abbreviated, which ends the run with a protocol error.
NoItem == [name |-> -1, val |-> 0, num |-> 0, st |-> "full"]
MarkWanted(l, nums) ==
  IF \E i \in 1 .. Len(nums) : ~\E j \in 1 .. Len(l) : l[j].num = nums[i] /\ l[j].st = "abbrev"
  THEN <<NoItem>>
  ELSE [j \in 1 .. Len(l) |-> IF \E i \in 1 .. Len(nums) : nums[i] = l[j].num
                              THEN [l[j] EXCEPT !.st = "todo"] ELSE l[j]]

\* send_xattr_request by the sender: the values, read from the file again.
SendValues(l) ==
  [vals |-> LET todo == SelectSeq(l, LAMBDA e : e.st = "todo")
            IN [i \in 1 .. Len(todo) |-> [num |-> todo[i].num, val |-> todo[i].val]],
   list |-> [i \in 1 .. Len(l) |-> IF l[i].st = "todo" THEN [l[i] EXCEPT !.st = "done"] ELSE l[i]]]

\* recv_xattr_request on the receiver.
StoreValues(l, vals) ==
  IF \E i \in 1 .. Len(vals) : ~\E j \in 1 .. Len(l) : l[j].num = vals[i].num /\ l[j].st = "abbrev"
  THEN <<NoItem>>
  ELSE [j \in 1 .. Len(l) |->
          IF \E i \in 1 .. Len(vals) : vals[i].num = l[j].num THEN [l[j] EXCEPT !.st = "full"] ELSE l[j]]

(***************************************************************************)
(* rsync_xal_set: the attributes of a file from the list; an abbreviated    *)
(* value is looked up in the basis file, and kept for the next files.       *)
(***************************************************************************)
rsync_xal_set(l, cur, basis, root) ==
  LET found(e) == e.name \in DOMAIN basis /\ basis[e.name] = e.val
      there(e) == e.st = "full" \/ found(e)
      put == {i \in 1 .. Len(l) : there(l[i])}
      listed == {l[i].name : i \in 1 .. Len(l)}
      stays == {n \in DOMAIN cur \ listed :
                  \/ IF root <= 0 THEN ~IsUser(n) ELSE n = SystemAttr
                  \/ root < 0 /\ n = StatAttr}
      names == {l[i].name : i \in put} \union stays
               \union {n \in DOMAIN cur : n \in listed /\ ~\E i \in put : l[i].name = n}
  IN [attrs |-> [n \in names |-> IF \E i \in put : l[i].name = n
                                 THEN l[CHOOSE i \in put : l[i].name = n].val ELSE cur[n]],
      list |-> [i \in 1 .. Len(l) |-> IF there(l[i]) THEN [l[i] EXCEPT !.st = "full"] ELSE l[i]],
      missing |-> \E i \in 1 .. Len(l) : ~there(l[i])]

(***************************************************************************)
(* The three processes.  The file list has been sent; files are handled in  *)
(* order by the generator, the sender and the receiver.                     *)
(***************************************************************************)
\* send_xattr for every file of the list, and what the receiver stores.
ListsOf(files, r) ==
  LET add(acc, f) ==
        LET l == rsync_xal_get(f.src, TRUE, r.sroot, r.level)
            k == find_matching_xattr(acc.lists, l)
        IN IF k # 0 THEN [acc EXCEPT !.ndx = Append(@, k)]
           ELSE [lists |-> Append(acc.lists, l), ndx |-> Append(acc.ndx, Len(acc.lists) + 1)]
      all == FoldLeft(add, [lists |-> <<>>, ndx |-> <<>>], files)
      far == [k \in 1 .. Len(all.lists) |-> receive_xattr(all.lists[k], r.sroot, r.rroot, r.level)]
  IN [r |-> r, files |-> files, ndx |-> all.ndx, snd |-> all.lists, gen |-> far, rcv |-> far,
      at |-> 1, toSnd |-> <<>>, toRcv |-> <<>>, handled |-> {}, lost |-> {}, missing |-> {},
      dst |-> [i \in 1 .. Len(files) |-> files[i].dst], error |-> FALSE]

XattrInit == \E c \in AttrCases : xa = ListsOf(c.files, c.r)
XattrIdle == xa = ListsOf(<<>>, [sroot |-> 0, rroot |-> 0, level |-> 1])

\* The generator's itemize for the next file.  exists tells whether the
\* destination has the file.
XattrGenerate ==
  /\ ~xa.error /\ xa.at <= Len(xa.files)
  /\ LET f == xa.files[xa.at]
         k == xa.ndx[xa.at]
         rec == IF f.exists THEN rsync_xal_get(xa.dst[xa.at], FALSE, xa.r.rroot, xa.r.level) ELSE <<>>
         d == xattr_diff(xa.gen[k], rec)
         req == GenRequest(d.list)
         told == d.differs \/ f.data
     IN xa' = [xa EXCEPT !.at = @ + 1,
                         !.gen[k] = IF told THEN req.list ELSE d.list,
                         !.toSnd = IF told
                           THEN Append(@, [f |-> xa.at, x |-> d.differs, nums |-> req.nums]) ELSE @]
  /\ UNCHANGED <<acl, fake>>

\* send_files: the request is read first; a file that cannot be opened is
\* skipped before the values are sent.
XattrSend ==
  /\ ~xa.error /\ xa.toSnd # <<>>
  /\ LET m == Head(xa.toSnd)
         f == xa.files[m.f]
         k == xa.ndx[m.f]
         wanted == IF m.x THEN MarkWanted(xa.snd[k], m.nums) ELSE xa.snd[k]
         out == SendValues(wanted)
         skipped == f.data /\ f.lost
     IN xa' = IF NoItem \in ToSet(wanted) THEN [xa EXCEPT !.error = TRUE]
              ELSE [xa EXCEPT !.toSnd = Tail(@),
                              !.snd[k] = IF m.x /\ ~skipped THEN out.list ELSE wanted,
                              !.lost = IF skipped THEN @ \union {m.f} ELSE @,
                              !.toRcv = IF skipped THEN @
                                ELSE Append(@, [f |-> m.f, x |-> m.x,
                                                vals |-> IF m.x THEN out.vals ELSE <<>>])]
  /\ UNCHANGED <<acl, fake>>

\* recv_files: the values are stored, and the attributes set on the new file
\* with the old one as basis, or on the file itself.
XattrReceive ==
  /\ ~xa.error /\ xa.toRcv # <<>>
  /\ LET m == Head(xa.toRcv)
         f == xa.files[m.f]
         k == xa.ndx[m.f]
         got == IF m.x THEN StoreValues(xa.rcv[k], m.vals) ELSE xa.rcv[k]
         new == rsync_xal_set(got, IF f.data THEN EmptyAttrs ELSE xa.dst[m.f], xa.dst[m.f], xa.r.rroot)
         set == m.x \/ f.data
     IN xa' = IF NoItem \in ToSet(got) THEN [xa EXCEPT !.error = TRUE]
              ELSE [xa EXCEPT !.toRcv = Tail(@),
                              !.rcv[k] = IF set THEN new.list ELSE got,
                              !.dst[m.f] = IF set THEN new.attrs ELSE @,
                              !.missing = IF set /\ new.missing THEN @ \union {m.f} ELSE @,
                              !.handled = @ \union {m.f}]
  /\ UNCHANGED <<acl, fake>>

XattrDone == xa.at > Len(xa.files) /\ xa.toSnd = <<>> /\ xa.toRcv = <<>>

(***************************************************************************)
(* Access control lists.  NO stands for NO_ENTRY.  An ACL is [user, group,  *)
(* mask, other, names], a mode [u, g, o, sp] with sp for the bit (sticky on *)
(* a directory, setuid on a file) that decides when permissions may go on.  *)
(***************************************************************************)
NO == 8
NoAcl == [user |-> NO, group |-> NO, mask |-> NO, other |-> NO, names |-> <<>>]
Or(a, b) == LET bit(x, n) == (x \div n) % 2
                either(n) == IF bit(a, n) + bit(b, n) > 0 THEN n ELSE 0
            IN either(1) + either(2) + either(4)

rsync_acl_get_perms(a) ==
  [u |-> a.user, g |-> IF a.mask # NO THEN a.mask ELSE a.group, o |-> a.other]

\* What can be told from the mode is not sent.
rsync_acl_strip_perms(a, g) ==
  [a EXCEPT !.user = NO, !.other = NO,
            !.group = IF a.mask = NO \/ @ = g THEN NO ELSE @,
            !.mask = IF @ # NO /\ a.names # <<>> /\ @ = g THEN NO ELSE @]

\* find_matching_rsync_acl: the search starts at the last match, or at the
\* end of the list, and goes down, then around.
find_matching_rsync_acl(list, match, a) ==
  LET from == IF match = 0 THEN Len(list) ELSE match
      at(i) == IF from - i >= 1 THEN from - i ELSE from - i + Len(list)
      hits == {i \in 0 .. Len(list) - 1 : list[at(i)] = a}
  IN IF hits = {} THEN 0 ELSE at(CHOOSE i \in hits : \A j \in hits : i <= j)

\* send_rsync_acl: an index, or the entries with their flags.
send_rsync_acl(s, a) ==
  LET k == find_matching_rsync_acl(s.list, s.match, a)
  IN [st |-> [list |-> IF k = 0 THEN Append(s.list, a) ELSE s.list, match |-> k],
      wire |-> IF k # 0 THEN [ndx |-> k, flags |-> {}, acl |-> NoAcl]
               ELSE [ndx |-> 0, acl |-> a,
                     flags |-> {e \in {"user", "group", "mask", "other"} : a[e] # NO}
                               \union (IF a.names # <<>> THEN {"names"} ELSE {})]]

\* recv_ida_entries with incremental recursion; match_acl_ids does the same
\* to all entries when the whole list has arrived.
MapIds(names) == [i \in 1 .. Len(names) |-> [names[i] EXCEPT !.id = LocalId[@]]]

\* recv_rsync_acl: a mask that is needed and was not sent is that of the mode,
\* or for a default ACL the union of the entries.
recv_rsync_acl(list, w, g, access) ==
  LET names == IF "names" \in w.flags THEN MapIds(w.acl.names) ELSE <<>>
      one(e) == IF e \in w.flags THEN w.acl[e] ELSE NO
      bits == FoldLeft(LAMBDA acc, e : Or(acc, e.access), 0, names)
      mask == IF names # <<>> /\ one("mask") = NO
              THEN IF access THEN g ELSE Or(bits, IF one("group") = NO THEN 0 ELSE one("group"))
              ELSE one("mask")
      a == [user |-> one("user"), group |-> one("group"), mask |-> mask, other |-> one("other"),
            names |-> names]
  IN IF w.ndx # 0 THEN [list |-> list, ndx |-> w.ndx]
     ELSE [list |-> Append(list, a), ndx |-> Len(list) + 1]

\* pack_smb_acl, without the mark of a missing entry.
pack_smb_acl(a) ==
  LET bits(x) == IF x = NO THEN 0 ELSE x
  IN [a EXCEPT !.user = bits(@), !.group = bits(@), !.other = bits(@)]

\* Whether the entries that the mode does not hold are equal.
rsync_acl_equal_enough(have, a, g) ==
  /\ (have.mask = NO) = (a.mask = NO)
  /\ have.mask # NO => have.group = (IF a.group = NO THEN g ELSE a.group)
  /\ have.names = a.names

\* change_sacl_perms: permissions for others wait until a sticky bit is on or
\* a setuid bit is off.
change_sacl_perms(s, a, dir, old, m) ==
  LET wait == IF dir THEN m.sp /\ ~old ELSE old /\ ~m.sp
      n == IF wait THEN [m EXCEPT !.g = 0, !.o = 0] ELSE m
  IN [s EXCEPT !.user = n.u, !.other = n.o,
               !.group = IF a.group = NO THEN n.g ELSE @,
               !.mask = IF a.mask # NO THEN n.g ELSE @]

\* chmod on a file with an ACL (external): the group bits are the mask.
Chmod(a, m) ==
  [a EXCEPT !.user = m.u, !.other = m.o,
            !.mask = IF @ # NO THEN m.g ELSE NO, !.group = IF a.mask = NO THEN m.g ELSE @]

\* The ACL that a file gets: set_acl, then chmod to the mode of the file.
set_acl(have, old, a, dir, m) ==
  IF rsync_acl_equal_enough(have, a, m.g) THEN Chmod(have, m)
  ELSE Chmod(change_sacl_perms(pack_smb_acl(a), a, dir, old, m), m)

\* With --fake-super the entries are stored as they came; get_rsync_acl puts
\* the mode in for what is missing.
FakeRead(a, m) ==
  [a EXCEPT !.user = IF @ = NO THEN m.u ELSE @, !.group = IF @ = NO THEN m.g ELSE @,
            !.other = IF @ = NO THEN m.o ELSE @]

ModeOf(f) == [sp |-> f.sp] @@ rsync_acl_get_perms(f.acl)

AclStart(files, r) ==
  [r |-> r, files |-> files, at |-> 1,
   acc |-> [list |-> <<>>, match |-> 0], def |-> [list |-> <<>>, match |-> 0],
   racc |-> <<>>, rdef |-> <<>>, got |-> <<>>, dst |-> <<>>]
AclInit == \E files \in AclFiles, r \in AclRoots : acl = AclStart(files, r)
AclIdle == acl = AclStart(<<>>, 0)

\* send_acl and receive_acl for the next entry of the file list.
AclSend ==
  /\ acl.at <= Len(acl.files)
  /\ LET f == acl.files[acl.at]
         m == ModeOf(f)
         w == send_rsync_acl(acl.acc, rsync_acl_strip_perms(f.acl, m.g))
         e == recv_rsync_acl(acl.racc, w.wire, m.g, TRUE)
         dw == send_rsync_acl(acl.def, f.def)
         de == recv_rsync_acl(acl.rdef, dw.wire, 0, FALSE)
     IN acl' = [acl EXCEPT !.at = @ + 1, !.acc = w.st, !.racc = e.list,
                           !.def = IF f.dir THEN dw.st ELSE @,
                           !.rdef = IF f.dir THEN de.list ELSE @,
                           !.got = Append(@, [acc |-> e.ndx, def |-> IF f.dir THEN de.ndx ELSE 0])]
  /\ UNCHANGED <<xa, fake>>

\* set_acl for the files, in order, when the list is complete.
AclSet ==
  /\ acl.at > Len(acl.files) /\ Len(acl.dst) < Len(acl.files)
  /\ LET i == Len(acl.dst) + 1
         f == acl.files[i]
         m == ModeOf(f)
         a == acl.racc[acl.got[i].acc]
         d == IF f.dir THEN acl.rdef[acl.got[i].def] ELSE NoAcl
     IN acl' = [acl EXCEPT !.dst = Append(@,
                  [acl |-> IF acl.r < 0 THEN FakeRead(a, m) ELSE set_acl(f.dst, f.dsp, a, f.dir, m),
                   def |-> IF d.user = NO THEN NoAcl ELSE pack_smb_acl(d)])]
  /\ UNCHANGED <<xa, fake>>

(***************************************************************************)
(* --fake-super: the type, the bits and the owner that an unprivileged      *)
(* receiver cannot give a file are kept in the attribute %stat.  The file   *)
(* itself is a plain file or a directory of MyId that its owner may always  *)
(* read and write.                                                          *)
(***************************************************************************)
MyId == 0
NoStat == [type |-> "none"]
RealType(f) == IF f.type = "dir" THEN "dir" ELSE "reg"

\* set_stat_xattr: chmod, then the attribute, which is removed when the file
\* itself tells everything.
set_stat_xattr(st, f) ==
  LET real == [type |-> RealType(f), sp |-> FALSE, rdev |-> 0, id |-> MyId, grp |-> f.grp,
               own |-> Or(f.own, IF f.type = "dir" THEN 7 ELSE 6)]
  IN [real |-> real, x |-> IF real = f THEN NoStat ELSE f, set |-> f]

\* get_stat_xattr, through x_lstat
get_stat_xattr(st) == IF st.x.type = "none" THEN st.real ELSE st.x

FakeIdle == fake = [real |-> NoStat, x |-> NoStat, set |-> NoStat]
FakeSet ==
  /\ \E f \in StatFiles :
       /\ fake.set.type # "none" => RealType(f) = fake.real.type
       /\ fake' = set_stat_xattr(fake, f)
  /\ UNCHANGED <<xa, acl>>

AttrNext == XattrGenerate \/ XattrSend \/ XattrReceive \/ AclSend \/ AclSet
----------------------------------------------------------------------------
(* Properties *)

\* What a file should end with: the source's attributes that the sender
\* reads, under the names the receiver stores them with, and those that are
\* none of rsync's business.
Wanted(i) ==
  LET f == xa.files[i]
      l == receive_xattr(rsync_xal_get(f.src, TRUE, xa.r.sroot, xa.r.level), xa.r.sroot, xa.r.rroot, xa.r.level)
  IN {<<l[j].name, l[j].val>> : j \in 1 .. Len(l)}
Mine(n) ==
  /\ xa.r.rroot <= 0 => IsUser(n)
  /\ n # SystemAttr /\ (xa.r.rroot < 0 => n # StatAttr)

\* No process asks for, sends or is sent a value that the other side's list
\* does not hold under that number, or holds already: recv_xattr_request
\* ends the whole run when it meets one.  After a file that could not be sent
\* this may happen: what was asked for with it is sent with a later file, and
\* by then the receiver may have found the value in an old file.
RequestsUnderstood == xa.error => xa.lost # {}

\* Every file that was handled has the source's attributes, whatever earlier
\* files with the same list asked for; a long value may only be missing after
\* a file whose data could not be sent.
XattrsArrive ==
  /\ xa.missing # {} => xa.lost # {}
  /\ \A i \in xa.handled \ xa.missing :
       {<<n, xa.dst[i][n]>> : n \in {n \in DOMAIN xa.dst[i] : Mine(n)}}
         = {p \in Wanted(i) : Mine(p[1])}

\* Once all files were handled, those that were not sent have them too.
XattrsComplete ==
  XattrDone /\ ~xa.error /\ xa.lost = {} =>
    \A i \in 1 .. Len(xa.files) :
      {<<n, xa.dst[i][n]>> : n \in {n \in DOMAIN xa.dst[i] : Mine(n)}} = {p \in Wanted(i) : Mine(p[1])}

\* The ACL of a file is the source's with the receiver's ids, and its mode
\* agrees with it.  The entry of the owning group may be left empty when the
\* permissions had to wait for a bit to change.
AclArrives ==
  \A i \in 1 .. Len(acl.dst) :
    LET f == acl.files[i]
        want == [f.acl EXCEPT !.names = MapIds(@)]
        have == acl.dst[i].acl
        waits == acl.r >= 0 /\ f.dsp # f.sp
    IN /\ [have EXCEPT !.group = 0] = [want EXCEPT !.group = 0]
       /\ have.group = want.group \/ (waits /\ have.group = 0)

\* With --fake-super the next run sees the mode, owner and device that the
\* last one was to give the file.
FakeStatKept == fake.set.type # "none" => get_stat_xattr(fake) = fake.set

\* The default ACL of a directory is the source's.
DefaultArrives ==
  \A i \in 1 .. Len(acl.dst) :
    acl.files[i].dir => acl.dst[i].def = [acl.files[i].def EXCEPT !.names = MapIds(@)]

\* Extended attributes and ACLs arrive although most are sent as an index or
\* a checksum: what is requested is understood, and the destination ends up
\* with the attributes, the ACL and the emulated stat data of the source.
AttributesArrive ==
  RequestsUnderstood /\ XattrsArrive /\ XattrsComplete /\ AclArrives /\ DefaultArrives /\ FakeStatKept
=============================================================================
