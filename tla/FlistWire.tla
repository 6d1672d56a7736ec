------------------------------ MODULE FlistWire ------------------------------
(***************************************************************************)
(* The entries of a file list on the wire (src/rsync/flist.c, uidlist.c,   *)
(* chmod.c).  Both ends remember fields of the entry before and send only  *)
(* what differs.  An entry is its set of flag bits and the set of its      *)
(* fields <<name, value>>; each end decides by its own memory which fields *)
(* there are, in the one order that both functions have.                   *)
(***************************************************************************)
EXTENDS Integers, Sequences, FiniteSets, SequencesExt

CONSTANTS
  MaxSame,     \* 255, what the byte l1 can hold
  MaxShort,    \* 255, what the byte l2 can hold
  MaxPath      \* MAXPATHLEN

ASSUME FlistWireAssumption == {MaxSame, MaxShort, MaxPath} \subseteq Nat

XMIT_TOP_DIR == 0
XMIT_SAME_MODE == 1
XMIT_SAME_RDEV_pre28 == 2
XMIT_EXTENDED_FLAGS == 2
XMIT_SAME_UID == 3
XMIT_SAME_GID == 4
XMIT_SAME_NAME == 5
XMIT_LONG_NAME == 6
XMIT_SAME_TIME == 7
XMIT_SAME_RDEV_MAJOR == 8
XMIT_NO_CONTENT_DIR == 8
XMIT_HLINKED == 9
XMIT_SAME_DEV_pre30 == 10
XMIT_USER_NAME_FOLLOWS == 10
XMIT_RDEV_MINOR_8_pre30 == 11
XMIT_GROUP_NAME_FOLLOWS == 11
XMIT_HLINK_FIRST == 12
XMIT_IO_ERROR_ENDLIST == 12
XMIT_MOD_NSEC == 13
XMIT_SAME_ATIME == 14
XMIT_CRTIME_EQ_MTIME == 17
LowByte == 0..7
HighByte == 8..15

If(c, S) == IF c THEN S ELSE {}
Has(w, k) == \E p \in w : p[1] = k
Val(w, k) == (CHOOSE p \in w : p[1] = k)[2]
Keys(w) == {p[1] : p \in w}
----------------------------------------------------------------------------
(* Permission changes, --chmod *)

\* One clause of a chmod argument, "where op what": the bits to keep and to
\* set.  Bits are pairs <<class, permission>>.
parse_chmod(c) ==
  LET bits == c.where \X c.what
      any == c.where \X {"r", "w", "x"}
      all == {"u", "g", "o"} \X {"r", "w", "x"}
  IN [and |-> CASE c.op = "+" -> all
                [] c.op = "-" -> all \ bits
                [] c.op = "=" -> all \ any,
      or |-> IF c.op = "-" THEN {} ELSE bits,
      xkeep |-> c.X, only |-> c.only]

X(perm) == {b \in perm : b[2] = "x"}
tweak_mode(mode, modes) ==
  LET isX == X(mode.perm) # {}
      applies(m) == m.only = "any" \/ (m.only = "D") = (mode.type = "dir")
      step(perm, m) ==
        IF ~applies(m) THEN perm
        ELSE (perm \cap m.and) \cup
             IF m.xkeep /\ ~isX /\ mode.type # "dir" THEN m.or \ X(m.or) ELSE m.or
  IN [mode EXCEPT !.perm = FoldLeft(step, mode.perm, modes)]

Tweaked(o, mode) ==
  IF o.chmod # <<>> /\ mode.type # "lnk" THEN tweak_mode(mode, o.chmod) ELSE mode
----------------------------------------------------------------------------
(* Users and groups.  An id list is a sequence of nodes, the newest first. *)

Known(list, id) == \E i \in 1..Len(list) : list[i].id = id
Node(list, id) == list[CHOOSE i \in 1..Len(list) :
                         list[i].id = id /\ \A j \in 1..i - 1 : list[j].id # id]

\* the name that the sender adds to its list, if the id is new to it
add_uid(names, list, id) == IF Known(list, id) \/ id \notin DOMAIN names THEN "" ELSE names[id]

\* the list with the id
Remembered(list, id) == IF Known(list, id) THEN list ELSE <<[id |-> id]>> \o list

\* an entry of --usermap or --groupmap that matches
MapMatches(m, id, name) ==
  CASE m.kind = "name" -> m.name = name
    [] m.kind = "range" -> id \in m.lo..m.hi
    [] m.kind = "id" -> id = m.lo

\* the receiver's number for an id: mapped, or that of the name, or the same
recv_add_id(o, names, local, idmap, list, id, name) ==
  LET hits == {i \in 1..Len(idmap) : MapMatches(idmap[i], id, name)}
      id2 == IF hits # {} THEN idmap[CHOOSE i \in hits : \A j \in hits : i <= j].id2
             ELSE IF name # "" /\ id # 0 /\ name \in DOMAIN local THEN local[name] ELSE id
  IN <<[id |-> id, id2 |-> id2, skip |-> ~o.am_root /\ id2 \notin o.groups]>> \o list

match_uid(o, names, local, idmap, list, id) ==
  IF Known(list, id) THEN list ELSE recv_add_id(o, names, local, idmap, list, id, "")

\* recv_user_name and recv_group_name: a name is ignored with --numeric-ids
\* that the server set itself
recv_user_name(o, names, local, idmap, list, id, name) ==
  recv_add_id(o, names, local, idmap, list, id, IF o.numeric_ids < 0 THEN "" ELSE name)
----------------------------------------------------------------------------
(* Sender *)

SendStart ==
  [mode |-> [type |-> "none", perm |-> {}], modtime |-> 0, atime |-> 0, rdev |-> <<0, 0>>,
   rdev_major |-> 0, uid |-> 0, gid |-> 0, dev |-> 0, lastname |-> <<>>,
   uids |-> <<>>, gids |-> <<>>, inodes |-> {}]

IsDev(o, f) == o.preserve_devices /\ f.mode.type = "dev"
IsSpecial(o, f) == o.preserve_specials /\ f.mode.type = "special" /\ o.proto < 31

NewUid(o, st, f) == o.preserve_uid /\ ~(f.uid = st.uid /\ st.lastname # <<>>)
NewGid(o, st, f) == o.preserve_gid /\ ~(f.gid = st.gid /\ st.lastname # <<>>)
UserName(o, st, f) == IF NewUid(o, st, f) /\ o.numeric_ids = 0 THEN add_uid(o.unames, st.uids, f.uid) ELSE ""
GroupName(o, st, f) == IF NewGid(o, st, f) /\ o.numeric_ids = 0 THEN add_uid(o.gnames, st.gids, f.gid) ELSE ""

\* the index of the first link to the same file, or -1
FirstLink(o, st, f) ==
  IF f.ino # 0 /\ o.proto >= 30 /\ Has(st.inodes, <<f.dev, f.ino>>)
  THEN Val(st.inodes, <<f.dev, f.ino>>) ELSE -1

SameName(name, last) ==
  LET same == {n \in 0..MaxSame : n <= Len(name) /\ n <= Len(last) /\ SubSeq(name, 1, n) = SubSeq(last, 1, n)}
  IN CHOOSE n \in same : \A m \in same : m <= n

DirFlags(o, f) ==
  IF o.proto < 30 THEN If(f.dir = "top", {XMIT_TOP_DIR})
  ELSE CASE f.dir = "top" -> {XMIT_TOP_DIR}
         [] f.dir = "content" -> {}
         [] f.dir = "implied" -> {XMIT_TOP_DIR, XMIT_NO_CONTENT_DIR}
         [] f.dir = "none" -> {XMIT_NO_CONTENT_DIR}

RdevFlags(o, st, f) ==
  IF IsDev(o, f)
  THEN IF o.proto < 28 THEN If(<<f.major, f.minor>> = st.rdev, {XMIT_SAME_RDEV_pre28})
       ELSE If(f.major = st.rdev_major, {XMIT_SAME_RDEV_MAJOR})
            \cup If(o.proto < 30 /\ f.minor <= 255, {XMIT_RDEV_MINOR_8_pre30})
  ELSE IF IsSpecial(o, f)
  THEN IF o.proto < 28 THEN {XMIT_SAME_RDEV_pre28}
       ELSE {XMIT_SAME_RDEV_MAJOR} \cup If(o.proto < 30, {XMIT_RDEV_MINOR_8_pre30})
  ELSE {}

LinkFlags(o, st, f) ==
  IF f.ino = 0 THEN {}
  ELSE {XMIT_HLINKED} \cup
       IF o.proto >= 30 THEN If(FirstLink(o, st, f) < 0, {XMIT_HLINK_FIRST})
       ELSE If(f.dev = st.dev /\ o.proto >= 28, {XMIT_SAME_DEV_pre30})

Xflags(o, st, f) ==
  LET l1 == SameName(f.name, st.lastname)
  IN If(f.mode.type = "dir", DirFlags(o, f))
     \cup If(f.mode = st.mode, {XMIT_SAME_MODE})
     \cup RdevFlags(o, st, f)
     \cup If(~NewUid(o, st, f), {XMIT_SAME_UID})
     \cup If(o.inc_recurse /\ UserName(o, st, f) # "", {XMIT_USER_NAME_FOLLOWS})
     \cup If(~NewGid(o, st, f), {XMIT_SAME_GID})
     \cup If(o.inc_recurse /\ GroupName(o, st, f) # "", {XMIT_GROUP_NAME_FOLLOWS})
     \cup If(f.modtime = st.modtime, {XMIT_SAME_TIME})
     \cup If(f.nsec # 0 /\ o.proto >= 31, {XMIT_MOD_NSEC})
     \cup If(o.atimes /\ f.mode.type # "dir" /\ f.atime = st.atime, {XMIT_SAME_ATIME})
     \cup If(o.crtimes /\ f.crtime = f.modtime, {XMIT_CRTIME_EQ_MTIME})
     \cup LinkFlags(o, st, f)
     \cup If(l1 > 0, {XMIT_SAME_NAME})
     \cup If(Len(f.name) - l1 > MaxShort, {XMIT_LONG_NAME})

\* The flags as they are sent: never 0, which ends the list.
SentFlags(o, x, isdir) ==
  IF o.varint THEN IF x = {} THEN {XMIT_EXTENDED_FLAGS} ELSE x
  ELSE IF o.proto >= 28
  THEN LET y == IF x = {} /\ ~isdir THEN {XMIT_TOP_DIR} ELSE x
       IN IF y \cap HighByte # {} \/ y = {} THEN y \cup {XMIT_EXTENDED_FLAGS} ELSE y
  ELSE (IF x \cap LowByte = {} THEN x \cup {IF isdir THEN XMIT_LONG_NAME ELSE XMIT_TOP_DIR} ELSE x)
       \cap LowByte

Abbreviated(o, st, f, first_ndx) == FirstLink(o, st, f) >= first_ndx /\ FirstLink(o, st, f) >= 0

RdevFields(o, st, f, x) ==
  IF ~IsDev(o, f) /\ ~IsSpecial(o, f) THEN {}
  ELSE LET rdev == IF IsDev(o, f) THEN <<f.major, f.minor>> ELSE <<st.rdev_major, 0>>
       IN IF o.proto < 28 THEN If(XMIT_SAME_RDEV_pre28 \notin x, {<<"rdev", rdev>>})
          ELSE If(XMIT_SAME_RDEV_MAJOR \notin x, {<<"major", rdev[1]>>}) \cup {<<"minor", rdev[2]>>}

\* a mistake: the memory is not brought up to date behind a short entry
SendMemoryLost(o, st, f, ndx) ==
  [st EXCEPT !.lastname = f.name, !.mode = f.mode, !.modtime = f.modtime]

\* what the sender remembers of entry f, number ndx
SendMemory(o, st, f, ndx) ==
  [mode |-> f.mode, modtime |-> f.modtime,
   atime |-> IF o.atimes /\ f.mode.type # "dir" THEN f.atime ELSE st.atime,
   rdev |-> IF IsDev(o, f) THEN <<f.major, f.minor>>
            ELSE IF IsSpecial(o, f) THEN IF o.proto < 28 THEN st.rdev ELSE <<st.rdev_major, 0>>
            ELSE IF o.proto < 28 THEN <<0, 0>> ELSE st.rdev,
   rdev_major |-> IF IsDev(o, f) /\ o.proto >= 28 THEN f.major ELSE st.rdev_major,
   uid |-> IF NewUid(o, st, f) THEN f.uid ELSE st.uid,
   gid |-> IF NewGid(o, st, f) THEN f.gid ELSE st.gid,
   dev |-> IF f.ino # 0 /\ o.proto < 30 THEN f.dev ELSE st.dev,
   lastname |-> f.name,
   uids |-> IF NewUid(o, st, f) /\ o.numeric_ids = 0 THEN Remembered(st.uids, f.uid) ELSE st.uids,
   gids |-> IF NewGid(o, st, f) /\ o.numeric_ids = 0 THEN Remembered(st.gids, f.gid) ELSE st.gids,
   inodes |-> IF f.ino # 0 /\ o.proto >= 30 /\ FirstLink(o, st, f) < 0
              THEN st.inodes \cup {<<<<f.dev, f.ino>>, ndx>>} ELSE st.inodes]

\* the fields of entry f in a list that starts at first_ndx
SentFields(o, st, f, first_ndx, x) ==
  LET l1 == SameName(f.name, st.lastname)
      reg == f.mode.type = "reg"
  IN If(XMIT_SAME_NAME \in x, {<<"l1", l1>>})
     \cup {<<"l2", Len(f.name) - l1>>, <<"tail", SubSeq(f.name, l1 + 1, Len(f.name))>>}
     \cup If(FirstLink(o, st, f) >= 0, {<<"hlink", FirstLink(o, st, f)>>})
     \cup IF Abbreviated(o, st, f, first_ndx) THEN {}
     ELSE {<<"len", f.len>>}
       \cup If(XMIT_SAME_TIME \notin x, {<<"modtime", f.modtime>>})
       \cup If(XMIT_MOD_NSEC \in x, {<<"nsec", f.nsec>>})
       \cup If(o.crtimes /\ XMIT_CRTIME_EQ_MTIME \notin x, {<<"crtime", f.crtime>>})
       \cup If(XMIT_SAME_MODE \notin x, {<<"mode", f.mode>>})
       \cup If(o.atimes /\ f.mode.type # "dir" /\ XMIT_SAME_ATIME \notin x, {<<"atime", f.atime>>})
       \cup If(o.preserve_uid /\ XMIT_SAME_UID \notin x, {<<"uid", f.uid>>})
       \cup If(o.preserve_uid /\ XMIT_SAME_UID \notin x /\ o.proto >= 30 /\ XMIT_USER_NAME_FOLLOWS \in x,
               {<<"uname", UserName(o, st, f)>>})
       \cup If(o.preserve_gid /\ XMIT_SAME_GID \notin x, {<<"gid", f.gid>>})
       \cup If(o.preserve_gid /\ XMIT_SAME_GID \notin x /\ o.proto >= 30 /\ XMIT_GROUP_NAME_FOLLOWS \in x,
               {<<"gname", GroupName(o, st, f)>>})
       \cup RdevFields(o, st, f, x)
       \cup If(o.preserve_links /\ f.mode.type = "lnk", {<<"target", f.target>>})
       \cup If(f.ino # 0 /\ o.proto < 30 /\ ~(XMIT_SAME_DEV_pre30 \in x /\ o.proto >= 26), {<<"dev", f.dev + 1>>})
       \cup If(f.ino # 0 /\ o.proto < 30, {<<"ino", f.ino>>})
       \cup If(o.always_checksum /\ (reg \/ o.proto < 28), {<<"sum", IF reg THEN f.sum ELSE 0>>})

send_file_entry(o, st, f, ndx, first_ndx) ==
  LET x == Xflags(o, st, f)
      y == SentFlags(o, x, f.mode.type = "dir")
  IN [st |-> SendMemory(o, st, f, ndx), flags |-> y, fields |-> SentFields(o, st, f, first_ndx, y)]

\* the end of a list, with the error flags of the sender or not
write_end_of_flist(o, send_io_error, io_error) ==
  IF o.varint THEN [flags |-> {}, fields |-> {<<"err", IF send_io_error THEN io_error ELSE 0>>}]
  ELSE IF send_io_error
  THEN [flags |-> {XMIT_EXTENDED_FLAGS, XMIT_IO_ERROR_ENDLIST}, fields |-> {<<"err", io_error>>}]
  ELSE [flags |-> {}, fields |-> {}]
----------------------------------------------------------------------------
(* Receiver *)

RecvStart ==
  [mode |-> [type |-> "none", perm |-> {}], modtime |-> 0, atime |-> 0, crtime |-> 0,
   rdev |-> <<0, 0>>, rdev_major |-> 0, uid |-> 0, gid |-> 0, skip |-> FALSE, dev |-> 0,
   lastname |-> <<>>, uids |-> <<>>, gids |-> <<>>, inodes |-> {}, cnt |-> 0, in_del_hier |-> FALSE]

\* recv_file_list: whether flags x end the list
EndsList(o, x) ==
  \/ x = {}
  \/ ~o.varint /\ (x \cap LowByte = {} \/ x = {XMIT_EXTENDED_FLAGS, XMIT_IO_ERROR_ENDLIST})

\* a short entry: everything but the name comes from the first link
ShortEntry(o, x, e, ndx_start) ==
  o.proto >= 30 /\ XMIT_HLINKED \in x /\ XMIT_HLINK_FIRST \notin x /\ Val(e, "hlink") >= ndx_start

\* the fields that recv_file_entry reads of an entry with flags x
ReadKeys(o, x, type, short) ==
  LET dev == (o.preserve_devices /\ type = "dev") \/ (o.preserve_specials /\ type = "special" /\ o.proto < 31)
      linked == o.preserve_hard_links /\ XMIT_HLINKED \in x
  IN If(XMIT_SAME_NAME \in x, {"l1"}) \cup {"l2", "tail"}
     \cup If(o.proto >= 30 /\ XMIT_HLINKED \in x /\ XMIT_HLINK_FIRST \notin x, {"hlink"})
     \cup IF short THEN {}
     ELSE {"len"}
       \cup If(XMIT_SAME_TIME \notin x, {"modtime"})
       \cup If(XMIT_MOD_NSEC \in x, {"nsec"})
       \cup If(o.crtimes /\ XMIT_CRTIME_EQ_MTIME \notin x, {"crtime"})
       \cup If(XMIT_SAME_MODE \notin x, {"mode"})
       \cup If(o.atimes /\ type # "dir" /\ XMIT_SAME_ATIME \notin x, {"atime"})
       \cup If(o.preserve_uid /\ XMIT_SAME_UID \notin x, {"uid"})
       \cup If(o.preserve_uid /\ XMIT_SAME_UID \notin x /\ o.proto >= 30 /\ XMIT_USER_NAME_FOLLOWS \in x, {"uname"})
       \cup If(o.preserve_gid /\ XMIT_SAME_GID \notin x, {"gid"})
       \cup If(o.preserve_gid /\ XMIT_SAME_GID \notin x /\ o.proto >= 30 /\ XMIT_GROUP_NAME_FOLLOWS \in x, {"gname"})
       \cup If(dev /\ o.proto < 28 /\ XMIT_SAME_RDEV_pre28 \notin x, {"rdev"})
       \cup If(dev /\ o.proto >= 28 /\ XMIT_SAME_RDEV_MAJOR \notin x, {"major"})
       \cup If(dev /\ o.proto >= 28, {"minor"})
       \cup If(o.preserve_links /\ type = "lnk", {"target"})
       \cup If(linked /\ o.proto < 30 /\ ~(XMIT_SAME_DEV_pre30 \in x /\ o.proto >= 26), {"dev"})
       \cup If(linked /\ o.proto < 30, {"ino"})
       \cup If(o.always_checksum /\ (type = "reg" \/ o.proto < 28), {"sum"})

Read(e, k, old) == IF Has(e, k) THEN Val(e, k) ELSE old

\* the id lists after the owner and the group of an entry were read
UidsAfter(o, rs, x, e) ==
  IF ~Has(e, "uid") \/ o.proto < 30 THEN rs.uids
  ELSE IF XMIT_USER_NAME_FOLLOWS \in x
  THEN recv_user_name(o, o.unames, o.local_users, o.usermap, rs.uids, Val(e, "uid"), Val(e, "uname"))
  ELSE IF o.inc_recurse /\ o.am_root /\ (o.numeric_ids = 0 \/ o.usermap # <<>>)
  THEN match_uid(o, o.unames, o.local_users, o.usermap, rs.uids, Val(e, "uid"))
  ELSE rs.uids
GidsAfter(o, rs, x, e) ==
  IF ~Has(e, "gid") \/ o.proto < 30 THEN rs.gids
  ELSE IF XMIT_GROUP_NAME_FOLLOWS \in x
  THEN recv_user_name(o, o.gnames, o.local_groups, o.groupmap, rs.gids, Val(e, "gid"), Val(e, "gname"))
  ELSE IF o.inc_recurse /\ (~o.am_root \/ o.numeric_ids = 0 \/ o.groupmap # <<>>)
  THEN match_uid(o, o.gnames, o.local_groups, o.groupmap, rs.gids, Val(e, "gid"))
  ELSE rs.gids
MappedId(list, id) == IF Known(list, id) THEN Node(list, id).id2 ELSE id

\* What the receiver remembers of an entry: its fields, or the first link's.
RecvMemory(o, rs, x, e, first, short) ==
  LET us == UidsAfter(o, rs, x, e)
      gs == GidsAfter(o, rs, x, e)
      mode == IF short THEN first.mode ELSE Tweaked(o, Read(e, "mode", rs.mode))
      modtime == IF short THEN first.modtime ELSE Read(e, "modtime", rs.modtime)
      isdev == o.preserve_devices /\ mode.type = "dev"
      special == o.preserve_specials /\ mode.type = "special" /\ o.proto < 31
      major == IF short /\ isdev THEN first.major ELSE Read(e, "major", rs.rdev_major)
  IN [rs EXCEPT
       !.lastname = SubSeq(rs.lastname, 1, Read(e, "l1", 0)) \o Val(e, "tail"),
       !.mode = mode, !.modtime = modtime,
       !.atime = IF short /\ o.atimes /\ mode.type # "dir" THEN first.atime ELSE Read(e, "atime", @),
       !.crtime = IF ~o.crtimes THEN @ ELSE IF short THEN first.crtime ELSE Read(e, "crtime", modtime),
       !.uid = IF short THEN IF o.preserve_uid THEN first.uid ELSE @
               ELSE IF Has(e, "uid") THEN MappedId(us, Val(e, "uid")) ELSE @,
       !.gid = IF short THEN IF o.preserve_gid THEN first.gid ELSE @
               ELSE IF Has(e, "gid") THEN MappedId(gs, Val(e, "gid")) ELSE @,
       !.skip = IF Has(e, "gid") /\ o.proto >= 30
                THEN Known(gs, Val(e, "gid")) /\ Node(gs, Val(e, "gid")).skip ELSE @,
       !.uids = us, !.gids = gs,
       !.rdev_major = major,
       !.rdev = IF short /\ isdev THEN <<first.major, first.minor>>
                ELSE IF ~short /\ (isdev \/ special)
                THEN IF o.proto < 28 THEN Read(e, "rdev", @) ELSE <<major, Val(e, "minor")>>
                ELSE IF ~short /\ o.proto < 28 THEN <<0, 0>> ELSE @,
       !.dev = Read(e, "dev", @),
       !.inodes = IF Has(e, "ino") /\ ~Has(@, <<Read(e, "dev", rs.dev), Val(e, "ino")>>)
                  THEN @ \cup {<<<<Read(e, "dev", rs.dev), Val(e, "ino")>>, rs.cnt>>} ELSE @,
       !.cnt = IF Has(e, "ino") /\ ~Has(rs.inodes, <<Read(e, "dev", rs.dev), Val(e, "ino")>>) THEN @ + 1 ELSE @,
       !.in_del_hier = IF mode.type = "dir" /\ o.proto < 30 /\ XMIT_TOP_DIR \in x THEN o.recurse ELSE @]

\* The kind of a directory; names of --relative are not told apart.
ContentDir(o, x, in_del_hier) ==
  IF o.proto >= 30
  THEN IF XMIT_NO_CONTENT_DIR \notin x THEN IF XMIT_TOP_DIR \in x THEN "top" ELSE "content"
       ELSE IF XMIT_TOP_DIR \in x THEN "implied" ELSE "none"
  ELSE IF XMIT_TOP_DIR \in x THEN "top" ELSE IF in_del_hier THEN "content" ELSE "none"

\* the number that all links of a file carry
LinkNumber(o, rs, x, e, ndx) ==
  IF ~o.preserve_hard_links \/ XMIT_HLINKED \notin x THEN -1
  ELSE IF o.proto < 30 THEN Val(rs.inodes, <<rs.dev, Val(e, "ino")>>)
  ELSE IF XMIT_HLINK_FIRST \in x THEN ndx ELSE Val(e, "hlink")

\* recv_file_entry: list holds the entries before in a list that starts at
\* ndx_start
\* The entry, from the memory rs after it; first is the entry it is linked to.
Entry(o, rs, x, e, first, short, ndx) ==
  LET special == o.preserve_specials /\ rs.mode.type = "special" /\ o.proto < 31
      nolen == (o.preserve_devices /\ rs.mode.type = "dev") \/ special
  IN [name |-> rs.lastname, mode |-> rs.mode, modtime |-> rs.modtime,
      nsec |-> IF short THEN first.nsec ELSE Read(e, "nsec", 0),
      atime |-> rs.atime, crtime |-> rs.crtime, uid |-> rs.uid, gid |-> rs.gid, skip |-> rs.skip,
      major |-> rs.rdev[1], minor |-> rs.rdev[2],
      target |-> IF short THEN first.target ELSE Read(e, "target", ""),
      len |-> IF short THEN first.len ELSE IF nolen THEN 0 ELSE Val(e, "len"),
      sum |-> IF short THEN first.sum ELSE Read(e, "sum", 0),
      gnum |-> LinkNumber(o, rs, x, e, ndx),
      dir |-> IF rs.mode.type = "dir" THEN ContentDir(o, x, rs.in_del_hier) ELSE ""]
Received(o, rs, x, e, first, short, ndx, bad) ==
  [st |-> rs, bad |-> bad, keys |-> ReadKeys(o, x, rs.mode.type, short),
   file |-> Entry(o, rs, x, e, first, short, ndx)]
Receive(o, rs, x, e, first, short, ndx, bad) ==
  Received(o, RecvMemory(o, rs, x, e, first, short), x, e, first, short, ndx, bad)

recv_file_entry(o, rs, x, e, list, ndx_start) ==
  LET bad == \/ Val(e, "l2") >= MaxPath - Read(e, "l1", 0)
             \/ Has(e, "hlink") /\ Val(e, "hlink") >= ndx_start + Len(list)
      first == list[Val(e, "hlink") - ndx_start + 1]
  IN Receive(o, rs, x, e, first, ShortEntry(o, x, e, ndx_start), ndx_start + Len(list), bad)
----------------------------------------------------------------------------
(* Without incremental recursion the names follow the list. *)

\* send_one_list: the names of the ids in the list, then that of id 0
send_one_list(o, names, list) ==
  SelectSeq([i \in 1..Len(list) |-> [id |-> list[i].id, name |-> IF list[i].id \in DOMAIN names
                                                                   THEN names[list[i].id] ELSE ""]],
            LAMBDA n : n.id # 0 /\ n.name # "")
  \o IF o.xmit_id0_names THEN <<[id |-> 0, name |-> IF 0 \in DOMAIN names THEN names[0] ELSE ""]>> ELSE <<>>

\* recv_id_list, for one kind of ids: the list of ids with their numbers here
ReadNames(o, names, local, idmap, list, sent) ==
  FoldLeft(LAMBDA l, n : recv_user_name(o, names, local, idmap, l, n.id, n.name), list, sent)

recv_id_list(o, files, sentUsers, sentGroups, uids, gids) ==
  LET us == ReadNames(o, o.unames, o.local_users, o.usermap, uids, sentUsers)
      gs == ReadNames(o, o.gnames, o.local_groups, o.groupmap, gids, sentGroups)
      mapUid == o.am_root /\ o.preserve_uid /\ (o.numeric_ids = 0 \/ o.usermap # <<>>)
      mapGid == o.preserve_gid /\ (~o.am_root \/ o.numeric_ids = 0 \/ o.groupmap # <<>>)
      uid(u) == Node(match_uid(o, o.unames, o.local_users, o.usermap, us, u), u).id2
      gnode(g) == Node(match_uid(o, o.gnames, o.local_groups, o.groupmap, gs, g), g)
  IN [i \in 1..Len(files) |->
       [files[i] EXCEPT !.uid = IF mapUid THEN uid(@) ELSE @,
                        !.gid = IF mapGid THEN gnode(@).id2 ELSE @,
                        !.skip = IF mapGid THEN gnode(files[i].gid).skip ELSE @]]
=============================================================================
