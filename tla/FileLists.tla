----------------------------- MODULE FileLists -----------------------------
(***************************************************************************)
(* How the sender scans its arguments into file lists, one list or one per *)
(* directory (incremental recursion), how both ends number the entries,    *)
(* and what the receiving side deletes because a list does not name it     *)
(* (src/rsync/flist.c, generator.c: delete_in_dir).                        *)
(*                                                                         *)
(* Each entry of a directory is read in a step of its own: it may be gone  *)
(* or unreadable by then.  A list arrives when it is complete.  Between    *)
(* two lists the sender opens files that were asked for, which may fail.   *)
(***************************************************************************)
EXTENDS FlistOrder, TLC

CONSTANTS
  ListSetups,      \* options and arguments
  Disks,       \* what is on the sender's disk
  Universe,    \* the names that the destination has in every directory
  MaxFaults,   \* files that vanish, calls that fail
  OpenFails    \* a file that is sent may fail to open

VARIABLES opt, snd, rcv, gone, faults

flistVars == <<opt, snd, rcv, gone, faults>>

NORMAL_NAME == 0
DOTDIR_NAME == 2

DotPath == <<DotName>>
Disk(src) == Disks[src]
\* the directory's entries, . and .. left out
Children(src, path) ==
  {n \in Disk(src) : n.path # DotPath /\ [src |-> src, path |-> n.path] \notin gone
                     /\ Front(n.path) = IF path = DotPath THEN <<>> ELSE path}
IsExcluded(path) == Last(path) \in opt.excluded
----------------------------------------------------------------------------
(* Sender *)

\* file->flags: only directories have content, none below a mount point
make_file(n, src, flags, id) ==
  [path |-> n.path, abs |-> src \in opt.abs, isdir |-> n.isdir, src |-> src, id |-> id, active |-> TRUE,
   flags |-> IF ~n.isdir THEN flags \ {"CONTENT_DIR"}
             ELSE IF opt.one_file_system /\ n.mount /\ "CONTENT_DIR" \in flags /\ "TOP_DIR" \notin flags
             THEN (flags \ {"CONTENT_DIR"}) \cup {"MOUNT_DIR"}
             ELSE flags,
   rel |-> <<>>, depth |-> IF n.path = DotPath THEN 0 ELSE Len(n.path), len |-> 0]

send_file_name(s, n, src, flags) ==
  [s EXCEPT !.files = Append(@, make_file(n, src, flags, s.n)), !.n = @ + 1]

Start ==
  [mode |-> "args", args |-> opt.args, n |-> 1, files |-> <<>>, left |-> {}, dir |-> <<>>, src |-> 0,
   first |-> 1, stack |-> <<>>, io_error |-> {}, save |-> {}, last |-> [src |-> 0, path |-> <<>>],
   dirs |-> <<>>, send_dir_ndx |-> 0, dir_ndx |-> 0, lists |-> <<>>]

EntryFlags == IF opt.recurse THEN {"CONTENT_DIR"} ELSE {}
Err(s, e) == [s EXCEPT !.io_error = @ \cup {e}]
Fault == faults < MaxFaults /\ faults' = faults + 1
NoFault == UNCHANGED <<faults, gone>>
\* path and all below it are gone by now
Vanish(src, path) ==
  Fault /\ gone' = gone \cup {[src |-> src, path |-> n.path] : n \in {m \in Disk(src) : IsPrefix(path, m.path)}}

ImpliedDir(path, k) == [path |-> SubSeq(path, 1, k), isdir |-> TRUE, mount |-> FALSE]

\* Without incremental recursion: the directories above the argument that
\* the path before it did not have.
SendImplied(s, a) ==
  LET above == SelectSeq([k \in 1..Len(a.path) - 1 |-> k],
                         LAMBDA k : SubSeq(a.path, 1, k) # SubSeq(s.last.path, 1, IF k <= Len(s.last.path) THEN k ELSE 0))
      t == FoldLeft(LAMBDA u, k : send_file_name(u, ImpliedDir(a.path, k), a.src, {"IMPLIED_DIR"}), s, above)
  IN IF above = <<>> THEN s ELSE [t EXCEPT !.last = [src |-> a.src, path |-> Front(a.path)]]

\* With it: only the next directory, which remembers the names to send
\* when its own list is.
DivertImplied(s, src, path, k) ==
  LET last == [src |-> src, path |-> SubSeq(path, 1, k)]
      t == IF s.last = last THEN s ELSE [send_file_name(s, ImpliedDir(path, k), src, {"IMPLIED_DIR"}) EXCEPT !.last = last]
      at == CHOOSE i \in 1..Len(t.files) :
              /\ t.files[i].path = last.path /\ t.files[i].src = src /\ "IMPLIED_DIR" \in t.files[i].flags
              /\ \A j \in i + 1..Len(t.files) : t.files[j].path # last.path
  IN [t EXCEPT !.files[at].rel = Append(@, path)]

\* the next argument of send_file_list
Arg ==
  /\ snd.mode = "args" /\ snd.args # <<>>
  /\ LET a == Head(snd.args)
         s == [snd EXCEPT !.args = Tail(@)]
         found == {n \in Disk(a.src) : n.path = a.path /\ [src |-> a.src, path |-> a.path] \notin gone}
         n == CHOOSE n \in found : TRUE
         wanted == found # {} /\ (a.name_type = DOTDIR_NAME \/ ~IsExcluded(a.path))
         t == send_file_name(IF opt.relative THEN SendImplied(s, a) ELSE s, n, a.src, {"TOP_DIR"} \cup EntryFlags)
     IN \/ Fault /\ snd' = Err(s, "general") /\ UNCHANGED gone    \* change_pathname or link_stat failed
        \/ ~wanted /\ snd' = s /\ NoFault
        \/ /\ wanted /\ NoFault
           /\ snd' = IF opt.relative /\ opt.inc_recurse /\ Len(a.path) > 1 THEN DivertImplied(s, a.src, a.path, 1)
                     ELSE IF n.isdir /\ opt.recurse /\ (opt.inc_recurse => a.name_type = DOTDIR_NAME)
                     THEN [t EXCEPT !.mode = "open", !.dir = a.path, !.src = a.src]
                     ELSE t
  /\ UNCHANGED <<opt, rcv>>

\* send_directory: opendir
OpenDir ==
  /\ snd.mode = "open"
  /\ LET s == [snd EXCEPT !.mode = "read", !.left = {}, !.first = Len(snd.files) + 1]
     IN \/ snd' = [s EXCEPT !.left = Children(snd.src, snd.dir)] /\ NoFault
        \/ Fault /\ snd' = Err(s, "general") /\ UNCHANGED gone
        \/ snd.dir # DotPath /\ Vanish(snd.src, snd.dir) /\ snd' = Err(s, "vanished")
  /\ UNCHANGED <<opt, rcv>>

\* one entry of the directory: send_file_name, make_file
ReadEntry(n) ==
  LET s == [snd EXCEPT !.left = @ \ {n}]
  IN \/ IsExcluded(n.path) /\ snd' = s /\ NoFault
     \/ ~IsExcluded(n.path) /\ snd' = send_file_name(s, n, snd.src, EntryFlags) /\ NoFault
     \/ ~IsExcluded(n.path) /\ Fault /\ snd' = Err(s, "general") /\ UNCHANGED gone
     \/ ~IsExcluded(n.path) /\ Vanish(snd.src, n.path) /\ snd' = Err(s, "vanished")

ReadDir ==
  /\ snd.mode = "read" /\ \E n \in snd.left : ReadEntry(n)
  /\ UNCHANGED <<opt, rcv>>

\* The directory has been read, or readdir fails.  Without incremental
\* recursion the directories in it follow, each with all that is below it.
CloseDir ==
  /\ snd.mode = "read"
  /\ \/ snd.left = {} /\ snd' = [snd EXCEPT !.mode = "next"] /\ NoFault
     \/ snd.left # {} /\ Fault /\ snd' = [Err(snd, "general") EXCEPT !.mode = "next", !.left = {}] /\ UNCHANGED gone
  /\ UNCHANGED <<opt, rcv>>

SubDirs == SelectSeq(SubSeq(snd.files, snd.first, Len(snd.files)),
                     LAMBDA f : f.isdir /\ "MOUNT_DIR" \notin f.flags)

NextDir ==
  /\ snd.mode = "next"
  /\ LET stack == (IF opt.inc_recurse THEN <<>> ELSE SubDirs) \o snd.stack
     IN snd' = IF stack # <<>>
               THEN [snd EXCEPT !.mode = "open", !.dir = stack[1].path, !.src = stack[1].src, !.stack = Tail(stack),
                                !.first = Len(snd.files) + 1]
               ELSE [snd EXCEPT !.mode = IF snd.send_dir_ndx = 0 THEN "args" ELSE "rel",
                                !.first = Len(snd.files) + 1]
  /\ NoFault /\ UNCHANGED <<opt, rcv>>
----------------------------------------------------------------------------
(* The tree of directories, which says whose list is sent next *)

\* add_dirs_to_tree: the sorted directories become siblings below parent
add_dirs_to_tree(s, parent, sorted) ==
  LET new == SelectSeq(sorted, LAMBDA f : f.isdir)
      used == Len(s.dirs)
      kids == SelectSeq([i \in 1..Len(new) |-> used + i], LAMBDA i : new[i - used].path # DotPath)
      node(i) == [file |-> new[i], parent |-> parent, child |-> 0,
                  next |-> LET later == {k \in 1..Len(kids) : kids[k] > used + i}
                           IN IF new[i].path = DotPath \/ later = {} THEN 0
                              ELSE kids[CHOOSE k \in later : \A m \in later : k <= m]]
      dirs == s.dirs \o [i \in 1..Len(new) |-> node(i)]
  IN IF kids = <<>> THEN [s EXCEPT !.dirs = dirs]
     ELSE IF parent = 0 THEN [s EXCEPT !.dirs = dirs, !.send_dir_ndx = kids[1]]
     ELSE [s EXCEPT !.dirs = [dirs EXCEPT ![parent].child = kids[1]]]

RECURSIVE UpToSibling(_, _)
UpToSibling(dirs, d) ==
  IF d = 0 THEN 0 ELSE IF dirs[d].next # 0 THEN dirs[d].next ELSE UpToSibling(dirs, dirs[d].parent)
Following(s, d) == IF s.dirs[d].child # 0 THEN s.dirs[d].child ELSE UpToSibling(s.dirs, d)

IsDup(s, d) == d # 0 /\ "DUPLICATE" \in s.dirs[d].file.flags

\* a call of send_extra_file_list, or another round of its loop
SendExtra ==
  /\ snd.mode = "idle"
  /\ \E call \in {TRUE, FALSE} :
       LET d == snd.send_dir_ndx
           s == [snd EXCEPT !.files = <<>>, !.first = 1, !.save = IF call THEN snd.io_error ELSE @, !.dir_ndx = d]
           f == snd.dirs[d].file
       IN snd' = IF "CONTENT_DIR" \in f.flags THEN [s EXCEPT !.mode = "open", !.dir = f.path, !.src = f.src]
                 ELSE [s EXCEPT !.mode = "rel"]
  /\ NoFault /\ UNCHANGED <<opt, rcv>>

\* send1extra: the names that --relative left for this directory
SendRel ==
  /\ snd.mode = "rel"
  /\ LET f == snd.dirs[snd.send_dir_ndx].file
         k == Len(f.path) + 1
         send(s, path) ==
           LET found == {n \in Disk(f.src) : n.path = path /\ [src |-> f.src, path |-> path] \notin gone}
           IN IF Len(path) > k THEN DivertImplied(s, f.src, path, k)
              ELSE IF found = {} THEN Err(s, "vanished")
              ELSE send_file_name(s, CHOOSE n \in found : TRUE, f.src, {"TOP_DIR", "CONTENT_DIR"})
     IN snd' = [FoldLeft(send, snd, f.rel) EXCEPT !.mode = "dup"]
  /\ NoFault /\ UNCHANGED <<opt, rcv>>

Scanned(f, prev) == f.src = prev.src /\ "CONTENT_DIR" \in prev.flags

MoveToDup(s, d, flags) == [s EXCEPT !.send_dir_ndx = d, !.dirs[d].file.flags = flags]

\* Directories of the same name that follow are sent in the same list, one
\* of the same argument without another scan.
SendDup ==
  /\ snd.mode = "dup" /\ IsDup(snd, snd.dirs[snd.send_dir_ndx].next)
  /\ LET d == snd.dirs[snd.send_dir_ndx].next
         prev == snd.dirs[snd.send_dir_ndx].file
         f == snd.dirs[d].file
         flags == IF Scanned(f, prev) THEN f.flags \ {"CONTENT_DIR"} ELSE f.flags
         s == MoveToDup(snd, d, flags)
     IN snd' = IF "CONTENT_DIR" \in flags THEN [s EXCEPT !.mode = "open", !.dir = f.path, !.src = f.src]
               ELSE [s EXCEPT !.mode = "rel"]
  /\ NoFault /\ UNCHANGED <<opt, rcv>>
----------------------------------------------------------------------------
(* Receiver *)

NewDirs(files) == fsort(opt.proto, SelectSeq(files, LAMBDA f : f.isdir))

\* recv_file_list, with the end of the list that the sender wrote
recv_file_list(r, files, dir_ndx, err) ==
  LET l == flist_sort_and_clean(opt, FALSE, files, opt.relative)
      cleaned(f) == l.sorted[CHOOSE i \in 1..Len(l.sorted) : l.sorted[i].id = f.id]
      parent == IF dir_ndx = 0 THEN <<>> ELSE r.dirs[dir_ndx].path
      within(f) == Front(f.path) = parent
      new == NewDirs(files)
  IN [r EXCEPT !.lists = Append(@, l @@ [dir_ndx |-> dir_ndx]),
               !.dirs = @ \o [i \in 1..Len(new) |-> cleaned(new[i])],
               !.io_error = IF opt.ignore_errors THEN @ ELSE @ \cup err,
               !.bad = @ \/ (opt.inc_recurse /\ ~((dir_ndx = 0 \/ r.dirs[dir_ndx].active)
                                                  /\ \A i \in 1..Len(files) : within(files[i])))]

\* a mistake: the end of a list never carries the error
WithoutError(before) == {}

\* io_error goes with the end of the list where the protocol has room for it
\* (write_end_of_flist), behind the list with an old protocol, or apart from
\* it with MSG_IO_ERROR.
ListError(before) ==
  IF opt.proto < 30 THEN IF opt.ignore_errors THEN {} ELSE snd.io_error
  ELSE IF snd.io_error = before \/ opt.ignore_errors THEN {}
  ELSE IF opt.use_safe_inc_flist \/ opt.proto = 30 THEN snd.io_error ELSE {}
Fatal(before) ==
  snd.io_error # before /\ ~opt.ignore_errors /\ ~opt.use_safe_inc_flist /\ opt.inc_recurse /\ opt.delete_during

\* the end of the first list
EndOfArgs ==
  /\ snd.mode = "args" /\ snd.args = <<>>
  /\ LET l == flist_sort_and_clean(opt, TRUE, snd.files, FALSE)
         s == [snd EXCEPT !.lists = Append(@, l), !.files = <<>>]
         t == add_dirs_to_tree(s, 0, l.sorted)
     IN /\ snd' = IF Fatal({}) THEN [s EXCEPT !.mode = "fatal"]
                  ELSE IF ~opt.inc_recurse THEN [s EXCEPT !.mode = "done"]
                  ELSE IF t.send_dir_ndx = 0 THEN [t EXCEPT !.mode = "done"] ELSE [t EXCEPT !.mode = "idle"]
        /\ rcv' = IF Fatal({}) THEN rcv ELSE recv_file_list(rcv, snd.files, 0, ListError({}))
  /\ NoFault /\ UNCHANGED opt

\* the end of another list, and where the next one starts
EndOfExtra ==
  /\ snd.mode = "dup" /\ ~IsDup(snd, snd.dirs[snd.send_dir_ndx].next)
  /\ LET l == flist_sort_and_clean(opt, TRUE, snd.files, FALSE)
         s == [snd EXCEPT !.lists = Append(@, l), !.files = <<>>]
         t == add_dirs_to_tree(s, snd.send_dir_ndx, l.sorted)
         next == Following(t, snd.send_dir_ndx)
     IN /\ snd' = IF Fatal(snd.save) THEN [s EXCEPT !.mode = "fatal"]
                  ELSE [t EXCEPT !.send_dir_ndx = next, !.mode = IF next = 0 THEN "done" ELSE "idle"]
        /\ rcv' = IF Fatal(snd.save) THEN rcv
                  ELSE recv_file_list(rcv, snd.files, snd.dir_ndx, ListError(snd.save))
  /\ NoFault /\ UNCHANGED opt

\* send_files cannot open a file that was asked for; the receiver hears of
\* the file (MSG_NO_SEND), not of the error
OpenFile ==
  /\ OpenFails /\ snd.mode = "idle" /\ Fault
  /\ \E e \in {"general", "vanished"} : snd' = Err(snd, e)
  /\ UNCHANGED <<opt, rcv, gone>>

\* delete_in_dir for an entry of a list (one list) or for the directory of a
\* list (incremental recursion), once the list is there
Doomed(l, dir) ==
  LET here(x) == IF dir = DotPath THEN <<x>> ELSE Append(dir, x)
  IN {here(x) : x \in {y \in Universe : ~IsExcluded(here(y)) /\ flist_find_name(opt.proto, l, here(y), -1).at = 0}}

Deletable(k) ==
  LET l == rcv.lists[k]
  IN IF ~opt.inc_recurse THEN {f \in Range(l.sorted) : f.active /\ f.isdir /\ "CONTENT_DIR" \in f.flags}
     ELSE IF l.dir_ndx > 0 THEN {rcv.dirs[l.dir_ndx]} \cap {f \in Range(rcv.dirs) : f.active /\ "CONTENT_DIR" \in f.flags}
     ELSE {f \in Range(l.sorted) : f.active /\ f.path = DotPath /\ "CONTENT_DIR" \in f.flags}

delete_in_dir ==
  /\ opt.delete_during /\ ~rcv.bad
  /\ \E k \in 1..Len(rcv.lists) : \E f \in Deletable(k) :
       /\ f.path \notin rcv.todo
       /\ rcv' = [rcv EXCEPT !.todo = @ \cup {f.path},
                             !.deleted = IF "general" \in rcv.io_error /\ ~opt.ignore_errors THEN @
                                         ELSE @ \cup Doomed(rcv.lists[k], f.path)]
  /\ UNCHANGED <<opt, snd, gone, faults>>

FlistInit ==
  /\ opt \in ListSetups
  /\ snd = Start
  /\ rcv = [lists |-> <<>>, dirs |-> <<>>, io_error |-> {}, bad |-> FALSE, todo |-> {}, deleted |-> {}]
  /\ gone = {} /\ faults = 0

FlistNext ==
  \/ Arg \/ OpenDir \/ ReadDir \/ CloseDir \/ NextDir \/ EndOfArgs
  \/ SendExtra \/ SendRel \/ SendDup \/ EndOfExtra \/ OpenFile \/ delete_in_dir

----------------------------------------------------------------------------
(* Properties *)

ErrorsKnown ==
  /\ snd.mode \in {"args", "open", "read", "next", "idle", "rel", "dup", "done", "fatal"}
  /\ snd.send_dir_ndx \in 0..Len(snd.dirs) /\ rcv.io_error \subseteq snd.io_error
  /\ \A k \in 1..Len(rcv.lists) : LET l == rcv.lists[k] IN
       l.low \in 1..Len(l.sorted) + 1 /\ l.high \in 0..Len(l.sorted)

\* Both ends give a number to the same file, of a list and among the
\* directories, whatever order the names were read in and however often a
\* name occurs.
SameNumbers ==
  /\ \A k \in 1..Len(rcv.lists) : \A i \in 1..Len(rcv.lists[k].sorted) :
       rcv.lists[k].sorted[i].id = snd.lists[k].sorted[i].id
  /\ opt.inc_recurse => /\ Len(rcv.dirs) = Len(snd.dirs)
                        /\ \A d \in 1..Len(rcv.dirs) : rcv.dirs[d].id = snd.dirs[d].file.id

\* The receiver never gets a list for a directory that it has dropped as a
\* duplicate, or with names that are not in that directory.
ListsAccepted == ~rcv.bad

\* No two entries that the receiver keeps have one name, and every name that
\* was sent is kept once: a search finds it.
OneEntryPerName ==
  \A k \in 1..Len(rcv.lists) :
    LET l == rcv.lists[k]
        kept == {i \in 1..Len(l.sorted) : l.sorted[i].active}
    IN /\ \A i, j \in kept : i # j => l.sorted[i].path # l.sorted[j].path
       /\ \A i \in kept : flist_find_name(opt.proto, l, l.sorted[i].path, -1).at = i
       /\ \A i \in 1..Len(l.sorted) :
            LET f == snd.lists[k].sorted[i]
            IN ~opt.prune_empty_dirs \/ ~f.isdir => \E j \in kept : l.sorted[j].path = f.path

\* what the arguments name: directories, unless empty ones are left out, with
\* all that is in them
Under(a, n) == IF a.name_type = DOTDIR_NAME THEN TRUE ELSE IsPrefix(a.path, n.path) /\ (opt.recurse \/ n.path = a.path)
Wanted == UNION {{[src |-> a.src, path |-> n.path] :
                    n \in {m \in Disk(a.src) : Under(a, m) /\ ~(m.isdir /\ opt.prune_empty_dirs)}} : a \in Range(opt.args)}
Shown(w) == \A k \in 1..Len(w.path) : w.path[k] \notin opt.excluded
\* some directory above it is a mount point that is not crossed
Crossed(w) == \E n \in Disk(w.src) : opt.one_file_system /\ n.mount /\ n.isdir /\ IsPrefix(n.path, w.path) /\ n.path # w.path

\* Nothing is deleted from the destination that the sender still has and
\* that its arguments name.
DeletesOnlyMissing ==
  ~opt.ignore_errors =>
    \A w \in Wanted : w \notin gone /\ Shown(w) /\ ~Crossed(w) => w.path \notin rcv.deleted

\* When the last list has been sent, all that the arguments name has been
\* listed, unless it vanished or the sender knows of an error.
EverythingListed ==
  snd.mode = "done" /\ "general" \notin snd.io_error =>
    \A w \in Wanted : w \notin gone /\ Shown(w) /\ ~Crossed(w) =>
      \E k \in 1..Len(rcv.lists) : \E f \in Range(rcv.lists[k].sorted) : f.active /\ f.path = w.path

\* A directory is pruned only if there is no file in it.
PrunedAreEmpty ==
  opt.prune_empty_dirs => \A k \in 1..Len(rcv.lists) :
    LET l == rcv.lists[k] IN
    \A i \in 1..Len(l.sorted) : l.sorted[i].active /\ ~l.sorted[i].isdir =>
      \A j \in 1..Len(l.sorted) : LET f == snd.lists[k].sorted[j] IN
        f.isdir /\ IsPrefix(f.path, l.sorted[i].path) /\ Len(l.sorted[i].path) > Len(f.path) =>
          \E m \in 1..Len(l.sorted) : l.sorted[m].active /\ l.sorted[m].path = f.path

\* Both ends number the same entries in the same way, one for each name; the
\* lists name all that the arguments name or an error is known, and nothing
\* that the source has is deleted at the destination.
ListsAgree ==
  /\ SameNumbers /\ ListsAccepted /\ OneEntryPerName
  /\ EverythingListed /\ ErrorsKnown /\ DeletesOnlyMissing /\ PrunedAreEmpty
=============================================================================
