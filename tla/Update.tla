------------------------------- MODULE Update -------------------------------
(***************************************************************************)
(* How one item of the file list is brought up to date on the receiving    *)
(* side: the generator's decision (recv_generator), the receiver's         *)
(* temporary file, checks and final renames (recv_files, finish_transfer), *)
(* backups, the partial-dir and the cleanup of an interrupted run, with    *)
(* kills between any two system calls and further runs after them.         *)
(*                                                                         *)
(* The names concerned are dest, temp (the temporary file), part (the file *)
(* in the partial-dir), bak (the backup) and alt (the item of an           *)
(* alternate destination directory).  An entry is [type, data, time, own,  *)
(* mode].  An operation of the code is the sequence of its system calls:   *)
(* it is computed when it starts and then done call by call.               *)
(***************************************************************************)
EXTENDS Integers, Sequences, FiniteSets

CONSTANTS
  Configs,   \* [opt, fs]: options and files to begin with
  MaxRuns,   \* bound: runs of rsync
  MaxBad     \* bound: transfers whose data fails the file checksum

VARIABLES
  opt,       \* the options
  fs,        \* name |-> entry
  first,     \* fs before the first run
  stage,     \* where the current run is
  todo,      \* system calls still to be done before that
  req,       \* the request being served: [basis, redo, ok]
  literal,   \* cleanup_got_literal
  failing,   \* kinds of system calls that fail in this run
  run,       \* number of the run
  bad,       \* transfers that failed the checksum so far
  code,      \* "ok" or "partial": what the exit status of the run will be
  srcGone    \* the sender has been told to remove the source file

vars == <<opt, fs, first, stage, todo, req, literal, failing, run, bad, code, srcGone>>
----------------------------------------------------------------------------
None == [type |-> "none", data |-> "", time |-> "", own |-> "", mode |-> ""]
File(data, time, own, mode) == [type |-> "file", data |-> data, time |-> time, own |-> own, mode |-> mode]
Exists(e) == e.type # "none"
Size(e) == CASE e.data \in {"new", "old", "mix", "other"} -> 2 [] e.data = "half" -> 1 [] OTHER -> 0
Rank(t) == CASE t = "zero" -> 0 [] t = "before" -> 1 [] t = "source" -> 2 [] OTHER -> 3

\* system calls
Put(a, data) == [op |-> "put", a |-> a, b |-> a, data |-> data]      \* open, write
Unlink(a) == [op |-> "unlink", a |-> a, b |-> a, data |-> ""]
Rename(a, b) == [op |-> "rename", a |-> a, b |-> b, data |-> ""]
Link(a, b) == [op |-> "link", a |-> a, b |-> b, data |-> ""]
Make(a) == [op |-> "make", a |-> a, b |-> a, data |-> ""]            \* symlink, mknod, mkdir
Attrs(a, time) == [op |-> "attrs", a |-> a, b |-> a, data |-> time]  \* set_file_attrs
LikeOf(a, b) == [op |-> "like", a |-> a, b |-> b, data |-> ""]       \* the same with the attributes of b
Writable(a) == [op |-> "writable", a |-> a, b |-> a, data |-> ""]    \* chmod u+rwx
Retouch(a) == [op |-> "retouch", a |-> a, b |-> a, data |-> ""]      \* touch_up_dirs
Success == [op |-> "success", a |-> "dest", b |-> "dest", data |-> ""]
----------------------------------------------------------------------------
(* Attributes.  Changing the owner of a file takes its setuid bit away.    *)

dest_mode(e) == IF opt.perms THEN opt.src.mode ELSE IF Exists(e) THEN e.mode ELSE "rw"

Chowned(e) == IF opt.owner /\ e.own # opt.src.own THEN [e EXCEPT !.own = opt.src.own, !.mode = IF @ = "suid" THEN "rw" ELSE @]
              ELSE e

\* (mutant) compares the mode with the one from before the chown
AttrsUnchecked(e, mode, time) ==
  [Chowned(e) EXCEPT !.mode = IF e.mode = mode THEN @ ELSE mode,
                     !.time = IF time = "" \/ (~opt.times /\ time # "zero") THEN @ ELSE time]

\* time is "" if it is not to be set
set_file_attrs(e, mode, time) ==
  [Chowned(e) EXCEPT !.mode = mode, !.time = IF time = "" \/ (~opt.times /\ time # "zero") THEN @ ELSE time]

unchanged_attrs(e) ==
  /\ ~opt.times \/ e.time = opt.src.time
  /\ ~opt.perms \/ e.mode = opt.src.mode
  /\ ~opt.owner \/ e.own = opt.src.own

\* the quick check
unchanged_file(e) ==
  /\ Size(e) = Size(opt.src)
  /\ IF opt.checksum THEN e.data = opt.src.data ELSE e.time = opt.src.time

\* The end of a directory: its mode was changed by Writable, its time by what
\* was put into it.
touch_up_dirs(e) ==
  [e EXCEPT !.mode = IF ~opt.owner /\ opt.src.mode = "ro" THEN "ro" ELSE @, !.time = IF opt.times THEN "source" ELSE @]

\* The effect of a system call; nothing with --dry-run.
Apply(c) ==
  IF opt.dry THEN fs
  ELSE CASE c.op = "put" ->
              [fs EXCEPT ![c.a] = File(c.data, "now", IF Exists(@) THEN @.own ELSE "us", IF Exists(@) THEN @.mode ELSE "rw")]
         [] c.op = "unlink" -> [fs EXCEPT ![c.a] = None]
         [] c.op = "rename" -> IF Exists(fs[c.a]) THEN [fs EXCEPT ![c.b] = fs[c.a], ![c.a] = None] ELSE fs
         [] c.op = "link" -> [fs EXCEPT ![c.b] = fs[c.a]]
         [] c.op = "make" -> [fs EXCEPT ![c.a] = [opt.src EXCEPT !.time = "now", !.own = "us", !.mode = "rw"]]
         [] c.op = "attrs" -> IF Exists(fs[c.a]) THEN [fs EXCEPT ![c.a] = set_file_attrs(@, dest_mode(fs["dest"]), c.data)] ELSE fs
         [] c.op = "like" -> [fs EXCEPT ![c.a] = [@ EXCEPT !.time = fs[c.b].time, !.own = fs[c.b].own, !.mode = fs[c.b].mode]]
         [] c.op = "writable" -> [fs EXCEPT ![c.a].mode = "rwx"]
         [] c.op = "retouch" -> [fs EXCEPT ![c.a] = touch_up_dirs(@)]
         [] OTHER -> fs
----------------------------------------------------------------------------
(* Backups, copies and renames.                                            *)

Fails(kind) == kind \in failing

\* copy_file, over a name that is unlinked first
copy_file(a, b) == (IF Exists(fs[b]) THEN <<Unlink(b)>> ELSE <<>>) \o <<Put(b, "half"), Put(b, fs[a].data)>>

\* A hard link, else a rename, else a copy.  A name that is in the way of the
\* link goes first; of an item that is not a file only a new name is made.
make_backup(prefer_rename) ==
  LET way == IF Exists(fs["bak"]) /\ ~Fails("link") THEN <<Unlink("bak")>> ELSE <<>>
  IN IF ~Exists(fs["dest"]) THEN <<>>
     ELSE IF ~prefer_rename /\ ~Fails("link") THEN way \o <<Link("dest", "bak")>>
     ELSE IF ~Fails("rename") /\ (prefer_rename \/ fs["dest"].type = "file") THEN <<Rename("dest", "bak")>>
     ELSE IF fs["dest"].type = "file" THEN copy_file("dest", "bak") \o <<LikeOf("bak", "dest")>>
     ELSE IF Exists(fs["bak"]) THEN <<>> ELSE <<Link("dest", "bak")>>

PartialCopy == opt.partial = "dir"
KeepPartial == opt.partial # "no"

\* [calls, ret]: 0 renamed, 1 copied, -1 failed
robust_rename(from, to, partial) ==
  IF from = to THEN [calls |-> <<>>, ret |-> 0]
  ELSE IF from = "temp" /\ opt.xdev
  THEN [calls |-> copy_file(from, IF partial THEN "part" ELSE to) \o <<Unlink(from)>>, ret |-> 1]
  ELSE IF Fails("rename") THEN [calls |-> <<>>, ret |-> -1]
  ELSE [calls |-> <<Rename(from, to)>>, ret |-> 0]

\* (mutant) backs up again what the first attempt left
BackupAgain(redo) == opt.backup
Backups(redo) == opt.backup /\ ~(redo /\ opt.partial = "plain")

\* partial: the partial-dir may take a copy from another file system
finish_transfer(to, from, partial, time, overwriting, redo) ==
  LET backup == IF Backups(redo) /\ overwriting THEN make_backup(FALSE) ELSE <<>>
      r == robust_rename(from, to, partial)
      attrs == <<Attrs(from, time)>>
      copied == IF partial THEN <<Attrs("part", time), Rename("part", to)>> ELSE <<Attrs(to, time)>>
      giveup == IF PartialCopy /\ partial /\ ~Fails("rename") THEN <<Rename(from, "part")>> ELSE <<Unlink(from)>>
  IN IF opt.inplace THEN [calls |-> <<Attrs(to, time)>>, ok |-> TRUE]
     ELSE IF r.ret < 0 THEN [calls |-> backup \o attrs \o giveup, ok |-> FALSE]
     ELSE [calls |-> backup \o attrs \o r.calls \o (IF r.ret = 1 THEN copied ELSE <<>>), ok |-> TRUE]
----------------------------------------------------------------------------
(* The generator.                                                          *)

Skip == [calls |-> <<>>, then |-> "end", basis |-> "none", err |-> FALSE]
Do(calls) == [Skip EXCEPT !.calls = calls]
Request(calls, basis) == [Skip EXCEPT !.calls = calls, !.then = "recv", !.basis = basis]
Failed(calls) == [Skip EXCEPT !.calls = calls, !.err = TRUE]
WithSuccess(r) == IF opt.remove THEN [r EXCEPT !.calls = @ \o <<Success>>] ELSE r

dest == fs["dest"]
delete_item ==
  IF opt.backup /\ dest.type # "dir" THEN make_backup(TRUE) \o (IF Fails("rename") THEN <<Unlink("dest")>> ELSE <<>>)
  ELSE <<Unlink("dest")>>

\* A temporary name and a rename if there is something to replace.
atomic_create(replace) ==
  LET skip == ~replace \/ dest.type = "dir" \/ opt.xdev
      old == IF ~replace THEN <<>>
             ELSE IF opt.backup /\ dest.type # "dir" THEN make_backup(skip)
             ELSE IF skip THEN delete_item ELSE <<>>
  IN IF skip /\ replace /\ opt.backup /\ Fails("rename") THEN [calls |-> old, ok |-> FALSE]
     ELSE IF skip THEN [calls |-> old \o <<Make("dest")>>, ok |-> TRUE]
     ELSE IF Fails("rename") THEN [calls |-> old \o <<Make("temp"), Unlink("temp")>>, ok |-> FALSE]
     ELSE [calls |-> old \o <<Make("temp"), Rename("temp", "dest")>>, ok |-> TRUE]

\* 0: nothing, 1: another file, 2: the same contents, 3: the same attributes too
MatchLevel(e) ==
  IF e.type # opt.src.type THEN 0
  ELSE IF ~(IF e.type = "file" THEN unchanged_file(e) ELSE e.data = opt.src.data) THEN 1
  ELSE IF ~unchanged_attrs(e) THEN 2 ELSE 3

copy_altdest_file ==
  IF opt.inplace THEN [calls |-> copy_file("alt", "dest") \o <<Attrs("dest", "source")>>, ok |-> TRUE]
  ELSE LET f == finish_transfer("dest", "temp", PartialCopy, "source", FALSE, FALSE)
       IN [calls |-> <<Put("temp", "half"), Put("temp", fs["alt"].data)>> \o
                     (IF opt.xdev THEN <<Put("dest", fs["alt"].data), Attrs("dest", "source"), Unlink("temp")>> ELSE f.calls),
           ok |-> f.ok]

\* A regular file and the alternate directory: done, or a basis, or nothing.
try_dests_reg(exact) ==
  LET level == MatchLevel(fs["alt"])
      done(calls) == [r |-> "done", calls |-> calls, err |-> FALSE]
      room == IF exact THEN <<Unlink("dest")>> ELSE <<>>
      copy == IF copy_altdest_file.ok THEN done(copy_altdest_file.calls)
              ELSE [r |-> "none", calls |-> copy_altdest_file.calls, err |-> TRUE]
      nothing == [r |-> "none", calls |-> <<>>, err |-> FALSE]
  IN IF level = 0 THEN nothing
     ELSE IF exact /\ opt.alt = "link" /\ fs["dest"] = fs["alt"] THEN nothing   \* linked already
     ELSE IF level = 3 /\ opt.alt = "compare" THEN done(room)
     ELSE IF level = 3 /\ opt.alt = "link" THEN IF Fails("link") THEN [copy EXCEPT !.calls = room \o @]
                                                ELSE done(room \o <<Link("alt", "dest")>>)
     ELSE IF exact THEN nothing
     ELSE IF level >= 2 THEN copy
     ELSE [nothing EXCEPT !.r = "basis"]

\* The same for any other item, which is linked or must still be made.
try_dests_non ==
  IF MatchLevel(fs["alt"]) = 3 /\ opt.alt = "link" /\ opt.src.type # "dir" /\ ~Fails("link")
  THEN [r |-> "done", calls |-> <<Link("alt", "dest")>>]
  ELSE IF MatchLevel(fs["alt"]) = 3 /\ opt.alt = "compare" /\ opt.src.type # "dir" THEN [r |-> "done", calls |-> <<>>]
  ELSE [r |-> "none", calls |-> <<>>]

\* Options that leave the item alone.
Ignored(redo) ==
  \/ opt.ignore_non_existing /\ ~redo /\ ~Exists(dest)
  \/ opt.ignore_existing /\ ~redo /\ Exists(dest) /\ (opt.src.type # "dir" \/ dest.type # "dir")

\* A directory is made or made usable; its attributes are set again at the end.
generate_dir ==
  LET room == IF Exists(dest) /\ dest.type # "dir" THEN delete_item ELSE <<>>
      make == IF dest.type = "dir" THEN <<>> ELSE <<Make("dest")>>
  IN IF Fails("mkdir") /\ make # <<>> THEN Failed(room)
     ELSE [Do(room \o make \o <<Attrs("dest", "source")>> \o
              (IF ~opt.owner /\ opt.src.mode # "rwx" THEN <<Writable("dest")>> ELSE <<>>)) EXCEPT !.then = "touch"]

\* A symbolic link, a device or a special file.
generate_other ==
  LET same == dest.type = opt.src.type /\ dest.data = opt.src.data
      replace == Exists(dest)
      alt == try_dests_non
      made == atomic_create(replace)
  IN IF same THEN WithSuccess(Do(<<Attrs("dest", "source")>>))
     ELSE IF ~replace /\ opt.alt # "none" /\ alt.r = "done" THEN Do(alt.calls)
     ELSE IF made.ok THEN WithSuccess(Do(made.calls \o <<Attrs("dest", "source")>>))
     ELSE Failed(made.calls)

\* The basis of a regular file's transfer, and the backup that an update in
\* place makes first.
PrepareToOpen(partial, basis, redo) ==
  LET b == IF partial THEN "part" ELSE basis
      copy == (IF Exists(fs["bak"]) THEN <<Unlink("bak")>> ELSE <<>>) \o
              <<Put("bak", "half"), Put("bak", fs["dest"].data), LikeOf("bak", "dest")>>
  IN IF opt.inplace /\ opt.backup /\ ~redo /\ b = "dest" THEN Request(copy, IF opt.whole THEN "dest" ELSE "bak")
     ELSE Request(<<>>, IF opt.whole /\ b = "dest" THEN "dest" ELSE b)

generate_file(redo) ==
  LET isfile == dest.type = "file"
      room == IF Exists(dest) /\ ~isfile THEN delete_item ELSE <<>>
      alt == IF opt.alt # "none" /\ (~isfile \/ opt.alt # "copy") THEN try_dests_reg(isfile)
             ELSE [r |-> "none", calls |-> <<>>, err |-> FALSE]
      basis == IF alt.r = "basis" THEN "alt" ELSE IF isfile THEN "dest" ELSE "none"
      partial == opt.partial = "dir" /\ fs["part"].type = "file"
      with(r) == [r EXCEPT !.calls = room \o alt.calls \o @, !.err = @ \/ alt.err]
  IN IF opt.update /\ ~redo /\ isfile /\ Rank(dest.time) >= Rank(opt.src.time) THEN Skip
     ELSE IF room # <<>> /\ Fails("unlink") THEN Failed(<<>>)
     ELSE IF alt.r = "done" THEN with(WithSuccess(Skip))
     ELSE IF basis = "none" THEN with(Request(<<>>, IF partial THEN "part" ELSE "none"))
     ELSE IF basis = "dest" /\ ~redo /\ unchanged_file(dest)
     THEN with(WithSuccess(Do((IF partial THEN <<Unlink("part")>> ELSE <<>>) \o <<Attrs("dest", "source")>>)))
     ELSE with(PrepareToOpen(partial, basis, redo))

recv_generator(redo) ==
  IF Ignored(redo) THEN Skip
  ELSE CASE opt.src.type = "dir" -> generate_dir
         [] opt.src.type \in {"link", "dev"} -> generate_other
         [] OTHER -> generate_file(redo)
----------------------------------------------------------------------------
(* The receiver.                                                           *)

OneInplace == opt.inplace_partial /\ req.basis = "part"
Target == IF opt.inplace THEN "dest" ELSE IF OneInplace THEN "part" ELSE "temp"
PartialPtr == CASE opt.partial = "dir" -> "part" [] OTHER -> "dest"

TimeToSet(ok) == IF ok THEN "source" ELSE ""

\* What happens to the data of a transfer: ok says whether its checksum agreed.
EndOfData(ok) ==
  LET time == TimeToSet(ok)
      direct == finish_transfer("dest", Target, PartialCopy, time, TRUE, req.redo)
      staged == finish_transfer(PartialPtr, "temp", FALSE, time, opt.partial # "dir", req.redo)
      used == IF req.basis = "part" /\ ~OneInplace THEN <<Unlink("part")>> ELSE <<>>
  IN IF (ok /\ ~opt.delay) \/ opt.inplace
     THEN [calls |-> direct.calls \o (IF direct.ok THEN used ELSE <<>>), ret |-> IF ~direct.ok THEN "failed" ELSE IF ok THEN "done" ELSE "redo"]
     ELSE IF KeepPartial /\ ~OneInplace
     THEN [calls |-> staged.calls, ret |-> IF ~staged.ok THEN "failed" ELSE IF ok THEN "delayed" ELSE "redo"]
     ELSE [calls |-> IF OneInplace THEN <<>> ELSE <<Unlink("temp")>>, ret |-> IF ok THEN "delayed" ELSE "redo"]

handle_delayed_updates ==
  (IF opt.backup THEN make_backup(FALSE) ELSE <<>>) \o
  (IF Fails("rename") THEN <<>> ELSE <<Rename("part", "dest")>> \o (IF opt.remove THEN <<Success>> ELSE <<>>))

\* (mutant) keeps the partial file under the time of the source
CleanupUntweaked ==
  IF literal /\ Target = "temp" /\ KeepPartial
  THEN finish_transfer(PartialPtr, "temp", FALSE, "source", opt.partial # "dir", req.redo).calls
  ELSE IF Target = "temp" THEN <<Unlink("temp")>> ELSE <<>>

\* exit_cleanup while data is being received
exit_cleanup ==
  IF literal /\ Target = "temp" /\ KeepPartial
  THEN finish_transfer(PartialPtr, "temp", FALSE, IF opt.partial = "plain" THEN "zero" ELSE "", opt.partial # "dir", req.redo).calls
  ELSE IF Target = "temp" THEN <<Unlink("temp")>> ELSE <<>>
----------------------------------------------------------------------------
NoRequest == [basis |-> "none", redo |-> FALSE, ret |-> ""]

Init == /\ \E c \in Configs : opt = c.opt /\ fs = c.fs
        /\ first = fs
        /\ stage = "gen" /\ todo = <<>> /\ req = NoRequest /\ literal = FALSE
        /\ failing \in {{}, {"link"}, {"link", "rename"}, {"mkdir", "unlink"}}
        /\ run = 1 /\ bad = 0 /\ code = "ok" /\ srcGone = FALSE

\* The next system call of what is being done.
Call ==
  /\ todo # <<>> /\ stage # "dead"
  /\ fs' = Apply(todo[1])
  /\ srcGone' = (srcGone \/ (todo[1].op = "success" /\ ~opt.dry))
  /\ todo' = Tail(todo)
  /\ UNCHANGED <<opt, first, stage, req, literal, failing, run, bad, code>>

Generate ==
  /\ stage = "gen" /\ todo = <<>>
  /\ LET g == recv_generator(req.redo)
     IN /\ todo' = g.calls
        /\ stage' = IF g.then = "recv" /\ opt.dry THEN "end" ELSE g.then
        /\ req' = [req EXCEPT !.basis = g.basis]
        /\ code' = IF g.err THEN "partial" ELSE code
  /\ UNCHANGED <<opt, fs, first, literal, failing, run, bad, srcGone>>

\* The file to write to is opened.
Open ==
  /\ stage = "recv" /\ todo = <<>>
  /\ todo' = IF Target = "temp" \/ ~Exists(fs[Target]) THEN <<Put(Target, "empty")>> ELSE <<>>
  /\ literal' = FALSE /\ stage' = "data"
  /\ UNCHANGED <<opt, fs, first, req, failing, run, bad, code, srcGone>>

ReceiveSome ==
  /\ stage = "data" /\ todo = <<>> /\ ~literal
  /\ todo' = <<Put(Target, IF Target = "temp" THEN "half" ELSE "mix")>>
  /\ literal' = TRUE
  /\ UNCHANGED <<opt, fs, first, stage, req, failing, run, bad, code, srcGone>>

ReceiveRest(ok) ==
  /\ stage = "data" /\ todo = <<>> /\ literal
  /\ ~ok => bad < MaxBad
  /\ bad' = IF ok THEN bad ELSE bad + 1
  /\ fs' = [fs EXCEPT ![Target] = File(IF ok THEN "new" ELSE "mix", "now", @.own, @.mode)]
  /\ stage' = IF ok THEN "good" ELSE "wrong"
  /\ UNCHANGED <<opt, first, todo, req, literal, failing, run, code, srcGone>>

Finish ==
  /\ stage \in {"good", "wrong"} /\ todo = <<>>
  /\ LET e == EndOfData(stage = "good")
     IN /\ todo' = e.calls \o (IF e.ret = "done" /\ opt.remove THEN <<Success>> ELSE <<>>)
        /\ stage' = IF e.ret = "delayed" THEN "delayed" ELSE IF e.ret = "redo" /\ ~req.redo THEN "gen" ELSE "end"
        /\ req' = [req EXCEPT !.redo = e.ret = "redo" /\ ~@]
        /\ code' = IF e.ret = "failed" \/ (e.ret = "redo" /\ req.redo) THEN "partial" ELSE code
  /\ literal' = FALSE
  /\ UNCHANGED <<opt, fs, first, failing, run, bad, srcGone>>

\* Phase 2: files that were held back, and directories.
LastPhase ==
  /\ stage \in {"delayed", "touch"} /\ todo = <<>>
  /\ todo' = IF stage = "touch" THEN <<Retouch("dest")>> ELSE handle_delayed_updates
  /\ code' = IF stage = "delayed" /\ Fails("rename") THEN "partial" ELSE code
  /\ stage' = "end"
  /\ UNCHANGED <<opt, fs, first, req, literal, failing, run, bad, srcGone>>

\* A signal is acted on where data is waited for; a kill takes effect anywhere.
Signal ==
  /\ stage = "data" /\ todo = <<>> /\ run < MaxRuns
  /\ todo' = exit_cleanup /\ stage' = "end" /\ code' = "partial"
  /\ UNCHANGED <<opt, fs, first, req, literal, failing, run, bad, srcGone>>

Kill ==
  /\ stage # "dead" /\ run < MaxRuns
  /\ stage' = "dead" /\ todo' = <<>> /\ code' = "partial"
  /\ UNCHANGED <<opt, fs, first, req, literal, failing, run, bad, srcGone>>

\* Another run with the same options; the temporary file of a run that was
\* killed has a name of its own and stays.
Again ==
  /\ stage \in {"dead", "end"} /\ todo = <<>> /\ run < MaxRuns /\ ~srcGone
  /\ fs' = [fs EXCEPT !["temp"] = None]
  /\ stage' = "gen" /\ run' = run + 1 /\ req' = NoRequest /\ literal' = FALSE /\ code' = "ok"
  /\ failing' = {}
  /\ UNCHANGED <<opt, first, todo, bad, srcGone>>

Next == Call \/ Generate \/ Open \/ ReceiveSome \/ (\E ok \in BOOLEAN : ReceiveRest(ok)) \/ Finish \/ LastPhase
        \/ Signal \/ Kill \/ Again

Spec == Init /\ [][Next]_vars
        /\ WF_vars(Call) /\ WF_vars(Generate) /\ WF_vars(Open) /\ WF_vars(ReceiveSome) /\ WF_vars(ReceiveRest(TRUE))
        /\ WF_vars(Finish) /\ WF_vars(LastPhase) /\ WF_vars(Again)
----------------------------------------------------------------------------
(* Properties                                                              *)

Ended == stage = "end" /\ todo = <<>>
Right(e) == e.type = opt.src.type /\ e.data = opt.src.data
Compared == opt.alt = "compare" /\ Right(fs["alt"])

\* Every name holds an item, and the names that an option asks for hold
\* nothing without it (partial_dir_fname, get_backup_name).
TypeOK ==
  /\ \A n \in DOMAIN fs : fs[n].type \in {"none", "file", "dir", "link", "dev"}
  /\ opt.partial # "dir" => fs["part"] = first["part"]
  /\ ~opt.backup => fs["bak"] = first["bak"]
  /\ fs["alt"] = first["alt"]

\* Without --inplace, --partial and a --temp-dir on another file system the
\* name of a file shows the old contents, the new ones or a copy of the
\* alternate file at every moment, whenever the run is killed; an item that
\* is replaced by one of its type is never missing (finish_transfer,
\* atomic_create; a backup that is made by a rename, or a name that is
\* compared or linked to the alternate directory, excepted).
AtomicReplace ==
  ~opt.inplace /\ opt.partial # "plain" /\ ~opt.xdev =>
    /\ Exists(fs["dest"]) => fs["dest"].data \in {opt.src.data, first["dest"].data, first["alt"].data}
    /\ Exists(first["dest"]) /\ first["dest"].type = opt.src.type /\ ~opt.backup /\ opt.alt = "none" => Exists(fs["dest"])

\* A file that would pass the quick check of another run has the contents of
\* the source: time and size are never right before the data is
\* (finish_transfer's ok_to_set_time, exit_cleanup).
TimesAreHonest ==
  /\ opt.src.type = "file" /\ fs["dest"].type = "file" /\ fs["dest"] # first["dest"]
  /\ Size(fs["dest"]) = Size(opt.src) /\ fs["dest"].time = opt.src.time
  => fs["dest"].data = opt.src.data

\* With --backup the old contents of a file are under its name or under that
\* of its backup, also when the first transfer of the data was wrong and is
\* repeated (make_backups = -make_backups in recv_files and
\* check_for_finished_files).  After an interrupted run this holds if the
\* name was not given to a partial file.
OldIsKept ==
  /\ opt.backup /\ first["dest"].type = "file" /\ opt.src.type = "file"
  /\ run = 1 \/ (~opt.inplace /\ ~opt.xdev /\ opt.partial # "plain")
  => first["dest"].data \in {fs["dest"].data, fs["bak"].data}

\* The sender is told to remove its file only when the receiving side has the
\* contents under the final name (MSG_SUCCESS).
SourceRemovedOnlyWhenDone == srcGone => Right(fs["dest"]) \/ Compared

\* A run that was not killed leaves no temporary file.
NoLitter == Ended => ~Exists(fs["temp"])

\* A run that ends without an error has brought the item up to date, its
\* attributes included: a setuid bit that a chown took away, the mode of a
\* directory that had to be made writable.  (A directory without the bits
\* for reading or searching keeps what was added: touch_up_dirs only
\* restores one that is not writable.)
RunRepairs ==
  Ended /\ code = "ok" /\ ~opt.dry /\ ~opt.update /\ ~opt.ignore_existing /\ ~opt.ignore_non_existing =>
    \/ Compared
    \/ /\ Right(fs["dest"])
       /\ opt.times => fs["dest"].time = opt.src.time
       /\ opt.perms /\ ~(opt.src.type = "dir" /\ opt.src.mode = "rw" /\ ~opt.owner) => fs["dest"].mode = opt.src.mode
       /\ opt.owner => fs["dest"].own = opt.src.own

\* Whatever is interrupted, refused or damaged on the way, further runs bring
\* the item up to date, also with --update: the partial file that a signal
\* leaves is not taken for a newer one.  (--update skips what a kill leaves
\* of an update in place or of a copy between file systems, and a file kept
\* by --partial whose data was found wrong.)
Converges ==
  <>[](\/ opt.dry \/ opt.ignore_existing \/ opt.ignore_non_existing
       \/ opt.update /\ (opt.inplace \/ opt.xdev \/ (opt.partial = "plain" /\ bad > 0) \/ Rank(first["dest"].time) >= Rank(opt.src.time))
       \/ Right(fs["dest"]) \/ Compared)

\* At every system call: whole contents under the final name, times that do
\* not lie, the old contents kept when asked for, the source removed only
\* when its copy is in place, and no temporary file left by a run that ends.
NothingHalfDone ==
  /\ TypeOK /\ AtomicReplace /\ TimesAreHonest /\ OldIsKept
  /\ SourceRemovedOnlyWhenDone /\ NoLitter
=============================================================================
