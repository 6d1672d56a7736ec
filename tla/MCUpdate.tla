------------------------------ MODULE MCUpdate ------------------------------
(***************************************************************************)
(* Options and files of the runs of Update.                                *)
(***************************************************************************)
EXTENDS Update

New(mode) == File("new", "source", "root", mode)
Item(type, data, mode) == [type |-> type, data |-> data, time |-> "source", own |-> "root", mode |-> mode]

Plain == [src |-> New("rw"), inplace |-> FALSE, partial |-> "no", inplace_partial |-> FALSE, backup |-> FALSE, delay |-> FALSE,
          xdev |-> FALSE, whole |-> FALSE, update |-> FALSE, ignore_existing |-> FALSE, ignore_non_existing |-> FALSE,
          alt |-> "none", remove |-> FALSE, dry |-> FALSE, perms |-> TRUE, owner |-> TRUE, times |-> TRUE, checksum |-> FALSE]

\* ways to write a file
Ways == {Plain, [Plain EXCEPT !.inplace = TRUE], [Plain EXCEPT !.partial = "plain"], [Plain EXCEPT !.partial = "dir"],
         [Plain EXCEPT !.partial = "dir", !.inplace_partial = TRUE], [Plain EXCEPT !.partial = "dir", !.delay = TRUE]}
Moved == Ways \cup {[w EXCEPT !.xdev = TRUE] : w \in {v \in Ways : ~v.inplace}}
Backed == {[w EXCEPT !.backup = b] : w \in Moved, b \in BOOLEAN}
FileOpts ==
  {[w EXCEPT !.remove = x] : w \in Backed, x \in BOOLEAN}
  \cup {[w EXCEPT !.update = TRUE] : w \in Moved}
  \cup {[w EXCEPT !.src = New("suid")] : w \in Ways}
  \cup {[w EXCEPT !.alt = a] : w \in Ways, a \in {"compare", "copy", "link"}}
  \cup {[w EXCEPT !.whole = TRUE, !.backup = TRUE] : w \in Ways}
  \cup {[Plain EXCEPT !.dry = TRUE, !.backup = TRUE], [Plain EXCEPT !.ignore_existing = TRUE],
        [Plain EXCEPT !.ignore_non_existing = TRUE], [Plain EXCEPT !.times = FALSE, !.perms = FALSE],
        [Plain EXCEPT !.checksum = TRUE], [Plain EXCEPT !.owner = FALSE]}

OtherOpts ==
  {[Plain EXCEPT !.src = s, !.owner = o, !.backup = b, !.xdev = x] :
     s \in {Item("dir", "dir", "ro"), Item("dir", "dir", "rw"), Item("link", "new", "rw"), Item("dev", "new", "rw")},
     o \in BOOLEAN, b \in BOOLEAN, x \in BOOLEAN}
  \cup {[Plain EXCEPT !.src = Item("link", "new", "rw"), !.alt = a] : a \in {"compare", "copy", "link"}}

Old == File("old", "before", "us", "suid")
Dests == {None, Old, [Old EXCEPT !.time = "now"], [New("suid") EXCEPT !.own = "us"], Item("dir", "dir", "rwx"), Item("link", "old", "rw")}
Alts(o) == IF o.alt = "none" THEN {None} ELSE {None, File("other", "before", "us", "rw"), o.src, [o.src EXCEPT !.own = "us"]}
Parts(o) == IF o.partial = "dir" THEN {None, File("half", "now", "us", "rw")} ELSE {None}
Baks(o) == IF o.backup THEN {None, File("other", "before", "us", "rw")} ELSE {None}

MCConfigs ==
  UNION {{[opt |-> o, fs |-> [dest |-> d, temp |-> None, part |-> p, bak |-> b, alt |-> a]] :
            d \in Dests, p \in Parts(o), b \in Baks(o), a \in Alts(o)} : o \in FileOpts \cup OtherOpts}
=============================================================================
