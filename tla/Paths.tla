-------------------------------- MODULE Paths --------------------------------
(***************************************************************************)
(* Paths as the functions of util.c treat them, without looking at the disk *)
(* (clean_fname, sanitize_path, unsafe_symlink), with the current directory *)
(* (change_dir), and with the tree (make_path, glob_expand).  A path is the *)
(* sequence of what is between its slashes, each a sequence of characters:  *)
(* "/a//b/" is <<<<>>, <<"a">>, <<>>, <<"b">>, <<>>>>.                      *)
(***************************************************************************)
EXTENDS Wild, FiniteSets

CONSTANTS
  RawPaths,      \* paths to clean, sanitize and follow
  Globs,         \* paths that end with a wildcard
  Tree,          \* the directories of the disk, as sequences of names
  Plainfiles,    \* the other files
  Unseen,        \* what the filter of the daemon hides
  ModuleDir,     \* the directory of the daemon's module
  MaxMoves       \* changes of the directory in a behaviour

VARIABLES pth, here
pvars == <<pth, here>>

Dot == <<".">>
DotDot == <<".", ".">>
Blank == <<>>
Anchored(p) == Len(p) > 1 /\ p[1] = Blank

(***************************************************************************)
(* clean_fname.  The flags: "keepdot", "droptrail", "keepslash",            *)
(* "collapse", "refuse".                                                    *)
(***************************************************************************)
CleanStart == [out |-> <<>>, slash |-> FALSE, stop |-> FALSE, bad |-> FALSE]

\* One part of the name.  A ".." takes the part before it away, unless that
\* had to stay itself (the limit of the code).
CleanPart(st, s, last, anchored, flags) ==
  CASE st.stop \/ s = Blank -> st
    [] s = Dot /\ ~last /\ "keepdot" \notin flags -> st
    [] s = Dot /\ last /\ "droptrail" \in flags -> [st EXCEPT !.stop = TRUE]
    [] s = DotDot /\ "refuse" \in flags -> [st EXCEPT !.stop = TRUE, !.bad = TRUE]
    [] s = DotDot /\ "collapse" \in flags /\ st.out = <<>> /\ anchored -> st
    [] s = DotDot /\ "collapse" \in flags /\ st.out # <<>> /\ Last(st.out) # DotDot ->
         [st EXCEPT !.out = Front(@), !.slash = TRUE]
    [] OTHER -> [st EXCEPT !.out = Append(@, s), !.slash = ~last]

\* The cleaned path, or <<>> if it is refused.
clean_fname(p, flags) ==
  LET st == FoldLeft(LAMBDA a, i : CleanPart(a, p[i], i = Len(p), Anchored(p), flags), CleanStart,
                     [i \in 1 .. Len(p) |-> i])
      end == IF st.slash /\ "keepslash" \in flags /\ st.out # <<>> THEN <<Blank>> ELSE <<>>
  IN IF st.bad THEN <<>>
     ELSE IF Anchored(p) THEN <<Blank>> \o (IF st.out = <<>> THEN <<Blank>> ELSE st.out) \o end
     ELSE IF st.out = <<>> THEN <<Dot>> ELSE st.out \o end

(***************************************************************************)
(* sanitize_path: the path as it would be behind a chroot.  depth is the    *)
(* number of ".." to allow at the start.                                    *)
(***************************************************************************)
\* Mutant: one ".." too many is let through.
SanitizeOneMore(st, s, keepdot) ==
  CASE s = Blank \/ (s = Dot /\ ~keepdot) -> st
    [] s = DotDot /\ (st.depth < 0 \/ Len(st.out) # st.start) ->
         [st EXCEPT !.out = IF Len(@) # st.start THEN Front(@) ELSE @]
    [] s = DotDot /\ ~(st.depth < 0 \/ Len(st.out) # st.start) ->
         [st EXCEPT !.depth = @ - 1, !.start = @ + 1, !.out = Append(@, s)]
    [] OTHER -> [st EXCEPT !.out = Append(@, s)]

SanitizePart(st, s, keepdot) ==
  CASE s = Blank \/ (s = Dot /\ ~keepdot) -> st
    [] s = DotDot /\ (st.depth <= 0 \/ Len(st.out) # st.start) ->
         [st EXCEPT !.out = IF Len(@) # st.start THEN Front(@) ELSE @]
    [] s = DotDot /\ ~(st.depth <= 0 \/ Len(st.out) # st.start) ->
         [st EXCEPT !.depth = @ - 1, !.start = @ + 1, !.out = Append(@, s)]
    [] OTHER -> [st EXCEPT !.out = Append(@, s)]

\* Behind rootdir if the path starts with a slash.  (A slash at the end is
\* kept by the code, and left out here.)
sanitize_path(p, depth, keepdot) ==
  LET st == FoldLeft(LAMBDA a, s : SanitizePart(a, s, keepdot),
                     [out |-> <<>>, start |-> 0, depth |-> IF Anchored(p) THEN 0 ELSE depth], p)
  IN [root |-> Anchored(p), out |-> IF st.out = <<>> /\ ~Anchored(p) THEN <<Dot>> ELSE st.out]

(***************************************************************************)
(* unsafe_symlink                                                           *)
(***************************************************************************)
\* The directories above the link; a ".." in its name starts from nothing.
Margin(src) ==
  FoldLeft(LAMBDA n, i : IF src[i] = Dot THEN n ELSE IF src[i] = DotDot THEN 0
                         ELSE IF src[i] = Blank /\ i > 1 THEN n
                         ELSE IF i = Len(src) THEN n ELSE n + 1,
           0, [i \in 1 .. Len(src) |-> i])

unsafe_symlink(dest, src) ==
  LET step(st, s) == IF st.out THEN st
                     ELSE IF s = DotDot THEN [n |-> st.n - 1, out |-> st.n = 0]
                     ELSE IF s \in {Dot, Blank} THEN st ELSE [st EXCEPT !.n = @ + 1]
      st == FoldLeft(step, [n |-> Margin(src), out |-> FALSE], Front(dest))
  IN \/ dest = <<Blank>> \/ Anchored(dest)
     \/ st.out \/ (IF Last(dest) = DotDot THEN st.n - 1 ELSE st.n) < 0

(***************************************************************************)
(* What a path means: the directory it leads to without symbolic links.     *)
(* "up" is how often it leaves the directory it starts in.                  *)
(***************************************************************************)
MeanStep(m, s) ==
  IF s \in {Dot, Blank} THEN m
  ELSE IF s # DotDot THEN [m EXCEPT !.down = Append(@, s)]
  ELSE IF m.down # <<>> THEN [m EXCEPT !.down = Front(@)]
  ELSE IF m.abs THEN m ELSE [m EXCEPT !.up = @ + 1]
Meaning(p) == FoldLeft(MeanStep, [abs |-> Anchored(p), up |-> 0, down |-> <<>>], p)

(***************************************************************************)
(* change_dir.  here.cur is curr_dir, here.cwd the directory of the         *)
(* process; the depth below the module counts for sanitize_path.            *)
(***************************************************************************)
\* chdir: every directory on the way must be there.
Reaches(p) ==
  \A i \in 1 .. Len(p) : Meaning(SubSeq(p, 1, i)).down \in Tree \union {<<>>}
count_dir_elements(dir, modlen) == Len(dir) - modlen
WithCurr(dir) == IF Anchored(dir) THEN dir ELSE (<<Blank>> \o here.cur) \o dir

change_dir(dir, set_path_only) ==
  LET path == WithCurr(dir)
      cur == SelectSeq(clean_fname(path, {"collapse", "droptrail"}), LAMBDA s : s # Blank)
      modlen == IF here.modlen > Len(cur) THEN Len(cur) ELSE here.modlen
  IN IF (dir = <<Dot>> /\ (~here.skipped \/ set_path_only)) \/ (~set_path_only /\ ~Reaches(path)) THEN here
     ELSE [here EXCEPT !.cur = cur, !.cwd = IF set_path_only THEN @ ELSE Meaning(path).down,
             !.skipped = set_path_only, !.modlen = modlen, !.depth = count_dir_elements(cur, modlen)]

(***************************************************************************)
(* make_path, from the deepest directory upwards, and down again.           *)
(***************************************************************************)
Existing(dirs, p) == IF p \in dirs \union {<<>>} THEN "dir" ELSE IF p \in Plainfiles THEN "file" ELSE "none"
\* mkdir, or in a dry run stat: what the call says of the path.
Tried(dirs, p) ==
  CASE Existing(dirs, p) = "dir" -> "exists"
    [] Existing(dirs, p) = "file" -> "notdir"
    [] \E i \in 1 .. Len(p) - 1 : Existing(dirs, SubSeq(p, 1, i)) = "file" -> "notdir"
    [] Existing(dirs, Front(p)) = "dir" -> "made"
    [] OTHER -> "noent"

make_path(names, dry_run) ==
  LET n == Len(names)
      tried(k) == Tried(Tree, SubSeq(names, 1, k))
      \* the deepest that is found, made, or in the way
      answers == {k \in 1 .. n : tried(k) # "noent" /\ (dry_run => tried(k) # "made")}
      k == IF answers = {} THEN 0 ELSE CHOOSE x \in answers : \A y \in answers : y <= x
      first == IF k > 0 /\ tried(k) = "made" THEN k ELSE k + 1
  IN IF k > 0 /\ tried(k) = "notdir" THEN [ret |-> -1, made |-> {}]
     ELSE [ret |-> n - first + 1, made |-> IF dry_run THEN {} ELSE {SubSeq(names, 1, i) : i \in first .. n}]

(***************************************************************************)
(* glob_expand.  ab is the path so far, fb the path that the filter of the  *)
(* daemon sees, without the "." parts.                                      *)
(***************************************************************************)
NoDots(p) == SelectSeq(p, LAMBDA s : s \notin {Dot, Blank})
Wildcards(s) == \E i \in 1 .. Len(s) : s[i] \in {"*", "?"} \union DOMAIN Class
NamesIn(dir) == {Last(q) : q \in {q \in Tree \union Plainfiles : Front(q) = dir}}
Hidden(p) == p \in Unseen

RECURSIVE glob_match(_, _)
call_glob_match(name, from_glob, arg, ab) ==
  LET path == Append(ab, name)
      what == Existing(Tree, NoDots(path))
  IN IF /\ from_glob \/ (arg # <<>> /\ name # Blank)
        /\ what = "none" \/ (arg # <<>> /\ what # "dir") \/ Hidden(NoDots(path)) THEN {}
     ELSE IF arg = <<>> THEN {path} ELSE glob_match(arg, path)
glob_match(arg, ab) ==
  LET s == Head(arg)
  IN IF s = Dot /\ Len(arg) > 1 THEN glob_match(Tail(arg), Append(ab, Dot))
     ELSE IF ~Wildcards(s) THEN call_glob_match(s, FALSE, Tail(arg), ab)
     ELSE UNION {call_glob_match(d, TRUE, Tail(arg), ab) :
                   d \in {d \in NamesIn(NoDots(ab)) : wildmatch(s, d)}}

\* The names that match, or the argument itself.
glob_expand(arg, sanitize_paths) ==
  LET p == IF sanitize_paths THEN sanitize_path(arg, 0, TRUE).out
           ELSE clean_fname(arg, {"keepdot", "keepslash", "collapse"})
      found == glob_match(p, <<>>)
  IN IF found = {} THEN {p} ELSE found

(***************************************************************************)
(* One call of a function, or a row of changes of the directory.            *)
(***************************************************************************)
Nowhere == [cur |-> ModuleDir, cwd |-> ModuleDir, skipped |-> FALSE, modlen |-> Len(ModuleDir), depth |-> 0, n |-> 0]
NoCall == [kind |-> "none"]
PathsIdle == pth = NoCall /\ here = [Nowhere EXCEPT !.n = MaxMoves]
PathsInit == pth = NoCall /\ here = Nowhere

Flags == {{}, {"collapse"}, {"collapse", "droptrail"}, {"refuse"}, {"keepslash"}}
PathCall ==
  /\ pth.kind = "none" /\ here.n = 0
  /\ \/ \E p \in RawPaths, f \in Flags : pth' = [kind |-> "clean", p |-> p, out |-> clean_fname(p, f), flags |-> f]
     \/ \E p \in RawPaths, q \in RawPaths : pth' = [kind |-> "link", p |-> p, src |-> q, out |-> unsafe_symlink(p, q)]
     \/ \E p \in Tree \union Plainfiles, q \in {<<>>} \union Tree \union Plainfiles :
          pth' = [kind |-> "make", p |-> p \o q, out |-> make_path(p \o q, FALSE), dry |-> make_path(p \o q, TRUE)]
     \/ \E g \in Globs, safe \in BOOLEAN : pth' = [kind |-> "glob", p |-> g, out |-> glob_expand(g, safe)]
  /\ UNCHANGED here

ChangeDir ==
  /\ pth.kind = "none" /\ here.n < MaxMoves
  /\ \E p \in RawPaths, only \in BOOLEAN :
       LET san == sanitize_path(p, here.depth, FALSE)
           dir == IF san.root THEN (<<Blank>> \o ModuleDir) \o san.out ELSE san.out
       IN /\ p # <<Blank>> /\ here' = [change_dir(dir, only) EXCEPT !.n = here.n + 1]
  /\ UNCHANGED pth

PathsNext == PathCall \/ ChangeDir

(***************************************************************************)
(* Properties                                                               *)
(***************************************************************************)
\* clean_fname does not change what a path means, whatever it has of ".",
\* ".." and doubled slashes, and leaves nothing to clean.
CleanKeepsMeaning ==
  pth.kind = "clean" /\ pth.out # <<>> =>
    /\ Meaning(pth.out) = Meaning(pth.p)
    /\ clean_fname(pth.out, pth.flags) = pth.out
    /\ "refuse" \in pth.flags => \A i \in 1 .. Len(pth.p) : pth.p[i] # DotDot

\* However a client changes directories, with paths that are made safe by
\* sanitize_path for the depth that change_dir noted, and also when a change
\* was only noted, it never leaves the module.
SanitizedStaysInside ==
  /\ Len(ModuleDir) <= Len(here.cur) /\ SubSeq(here.cur, 1, Len(ModuleDir)) = ModuleDir
  /\ here.depth = Len(here.cur) - Len(ModuleDir)

\* curr_dir is the directory of the process, except while a change is only
\* noted: the names that are made from it are those of the files worked on.
CurrDirTrue == ~here.skipped => here.cwd = here.cur

\* A symbolic link is unsafe exactly if it is empty or absolute, or a walk
\* along it from the directory of the link leaves the transfer at some point.
Strays(p, level) == \E i \in 1 .. Len(p) : Meaning(SubSeq(p, 1, i)).up > level
UnsafeIsOutside ==
  pth.kind = "link" /\ ~Anchored(pth.src) /\ (\A i \in 1 .. Len(pth.src) : pth.src[i] # DotDot) =>
    (pth.out = (\/ pth.p = <<Blank>> \/ Anchored(pth.p)
                \/ Strays(pth.p, Len(NoDots(Front(pth.src))))))

\* make_path says how many directories it made, makes those that were
\* missing and no other, and a dry run says the same as a real one.
MakePathTrue ==
  pth.kind = "make" =>
    LET missing == {SubSeq(pth.p, 1, i) : i \in 1 .. Len(pth.p)} \ Tree
    IN /\ pth.dry.ret = pth.out.ret
       /\ IF missing \intersect Plainfiles # {} THEN pth.out.ret < 0 /\ pth.out.made = {}
          ELSE pth.out.made = missing /\ pth.out.ret = Cardinality(missing)

\* A path with a wildcard becomes exactly the files that match it part by
\* part, are there, and are not hidden, by the daemon's filter, below what a
\* wildcard stands for.
GlobExact ==
  pth.kind = "glob" =>
    LET p == NoDots(pth.p)
        fits(q) == Len(q) = Len(p) /\ \A i \in 1 .. Len(p) : wildmatch(p[i], q[i])
        found == {q \in Tree \union Plainfiles : fits(q) /\ \A i \in 1 .. Len(q) : ~Hidden(SubSeq(q, 1, i))}
    IN {NoDots(q) : q \in pth.out} = IF found = {} THEN {p} ELSE found

\* Cleaning keeps the meaning of a path, sanitizing keeps it inside the
\* module, and the current directory, unsafe links, missing directories and
\* wildcards are what the file system says.
PathsHold ==
  /\ CleanKeepsMeaning /\ SanitizedStaysInside /\ CurrDirTrue
  /\ UnsafeIsOutside /\ MakePathTrue /\ GlobExact
=============================================================================
