------------------------------- MODULE Filter -------------------------------
(***************************************************************************)
(* Filter rules (exclude.c): how they are parsed, which of them each side  *)
(* of a transfer gets, how the per-directory merge files of a tree come    *)
(* and go while it is walked, and what the rules say of a name.            *)
(*                                                                         *)
(* A line of a rule file is [k, mods, pat]: kind, modifiers and pattern.   *)
(* A rule is [fl, pat, id], id naming the list of a per-dir merge rule.    *)
(* The rule lists are st.m[id] = [pat, fl, loc, inh]: the local part, up   *)
(* to "tail", and the inherited part; list 0 is filter_list, list -1       *)
(* cvs_filter_list.  A freed list is no longer in DOMAIN st.m.  Names of   *)
(* files are single characters, absolute paths sequences of them.          *)
(***************************************************************************)
EXTENDS Wild

CONSTANT CurrDir        \* the directory the transfer starts in

Count(p, c) == Cardinality({i \in 1..Len(p) : p[i] = c})
Names(p) == SelectSeq(p, LAMBDA c : c # "/")
Text(path) == FoldLeft(LAMBDA t, c : IF t = <<>> THEN <<c>> ELSE t \o <<"/", c>>, <<>>, path)
Base(p) == IF p = <<>> THEN "" ELSE p[Len(p)]
Prefix(p, q) == Len(p) <= Len(q) /\ SubSeq(q, 1, Len(p)) = p
Sides == {"snd", "rcv"}
OtherSide(sender) == IF sender THEN {"rcv"} ELSE {"snd"}
----------------------------------------------------------------------------
(* What a rule says of a name.                                             *)

Wild1(p) == Contains(p, "*") \/ Contains(p, "?") \/ \E i \in 1..Len(p) : p[i] \in DOMAIN Class
Wild2(p) == \E i \in 1..(Len(p) - 1) : p[i] = "*" /\ p[i + 1] = "*"
Wild2Prefix(p) == Prefix(<<"*", "*">>, p)
Wild3Suffix(p) == Len(p) >= 3 /\ \A i \in (Len(p) - 2)..Len(p) : p[i] = "*"

\* path is relative to CurrDir.
\* How many elements at the end of a name the pattern is for: 0 all of them,
\* -1 any number.
Elements(p, anchored, slashes) ==
  IF ~anchored /\ slashes > 0 /\ ~Wild2(p) THEN slashes + 1
  ELSE IF ~anchored /\ Wild2(p) /\ ~Wild2Prefix(p) THEN -1 ELSE 0

\* pat is the pattern p without its leading slash; pieces that surround the
\* name (before, after) are there for patterns with wildcards in that place.
HitName(p, pat, name, anchored, before, after, full) ==
  LET text == before \o name \o after
      n == Elements(p, anchored, Count(p, "/"))
  IN IF Wild1(p) THEN wildmatch_array(pat, text, n)
     ELSE IF full \/ before # <<>> \/ after # <<>> THEN litmatch_array(pat, text, n)
     ELSE IF anchored THEN name = pat
     ELSE IsSuffix(pat, name) /\ (Len(pat) = Len(name) \/ name[Len(name) - Len(pat)] = "/")
SlashIf(b) == IF b THEN <<"/">> ELSE <<>>
HitWhole(path, p, anchored, last, full, suffix) ==
  HitName(p, IF anchored THEN Tail(p) ELSE p,
          IF last THEN <<Base(path)>> ELSE Text(IF full THEN CurrDir \o path ELSE path),
          anchored, SlashIf(~last /\ ~full /\ Wild2Prefix(p)), SlashIf(suffix), full)
Hits(path, isdir, r, last) ==
  HitWhole(path, r.pat, Prefix(<<"/">>, r.pat), last, ~last /\ "abs" \in r.fl /\ CurrDir # <<>>,
           isdir /\ Wild3Suffix(r.pat))

rule_matches(path, isdir, r) ==
  /\ path # <<>> /\ "xattr" \notin r.fl
  /\ IF ~isdir /\ "dir" \in r.fl THEN "neg" \in r.fl
     ELSE Hits(path, isdir, r, ~Contains(r.pat, "/") /\ ~Wild2(r.pat)) # ("neg" \in r.fl)

Head0(st, id) == st.m[id].loc \o st.m[id].inh

\* -1: excluded, 1: included, 0: no rule matches.
RECURSIVE check_filter(_, _, _, _, _)
check_filter(st, rules, path, isdir, ignore_perishable) ==
  IF rules = <<>> THEN 0
  ELSE LET r == rules[1]
           next == check_filter(st, Tail(rules), path, isdir, ignore_perishable)
           sub(id) == LET rc == check_filter(st, Head0(st, id), path, isdir, ignore_perishable)
                      IN IF rc # 0 THEN rc ELSE next
       IN IF ignore_perishable /\ "perish" \in r.fl THEN next
          ELSE IF "perdir" \in r.fl THEN sub(r.id)
          ELSE IF "cvs" \in r.fl THEN sub(-1)
          ELSE IF rule_matches(path, isdir, r) THEN IF "inc" \in r.fl THEN 1 ELSE -1
          ELSE next

name_is_excluded(st, path, isdir, ip) == check_filter(st, Head0(st, 0), path, isdir, ip) < 0
----------------------------------------------------------------------------
(* Parsing a rule.                                                         *)

KindFlags ==
  [k \in {"+", "-", "S", "H", "R", "P", ":", ".", "!"} |->
    CASE k = "+" -> {"inc"} [] k = "-" -> {} [] k = "S" -> {"inc", "snd"} [] k = "H" -> {"snd"}
      [] k = "R" -> {"inc", "rcv"} [] k = "P" -> {"rcv"} [] k = ":" -> {"perdir", "setup", "merge"}
      [] k = "." -> {"merge"} [] OTHER -> {"clear"}]

ModFlags ==
  [m \in {"-", "+", "/", "!", "C", "e", "n", "p", "r", "s", "w", "x"} |->
    CASE m = "-" -> {"noprefix"} [] m = "+" -> {"noprefix", "inc"} [] m = "/" -> {"abs"} [] m = "!" -> {"neg"}
      [] m = "C" -> {"noprefix", "split", "noinh", "cvs"} [] m = "e" -> {"eself"} [] m = "n" -> {"noinh"}
      [] m = "p" -> {"perish"} [] m = "r" -> {"rcv"} [] m = "s" -> {"snd"} [] m = "w" -> {"split"} [] OTHER -> {"xattr"}]

\* modifiers that the kind of the rule does not allow
Invalid(l) ==
  \/ l.k \notin {":", "."} /\ l.mods \cap {"-", "+", "e", "n", "w"} # {}
  \/ l.k \in {":", "."} /\ "!" \in l.mods
  \/ Cardinality(l.mods \cap {"-", "+", "C"}) > 1
  \/ l.k \in {"S", "H", "R", "P"} /\ l.mods \cap {"C", "r", "s"} # {}

FromContainer == {"abs", "inc", "dir", "neg", "perish"}

\* The sides a merge file is for, --delete-excluded, and a missing or an
\* unexpected pattern.
RuleEnd(l, own, tmpl, delete_excluded) ==
  LET fl == (tmpl \cap FromContainer) \cup own \cup (tmpl \cap Sides)
  IN [ok |-> /\ tmpl \cap Sides = {} \/ own \cap Sides = {}
             /\ IF "clear" \in own THEN l.pat = <<>> ELSE l.pat # <<>> \/ "cvs" \in own,
      fl |-> IF delete_excluded /\ fl \cap {"snd", "rcv", "merge"} = {} THEN fl \cup {"snd"} ELSE fl]

\* The flags of the rule that a line defines, in a file with these flags.
parse_rule_tok(l, tmpl, delete_excluded) ==
  LET own == IF "noprefix" \in tmpl THEN IF l.k = "!" /\ "cvs" \in tmpl THEN {"clear"} ELSE {}
             ELSE KindFlags[l.k] \cup UNION {ModFlags[m] : m \in l.mods}
      end == RuleEnd(l, own, tmpl, delete_excluded)
  IN [end EXCEPT !.ok = @ /\ ("noprefix" \in tmpl \/ ~Invalid(l))]
----------------------------------------------------------------------------
(* Lists of rules.  st.dir is dirbuf, st.scan parent_dirscan, st.bad that  *)
(* the process has ended with an error, st.held the lists that only saved  *)
(* states refer to; opt is what the process was told.                      *)

Referred(rules) == {rules[i].id : i \in 1..Len(rules)} \ {0}
FreshId(st) ==
  CHOOSE i \in 1..20 : /\ i \notin DOMAIN st.m \cup st.held
                       /\ \A j \in DOMAIN st.m : i \notin Referred(Head0(st, j))
                       /\ \A j \in 1..(i - 1) : j \in DOMAIN st.m \cup st.held \cup UNION {Referred(Head0(st, k)) : k \in DOMAIN st.m}

RECURSIVE Trimmed(_)
Trimmed(parents) == IF parents # <<>> /\ Last(parents) = 0 THEN Trimmed(Front(parents)) ELSE parents

\* The rules of the list itself are not freed.
teardown_mergelist(st, id) ==
  [st EXCEPT !.m = [j \in DOMAIN @ \ {id} |-> @[j]],
             !.parents = Trimmed([i \in DOMAIN @ |-> IF @[i] = id THEN 0 ELSE @[i]])]

free_filters(st, rules) ==
  FoldLeft(LAMBDA s, r : IF r.id \in DOMAIN s.m \ {0} THEN teardown_mergelist(s, r.id) ELSE s, st, rules)

pop_filter_list(st, id) == [free_filters(st, st.m[id].loc) EXCEPT !.m[id].loc = <<>>]

Clear(st, id) == [pop_filter_list(st, id) EXCEPT !.m[id].inh = <<>>]

\* a merge file's name, absolute if it has a slash or parents are scanned
parse_merge_name(st, p) ==
  IF Prefix(<<"/">>, p) THEN p
  ELSE IF ~st.scan /\ ~Contains(p, "/") THEN p
  ELSE <<"/">> \o Text(st.dir \o Names(p))

add_rule(st, id, pat0, fl0, anchor2abs, sender) ==
  LET isdir == Len(pat0) > 1 /\ Last(pat0) = "/"
      pat == IF isdir THEN Front(pat0) ELSE pat0
      abs == fl0 \cap {"abs", "merge"} = {} /\ anchor2abs /\ Prefix(<<"/">>, pat)
      full == IF abs /\ st.dir # <<>> THEN <<"/">> \o Text(st.dir) \o pat ELSE pat
      fl == fl0 \cup (IF isdir THEN {"dir"} ELSE {}) \cup (IF abs THEN {"abs"} ELSE {})
      new == FreshId(st)
      known == \E i \in 1..Len(st.parents) : st.parents[i] # 0 /\ Base(st.m[st.parents[i]].pat) = Base(pat)
      into(s, r) == [s EXCEPT !.m[id].loc = Append(@, r)]
  IN IF anchor2abs /\ fl0 \cap Sides = OtherSide(sender) THEN st
     ELSE IF "perdir" \notin fl THEN into(st, [fl |-> fl, pat |-> full, id |-> 0])
     ELSE IF known THEN st
     ELSE into([st EXCEPT !.m = [j \in DOMAIN @ \cup {new} |->
                                  IF j = new THEN [pat |-> pat, fl |-> fl, loc |-> <<>>, inh |-> <<>>] ELSE @[j]],
                          !.parents = Append(@, new)],
               [fl |-> fl \ {"setup"}, pat |-> pat, id |-> new])
----------------------------------------------------------------------------
(* Reading rules.  files[dir][name] are the lines of a file.               *)

DefaultCvs == <<[k |-> "", mods |-> {}, pat |-> <<"o">>]>>

RECURSIVE parse_filter_str(_, _, _, _, _, _), parse_filter_file(_, _, _, _, _, _)

get_cvs_excludes(st, fl, opt) ==
  IF st.m[-1].loc # <<>> THEN st
  ELSE FoldLeft(LAMBDA s, l : parse_filter_str(s, -1, l, fl \cup (IF opt.proto >= 30 THEN {"perish"} ELSE {}), FALSE, opt),
                st, DefaultCvs)

WithCvs(st, fl, opt) == IF "cvs" \in fl /\ "merge" \notin fl THEN get_cvs_excludes(st, fl, opt) ELSE st
AddParsed(st, id, pat, fl, anchor2abs, opt) ==
  IF "perdir" \in fl /\ st.scan
  THEN add_rule(st, id, parse_merge_name(st, pat), fl, FALSE, opt.sender)
  ELSE IF "merge" \in fl /\ "perdir" \notin fl
  THEN parse_filter_file(st, id, Names(parse_merge_name(st, pat)), fl, FALSE, opt)
  ELSE WithCvs(add_rule(st, id, pat, fl, anchor2abs, opt.sender), fl, opt)

\* "e": the merge file itself is excluded first
ExcludeSelf(st, id, pat, fl, opt) ==
  IF {"merge", "eself"} \subseteq fl THEN add_rule(st, id, <<Base(pat)>>, {}, FALSE, opt.sender) ELSE st
ParseTok(st, id, t, pat, anchor2abs, opt) ==
  IF st.bad THEN st
  ELSE IF ~t.ok THEN [st EXCEPT !.bad = TRUE]
  ELSE IF "clear" \in t.fl THEN Clear(st, id)
  ELSE AddParsed(ExcludeSelf(st, id, pat, t.fl, opt), id, pat, t.fl \ {"eself"}, anchor2abs, opt)

\* One line, for the list id, in a file with flags tmpl.
ParseWith(st, id, l, t, anchor2abs, opt) ==
  ParseTok(st, id, t, IF "merge" \in t.fl /\ l.pat = <<>> THEN <<"C">> ELSE l.pat, anchor2abs, opt)
parse_filter_str(st, id, l, tmpl, anchor2abs, opt) ==
  ParseWith(st, id, l, parse_rule_tok(l, tmpl, opt.delete_excluded), anchor2abs, opt)

\* A file that a plain merge rule names must exist.
parse_filter_file(st, id, file, tmpl, anchor2abs, opt) ==
  IF file \in DOMAIN opt.files
  THEN FoldLeft(LAMBDA s, l : parse_filter_str(s, id, l, tmpl, anchor2abs, opt), st, opt.files[file])
  ELSE [st EXCEPT !.bad = @ \/ ~anchor2abs]
----------------------------------------------------------------------------
(* Walking a tree.                                                         *)

set_filter_dir(st, dir) == [st EXCEPT !.dir = dir]

\* The local rules become inherited ones.
Inherit(st, id, keep) == [st EXCEPT !.m[id].inh = IF keep THEN st.m[id].loc \o @ ELSE <<>>, !.m[id].loc = <<>>]

\* A merge file named with the path of a parent of the transfer is read in
\* every directory from there to the parent of the current one.
InheritOrFree(st, id, keep) ==
  IF keep THEN Inherit(st, id, TRUE) ELSE Inherit(free_filters(st, Head0(st, id)), id, FALSE)
ScanParents(st, id, top, base, opt) ==
  LET here == st.dir
      keep == "noinh" \notin st.m[id].fl
      scan == IF Prefix(top, here) THEN [i \in 1..(Len(here) - Len(top)) |-> Len(top) + i - 1] ELSE <<>>
      read(s, n) == InheritOrFree(parse_filter_file([s EXCEPT !.dir = SubSeq(here, 1, n)], id, SubSeq(here, 1, n) \o base,
                                                    s.m[id].fl, TRUE, opt), id, keep)
  IN set_filter_dir([FoldLeft(read, [st EXCEPT !.scan = TRUE, !.m[id].pat = base], scan) EXCEPT !.scan = FALSE], here)
SetupNamed(st, id, name, opt) ==
  IF ~Prefix(<<"/">>, name) THEN st ELSE ScanParents(st, id, Front(Names(name)), <<Base(name)>>, opt)

setup_merge_file(st, id, opt) == SetupNamed(st, id, parse_merge_name(st, st.m[id].pat), opt)

\* one active merge file: its list is inherited, then its file here is read
SetupIfNew(st, id, opt) ==
  IF "setup" \in st.m[id].fl THEN setup_merge_file([st EXCEPT !.m[id].fl = @ \ {"setup"}], id, opt) ELSE st
ReadHere(st, id, opt) == parse_filter_file(st, id, st.dir \o st.m[id].pat, st.m[id].fl, TRUE, opt)
PushOne(st, id, opt) == ReadHere(SetupIfNew(Inherit(st, id, "noinh" \notin st.m[id].fl), id, opt), id, opt)

RECURSIVE PushFrom(_, _, _)
PushFrom(st, i, opt) ==
  IF i > Len(st.parents) THEN st
  ELSE PushFrom(IF st.parents[i] = 0 THEN st ELSE PushOne(st, st.parents[i], opt), i + 1, opt)

\* The saved state: the lists of the merge files active so far.
Saved(st) == [i \in 1..Len(st.parents) |->
               IF st.parents[i] = 0 THEN [loc |-> <<>>, inh |-> <<>>]
               ELSE [loc |-> st.m[st.parents[i]].loc, inh |-> st.m[st.parents[i]].inh]]

ReferredFrom(saved) == UNION {Referred(saved[i].loc \o saved[i].inh) : i \in DOMAIN saved}

push_local_filters(st, dir, opt) ==
  [st |-> PushFrom([set_filter_dir(st, dir) EXCEPT !.held = @ \cup ReferredFrom(Saved(st))], 1, opt),
   saved |-> [lists |-> Saved(st), held |-> st.held]]

RECURSIVE PopFrom(_, _)
PopFrom(st, i) ==
  IF i = 0 THEN st
  ELSE IF i > Len(st.parents) \/ st.parents[i] = 0 THEN PopFrom(st, i - 1)
  ELSE PopFrom(pop_filter_list(st, st.parents[i]), i - 1)

\* a mistake: the saved lists are not put back
PopWithoutRestore(st, saved) == [PopFrom(st, Len(st.parents)) EXCEPT !.held = saved.held]

pop_local_filters(st, saved) ==
  FoldLeft(LAMBDA s, i : IF i > Len(s.parents) \/ s.parents[i] = 0 THEN s
                         ELSE [s EXCEPT !.m[s.parents[i]].loc = saved.lists[i].loc, !.m[s.parents[i]].inh = saved.lists[i].inh],
           [PopFrom(st, Len(st.parents)) EXCEPT !.held = saved.held], [i \in DOMAIN saved.lists |-> i])

\* w = [st, filt]: filt is filt_array, one saved state for each depth.
Pop1(w) == [st |-> IF Last(w.filt).lists = <<>> THEN w.st ELSE pop_local_filters(w.st, Last(w.filt)), filt |-> Front(w.filt)]
RECURSIVE PopTo(_, _)
PopTo(w, depth) == IF Len(w.filt) > depth THEN PopTo(Pop1(w), depth) ELSE w

Stacked(filt, push) == [st |-> push.st, filt |-> Append(filt, push.saved)]
PushedOn(w, dir, opt) == Stacked(w.filt, push_local_filters(w.st, dir, opt))

change_local_filter_dir(w, dir, depth, opt) ==
  PushedOn(PopTo(w, depth), dir, opt)
=============================================================================
