----------------------------- MODULE FilterRun -----------------------------
(***************************************************************************)
(* A transfer's filter rules at work: the client parses its rules and      *)
(* exchanges them with the server (send_filter_list, recv_filter_list);    *)
(* then one side walks its tree, entering and leaving directories, and the *)
(* receiver deletes subtrees on the way (delete.c).                        *)
(***************************************************************************)
EXTENDS Filter

CONSTANTS
  Setups,   \* [rules, files, cvs, client_sends, delete, delete_excluded, proto, max_delete]
  Dirs,     \* the directories of the tree below CurrDir, relative to it
  Leaves,   \* its other files
  Mounts    \* directories that are mount points

VARIABLES
  setup,    \* the setup of this transfer
  phase,    \* "args", "walk", "error"
  side,     \* the side that walks: TRUE for the sender
  w,        \* its rules: [st, filt]
  cwd,      \* the directory it is in, relative to CurrDir
  fs,       \* the files that exist on the receiver
  stats     \* [deleted, skipped]: stats.deleted_files, skipped_deletes > 0

vars == <<setup, phase, side, w, cwd, fs, stats>>

NoRules == [pat |-> <<>>, fl |-> {}, loc |-> <<>>, inh |-> <<>>]
NewProcess == [m |-> [i \in {-1, 0} |-> NoRules], parents |-> <<>>, dir |-> CurrDir, scan |-> FALSE,
               bad |-> FALSE, held |-> {}]
Opt(s, sender) == [sender |-> sender, delete_excluded |-> s.delete_excluded, proto |-> s.proto, files |-> s.files]
----------------------------------------------------------------------------
(* The exchange.                                                           *)

\* The prefix of a rule for the other side, or "none" if its protocol is too old.
get_rule_prefix(r, s, sender) ==
  LET k == IF "perdir" \in r.fl THEN ":" ELSE IF "inc" \in r.fl THEN "+" ELSE "-"
      mods == UNION {IF "abs" \in r.fl THEN {"/"} ELSE {}, IF "neg" \in r.fl THEN {"!"} ELSE {},
                     IF "cvs" \in r.fl THEN {"C"}
                     ELSE UNION {IF "noinh" \in r.fl THEN {"n"} ELSE {}, IF "split" \in r.fl THEN {"w"} ELSE {},
                                 IF "noprefix" \notin r.fl THEN {} ELSE IF "inc" \in r.fl THEN {"+"} ELSE {"-"}},
                     IF "snd" \in r.fl /\ s.proto >= 29 THEN {"s"} ELSE {},
                     IF "rcv" \in r.fl /\ (s.proto >= 29 \/ (s.delete_excluded /\ sender)) THEN {"r"} ELSE {},
                     IF "perish" \in r.fl /\ s.proto >= 30 THEN {"p"} ELSE {}}
  IN [ok |-> /\ s.proto >= 29 \/ (k # ":" /\ mods = {})
             /\ "perish" \notin r.fl \/ s.proto >= 30 \/ ~sender,
      line |-> [k |-> k, mods |-> mods, pat |-> r.pat \o (IF "dir" \in r.fl THEN <<"/">> ELSE <<>>)]]

\* 1: not sent, -1: not kept, 0: both
Elide(r, s, sender) ==
  LET snd == IF "snd" \in r.fl THEN IF sender THEN 1 ELSE -1 ELSE 0
  IN IF "rcv" \in r.fl THEN IF snd # 0 THEN 0 ELSE IF sender THEN -1 ELSE 1
     ELSE IF s.delete_excluded /\ snd = 0 /\ ("perdir" \notin r.fl \/ "noprefix" \in r.fl) THEN IF sender THEN 1 ELSE -1
     ELSE snd

KeptRules(s, rules, sender) == SelectSeq(rules, LAMBDA r : Elide(r, s, sender) >= 0)

\* The rules the other side gets; -C becomes the rules it stands for.
RECURSIVE SentRules(_, _, _, _)
SentRules(st, s, rules, sender) ==
  IF rules = <<>> THEN [ok |-> TRUE, lines |-> <<>>]
  ELSE LET r == rules[1]
           rest == SentRules(st, s, Tail(rules), sender)
           p == get_rule_prefix(r, s, sender)
           plainC == "cvs" \in r.fl /\ "merge" \notin r.fl
           cvs == SentRules(st, s, Head0(st, -1), sender)
       IN IF Elide(r, s, sender) > 0 THEN rest
          ELSE IF plainC /\ (sender \/ s.proto < 29) THEN [ok |-> cvs.ok /\ rest.ok, lines |-> cvs.lines \o rest.lines]
          ELSE [ok |-> p.ok /\ rest.ok, lines |-> <<p.line>> \o rest.lines]

Line(k, mods, pat) == [k |-> k, mods |-> mods, pat |-> pat]
Parse(st, lines, opt) == FoldLeft(LAMBDA s, l : parse_filter_str(s, 0, l, {}, FALSE, opt), st, lines)
CvsLines == <<Line(":", {"C"}, <<>>), Line("-", {"C"}, <<>>)>>

receiver_wants_list(s) == s.delete /\ (~s.delete_excluded \/ s.proto >= 29)

\* [mine, lines, ok]: what the client keeps and what it sends.
CvsIf(s, st, lines) == IF s.cvs THEN Parse(st, lines, Opt(s, s.client_sends)) ELSE st

SendAndKeep(st, s, sender) ==
  LET out == SentRules(st, s, Head0(st, 0), sender)
      late == (IF ~sender \/ s.proto < 29 THEN <<CvsLines[1]>> ELSE <<>>) \o (IF ~sender THEN <<CvsLines[2]>> ELSE <<>>)
  IN [mine |-> CvsIf(s, [st EXCEPT !.m[0].loc = KeptRules(s, @, sender)], late),
      lines |-> IF sender /\ ~receiver_wants_list(s) THEN <<>> ELSE out.lines, ok |-> out.ok]

send_filter_list(st, s) ==
  LET early == IF ~s.client_sends THEN <<>> ELSE IF s.proto >= 29 THEN CvsLines ELSE Tail(CvsLines)
  IN SendAndKeep(CvsIf(s, st, early), s, s.client_sends)

recv_filter_list(lines, s) ==
  LET sender == ~s.client_sends
      opt == Opt(s, sender)
      st == Parse(NewProcess, IF sender \/ receiver_wants_list(s) THEN lines ELSE <<>>, opt)
      own == (IF sender \/ s.proto < 29 THEN <<CvsLines[1]>> ELSE <<>>) \o (IF sender THEN <<CvsLines[2]>> ELSE <<>>)
  IN IF s.cvs THEN Parse(st, own, opt) ELSE st
----------------------------------------------------------------------------
(* Deleting.  A deletion in progress is d = [st, fs, deleted, skipped].    *)

Entries(files, dir) == {p \in files : Len(p) = Len(dir) + 1 /\ Prefix(dir, p)}

\* readdir and the filters, as in get_dirlist
Listed(d, dir) == {p \in Entries(d.fs, dir) : ~name_is_excluded(d.st, p, p \in Dirs, TRUE)}

RECURSIVE DeleteAll(_, _, _), delete_dir_contents(_, _, _, _)

\* An item that is not, or no longer, a directory with contents.
Unlink(d, p, s, make_room) ==
  IF ~make_room /\ s.max_delete >= 0 /\ d.deleted >= s.max_delete
  THEN [d |-> [d EXCEPT !.skipped = TRUE], ret |-> "limit"]
  ELSE IF Entries(d.fs, p) # {} THEN [d |-> d, ret |-> "not_empty"]
  ELSE [d |-> [d EXCEPT !.fs = @ \ {p}, !.deleted = IF make_room THEN @ ELSE @ + 1], ret |-> "success"]

\* An item of a directory after its contents, inner says how these went; a
\* mount point stays.
UnlinkAfter(inner, p, s) ==
  LET it == Unlink(inner.d, p, s, FALSE)
  IN [it EXCEPT !.ret = IF inner.ret = "success" /\ @ = "success" THEN @ ELSE "not_empty"]
DeleteOne(d, p, s) ==
  IF p \in Mounts THEN [d |-> d, ret |-> "not_empty"]
  ELSE UnlinkAfter(IF p \in Dirs THEN delete_dir_contents(d, p, s, TRUE) ELSE [d |-> d, ret |-> "success"], p, s)

\* The files of one directory, each with its contents first.
DeleteRest(one, todo, s) ==
  LET rest == DeleteAll(one.d, todo, s)
  IN IF one.ret = "success" THEN rest ELSE [rest EXCEPT !.ret = "not_empty"]
DeleteAll(d, todo, s) ==
  IF todo = {} THEN [d |-> d, ret |-> "success"]
  ELSE LET p == CHOOSE x \in todo : TRUE IN DeleteRest(DeleteOne(d, p, s), todo \ {p}, s)

\* What the directory lists is deleted; what it hides stays, and the
\* directory with it.
DeleteListed(d, dir, s, recurse, list) ==
  LET all == IF list # {} /\ recurse THEN DeleteAll(d, list, s)
             ELSE [d |-> d, ret |-> IF list = {} THEN "success" ELSE "not_empty"]
  IN IF Entries(d.fs, dir) \ list # {} THEN [all EXCEPT !.ret = "not_empty"] ELSE all

\* a mistake: the merge files of the directory are not read
DeleteUnpushed(d, dir, s, recurse) == DeleteListed(d, dir, s, recurse, Listed(d, dir))

DeletePushed(d, push, dir, s, recurse) ==
  LET d1 == [d EXCEPT !.st = push.st]
  IN [DeleteListed(d1, dir, s, recurse, Listed(d1, dir)) EXCEPT !.d.st = pop_local_filters(@, push.saved)]

delete_dir_contents(d, dir, s, recurse) ==
  DeletePushed(d, push_local_filters(d.st, CurrDir \o dir, Opt(s, FALSE)), dir, s, recurse)

UnlinkEmptied(c, p, s, make_room) == IF c.ret = "not_empty" THEN c ELSE Unlink(c.d, p, s, make_room)

delete_item(d, p, s, recurse, make_room) ==
  IF p \notin Dirs THEN Unlink(d, p, s, make_room)
  ELSE UnlinkEmptied(delete_dir_contents(d, p, s, recurse), p, s, make_room)
----------------------------------------------------------------------------
Init == /\ setup \in Setups /\ side \in BOOLEAN
        /\ phase = "args" /\ cwd = <<>>
        /\ w = [st |-> NewProcess, filt |-> <<>>]
        /\ fs = Dirs \cup Leaves
        /\ stats = [deleted |-> 0, skipped |-> FALSE]

\* The client reads its options, then both sides have their rules.
ExchangeRules ==
  /\ phase = "args"
  /\ \E sent \in {send_filter_list(Parse(NewProcess, setup.rules, Opt(setup, setup.client_sends)), setup)} :
     \E st \in {IF side = setup.client_sends THEN sent.mine ELSE recv_filter_list(sent.lines, setup)} :
       IF ~sent.ok \/ sent.mine.bad \/ st.bad THEN phase' = "error" /\ UNCHANGED w
       ELSE /\ phase' = "walk"
            /\ w' = change_local_filter_dir([st |-> st, filt |-> <<>>], CurrDir, 0, Opt(setup, side))
  /\ UNCHANGED <<setup, side, cwd, fs, stats>>

\* The walk goes on with a directory whose parent it is in or below.
EnterDir(d) ==
  /\ phase = "walk" /\ d \in fs /\ d # cwd /\ Prefix(Front(d), cwd)
  /\ w' = change_local_filter_dir(w, CurrDir \o d, Len(d), Opt(setup, side))
  /\ cwd' = d
  /\ phase' = IF w'.st.bad THEN "error" ELSE phase
  /\ UNCHANGED <<setup, side, fs, stats>>

\* The receiver deletes something in the current directory that the rules
\* do not protect: it is not on the sender, or in the way of something else.
DeleteItem(p, make_room) ==
  /\ phase = "walk" /\ ~side /\ (setup.delete \/ make_room)
  /\ p \in Entries(fs, cwd) /\ p \notin Mounts
  /\ make_room \/ ~name_is_excluded(w.st, p, p \in Dirs, FALSE)
  /\ \E r \in {delete_item([st |-> w.st, fs |-> fs, deleted |-> stats.deleted, skipped |-> stats.skipped],
                           p, setup, setup.delete, make_room)} :
       /\ w' = [w EXCEPT !.st = r.d.st]
       /\ fs' = r.d.fs
       /\ stats' = [deleted |-> r.d.deleted, skipped |-> r.d.skipped]
       /\ phase' = IF r.d.st.bad THEN "error" ELSE phase
  /\ UNCHANGED <<setup, side, cwd>>

Next == \/ ExchangeRules
        \/ \E d \in Dirs : EnterDir(d)
        \/ \E p \in Dirs \cup Leaves, make_room \in BOOLEAN : DeleteItem(p, make_room)

Spec == Init /\ [][Next]_vars
----------------------------------------------------------------------------
(* Properties.                                                             *)

TypeOK ==
  /\ phase \in {"args", "walk", "error"}
  /\ cwd \in Dirs \cup {<<>>} /\ fs \subseteq Dirs \cup Leaves
  /\ {-1, 0} \subseteq DOMAIN w.st.m /\ ~w.st.scan
  /\ \A i \in 1..Len(w.st.parents) : w.st.parents[i] \in {0} \cup DOMAIN w.st.m
  /\ phase = "walk" => Len(w.filt) = Len(cwd) + 1
  /\ setup.max_delete >= 0 => stats.deleted <= setup.max_delete

RECURSIVE Flat(_, _)
Flat(st, rules) ==
  FlattenSeq([i \in 1..Len(rules) |->
    IF "perdir" \in rules[i].fl THEN Flat(st, Head0(st, rules[i].id))
    ELSE IF "cvs" \in rules[i].fl THEN Flat(st, Head0(st, -1))
    ELSE <<[pat |-> rules[i].pat, fl |-> rules[i].fl \ Sides]>>])

AllRules(st) == Flat(st, Head0(st, 0))

\* A process that was given all of the client's rules, keeps those for its
\* side, and goes straight to a directory.
Alone(sender, dir) ==
  LET opt == Opt(setup, sender)
      sides(r) == IF setup.delete_excluded /\ r.fl \cap {"snd", "rcv", "merge"} = {} THEN {"snd"} ELSE r.fl \cap Sides
  IN FoldLeft(LAMBDA v, n : change_local_filter_dir(v, CurrDir \o SubSeq(dir, 1, n), n, opt),
              [st |-> [Parse(NewProcess, setup.rules \o (IF setup.cvs THEN CvsLines ELSE <<>>), opt)
                         EXCEPT !.m[0].loc = SelectSeq(@, LAMBDA r : sides(r) # OtherSide(sender))],
               filt |-> <<>>],
              [i \in 1..(Len(dir) + 1) |-> i - 1]).st

\* Both sides decide by the rules that the client's rules give them, however
\* these were exchanged and whatever was walked or deleted before.
RulesOfDirectory ==
  phase = "walk" /\ (side \/ receiver_wants_list(setup))
    => AllRules(w.st) = AllRules(Alone(side, cwd))

\* What the pattern of a rule means for a path: an anchored pattern is for
\* the whole path, any other for its last elements; "***" at its end is also
\* for the directory itself.
RuleMeans(path, isdir, r) ==
  LET t == Text(IF "abs" \in r.fl THEN CurrDir \o path ELSE path)
      ends == {From(t, i) : i \in {j \in 1..Len(t) : j = 1 \/ t[j - 1] = "/"}}
      whole == Prefix(<<"/">>, r.pat)
      texts == IF whole THEN {t} ELSE ends \cup (IF Wild2Prefix(r.pat) THEN {<<"/">> \o e : e \in ends} ELSE {})
      also == IF isdir /\ Wild3Suffix(r.pat) THEN {e \o <<"/">> : e \in texts} ELSE {}
  IN (\E e \in texts \cup also : Means(IF whole THEN Tail(r.pat) ELSE r.pat, e)) # ("neg" \in r.fl)

\* A rule matches the names its pattern means, and no other.
RulesMatch ==
  phase = "walk" /\ cwd = <<>> =>
    \A i \in 1..Len(Head0(w.st, 0)) : LET r == Head0(w.st, 0)[i] IN
      r.fl \cap {"merge", "cvs"} = {} =>
        \A p \in Dirs \cup Leaves :
          (p \in Dirs \/ "dir" \notin r.fl) => rule_matches(p, p \in Dirs, r) = RuleMeans(p, p \in Dirs, r)

SavedRules == UNION {{w.filt[i].lists[j].loc \o w.filt[i].lists[j].inh : j \in DOMAIN w.filt[i].lists} : i \in DOMAIN w.filt}
Reachable == UNION {Referred(Head0(w.st, j)) : j \in DOMAIN w.st.m} \cup UNION {Referred(r) : r \in SavedRules}

\* No list in use or saved refers to a freed merge list, and every merge
\* list that a merge file defined belongs to a rule that is still in a list.
MergeListsSound ==
  phase = "walk" => /\ Reachable \subseteq DOMAIN w.st.m
                    /\ \A i \in (Len(w.filt[1].lists) + 1)..Len(w.st.parents) : w.st.parents[i] \in Reachable \cup {0}

Protected(q) == name_is_excluded(Alone(FALSE, Front(q)), q, q \in Dirs, TRUE)

\* Deleting a directory removes nothing below it that the rules of its own
\* directory protect, unless the rule is perishable.
ProtectedSurvives ==
  [][\A q \in fs \ fs' : Len(q) > Len(cwd) + 1 => q \notin Mounts /\ ~Protected(q)]_vars

\* After any walk over directories each side decides by the rules that the
\* options give it there, and never by a list that was freed.
RulesHold == TypeOK /\ RulesOfDirectory /\ RulesMatch /\ MergeListsSound
=============================================================================
