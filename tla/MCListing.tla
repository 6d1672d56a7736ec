----------------------------- MODULE MCListing -----------------------------
(* Instances of Listing for TLC. *)
EXTENDS Listing

MCCurrDir == <<"p">>
MCDirs == {<<"d">>, <<"d", "e">>, <<"f">>}
MCLeaves == {<<"a">>, <<"d", "a">>, <<"d", "b">>, <<"d", "e", "a">>, <<"d", "e", "o">>, <<"f", "a">>}
MCMounts == {<<"f">>}
MCClass == [c \in {"[ab]"} |-> [neg |-> FALSE, chars |-> {"a", "b"}]]

L(k, mods, pat) == Line(k, mods, pat)
A == <<"A">>
B == <<"B">>
NoFiles == [f \in {} |-> <<>>]
P(dir, name) == MCCurrDir \o dir \o name

\* the rules of the command line and the merge files of the tree
Rules1 == [rules |-> <<L(":", {}, A), L("-", {}, <<"a">>)>>,
           files |-> P(<<>>, A) :> <<L("+", {}, <<"/", "a">>), L("P", {}, <<"e">>)>>
                  @@ P(<<"d">>, A) :> <<L("-", {}, <<"b">>), L("H", {}, <<"/", "a">>)>>
                  @@ P(<<"d", "e">>, A) :> <<L("!", {}, <<>>), L("-", {}, <<"[ab]">>)>>]
Rules2 == [rules |-> <<L(":", {"n", "e"}, A), L("S", {}, <<"d", "/">>), L("R", {"/"}, <<"p", "/", "d", "/", "*", "*">>), L("-", {"p"}, <<"a">>)>>,
           files |-> P(<<>>, A) :> <<L("-", {"!"}, <<"d", "/">>)>>
                  @@ P(<<"d">>, A) :> <<L(":", {"-"}, B), L("-", {}, <<"e", "/">>)>>
                  @@ P(<<"d">>, B) :> <<L("", {}, <<"b">>)>>
                  @@ P(<<"d", "e">>, B) :> <<L("", {}, <<"a">>)>>]
Rules3 == [rules |-> <<L(":", {}, <<"/">> \o A), L(".", {}, B)>>,
           files |-> A :> <<L(":", {}, <<"D">>)>> @@ B :> <<L("-", {"s"}, <<"o">>)>>
                  @@ <<"D">> :> <<L("-", {}, <<"x">>)>>
                  @@ P(<<>>, B) :> <<L("+", {"r"}, <<"a">>), L("-", {}, <<"*">>)>>
                  @@ P(<<>>, A) :> <<L("-", {}, <<"/", "d", "/", "b">>)>>
                  @@ P(<<"d">>, <<"D">>) :> <<L("-", {}, <<"a">>)>>]
Rules4 == [rules |-> <<L(":", {"n"}, <<"/">> \o A), L("-", {}, <<"b">>)>>,
           files |-> A :> <<L(":", {}, B)>> @@ P(<<"f">>, A) :> <<L(":", {}, B)>>
                  @@ P(<<"f">>, B) :> <<L("-", {}, <<"a">>)>>]
Rules5 == [rules |-> <<L("-", {"p"}, <<"o">>), L("-", {"r"}, <<"e", "/">>), L(":", {"s"}, A)>>,
           files |-> P(<<"d">>, A) :> <<L("+", {}, <<"b">>), L("-", {}, <<"*">>)>>]
Rules6 == [rules |-> <<L("H", {"r"}, <<"a">>)>>, files |-> NoFiles]
Rules7 == [rules |-> <<L("-", {}, <<"d", "/", "e">>), L("+", {}, <<"*", "*", "/", "a">>), L("-", {}, <<"d", "/", "*", "*", "*">>)>>,
           files |-> NoFiles]

AllSetups ==
  {[rules |-> r.rules, files |-> r.files, cvs |-> cvs, client_sends |-> c, delete |-> d # "no",
    delete_excluded |-> d = "excluded", proto |-> p, max_delete |-> IF cvs THEN 1 ELSE -1] :
    r \in {Rules1, Rules2, Rules3, Rules4, Rules5, Rules6, Rules7}, cvs \in BOOLEAN, c \in BOOLEAN,
    d \in {"no", "during", "excluded"}, p \in {28, 31}}

\* one rule with each of some patterns
Chars == {"a", "d", "/", "*", "?", "[ab]"}
Patterns == {p \in UNION {[1..n -> Chars] : n \in 1..3} \cup {<<x, "*", "*", y>> : x, y \in Chars}
                   \cup {<<"d", "/", "*", "*", "*">>, <<"d", "*", "/", "a">>, <<"*", "/", "e", "/", "a">>} :
               p # <<"/">> /\ \A i \in 1..(Len(p) - 1) : p[i] # "/" \/ p[i + 1] # "/"}
PatternSetups ==
  {[rules |-> <<L("-", {}, p)>>, files |-> NoFiles, cvs |-> FALSE, client_sends |-> TRUE, delete |-> FALSE,
    delete_excluded |-> FALSE, proto |-> 31, max_delete |-> -1] : p \in Patterns}

\* A client that receives with --cvs-exclude and --delete-excluded is left out:
\* it adds the CVS rules after those of its side were chosen, and so protects
\* files that it should delete.
MCSetups == {s \in AllSetups : ~(s.cvs /\ s.delete_excluded /\ ~s.client_sends)} \cup PatternSetups

\* paths of up to four parts, and a module /m with a few files
Parts == {Blank, Dot, DotDot, <<"a">>}
MCRawPaths == UNION {[1..n -> Parts] : n \in 1..4}
N(str) == [i \in 1..Len(str) |-> <<str[i]>>]
MCTree == {N(<<"m">>), N(<<"m", "a">>), N(<<"m", "a", "a">>), N(<<"a">>), N(<<"a", "b">>)}
MCPlainfiles == {N(<<"b">>), N(<<"a", "a">>), N(<<"a", "b", "a">>), N(<<"m", "b">>)}
MCUnseen == {N(<<"a", "a">>), N(<<"m", "a">>)}
MCModuleDir == N(<<"m">>)
MCGlobs == {g \in UNION {[1..n -> {Blank, Dot, <<"a">>, <<"*">>, <<"[ab]">>}] : n \in 1..4} : Wildcards(Last(g))}
-----------------------------------------------------------------------------
PA == <<97>>
PAM == <<97, 45>>
PB == <<98>>
MCUniverse == {PA, PAM, PB}
D(p) == [path |-> p, isdir |-> TRUE, mount |-> FALSE]
F(p) == [path |-> p, isdir |-> FALSE, mount |-> FALSE]
\* a directory "a", a file in it that sorts around it, a directory in it
One == {D(DotPath), D(<<PA>>), F(<<PA, PB>>), F(<<PAM>>), D(<<PA, PA>>), F(<<PA, PA, PA>>)}
\* "a" again with other content, "a-" as a directory
Two == {D(DotPath), D(<<PA>>), D(<<PA, PA>>), F(<<PA, PAM>>), D(<<PAM>>), F(<<PAM, PB>>)}
\* a file where the others have a directory
Three == {D(DotPath), F(<<PA>>), F(<<PB>>)}
Mnt == {D(DotPath), [D(<<PA>>) EXCEPT !.mount = TRUE], F(<<PA, PB>>), D(<<PB>>)}
MCDisks == <<One, Two, Three, Mnt>>
Whole(s) == [src |-> s, name_type |-> DOTDIR_NAME, path |-> DotPath]
Named(s, p) == [src |-> s, name_type |-> NORMAL_NAME, path |-> p]

ListBase == [proto |-> 31, inc_recurse |-> TRUE, recurse |-> TRUE, relative |-> FALSE, one_file_system |-> FALSE,
         prune_empty_dirs |-> FALSE, ignore_errors |-> FALSE, use_safe_inc_flist |-> TRUE, delete_during |-> TRUE,
         excluded |-> {}, abs |-> {}, args |-> <<Whole(1)>>]
ListFlat == [ListBase EXCEPT !.inc_recurse = FALSE]
MCListSetups ==
  {ListBase,
   [ListBase EXCEPT !.args = <<Named(1, <<PA>>), Named(2, <<PA>>)>>],
   [ListBase EXCEPT !.args = <<Named(1, <<PA>>), Named(1, <<PA>>)>>, !.ignore_errors = TRUE],
   [ListBase EXCEPT !.args = <<Whole(3), Whole(2)>>],
   [ListBase EXCEPT !.args = <<Whole(4)>>, !.one_file_system = TRUE],
   [ListBase EXCEPT !.args = <<Named(1, <<PA, PA>>), Named(1, <<PA, PB>>), Named(2, <<PAM>>)>>, !.relative = TRUE],
   [ListBase EXCEPT !.proto = 30, !.use_safe_inc_flist = FALSE],
   [ListFlat EXCEPT !.args = <<Whole(2), Named(3, <<PA>>)>>],
   [ListFlat EXCEPT !.prune_empty_dirs = TRUE, !.excluded = {PB}],
   [ListFlat EXCEPT !.args = <<Named(1, <<PA, PA>>), Named(1, <<PA, PB>>)>>, !.relative = TRUE, !.abs = {1}],
   [ListFlat EXCEPT !.proto = 28, !.args = <<Whole(1), Whole(3)>>]}
MCOneSetup == {ListBase}

\* notes that fall on the edges of a buffer of six characters
V(n, len, flag) == [name |-> n, len |-> len, flag |-> flag]
MCVictims == {V("a", 2, FALSE), V("b", 3, TRUE), V("c", 4, TRUE), V("d", 5, FALSE), V("e", 2, TRUE)}

\* keys that collide at the end of the table, before and after it grows
MCHash == <<7, 7, 15, 23, 8, 0, 6, 22>>
MCData == <<1, 0, 2, 0, 3, 0, 1, 2>>
MCIncrements == {-2, 0, 3}

\* "a".."b", ".", "~", "1"; and names with suffixes
Letters == {97, 98, 46}
Suffixed == {<<97, 46, 98>>, <<97, 46, 98, 46, 49>>, <<97, 46, 98, 126>>, <<97, 46, 98, 46, 98, 97, 107>>,
             <<97, 46, 98, 46, 126, 49, 126>>, <<98, 46, 49, 46, 50>>, <<46, 46, 97>>, <<97, 46>>,
             <<98, 46, 111, 114, 105, 103, 46, 49>>}
MCFuzzyNames == UNION {[1..n -> Letters] : n \in 0..3} \cup Suffixed
C(n, len, time, ok) == [name |-> n, len |-> len, time |-> time, ok |-> ok]
MCCandidates ==
  {<<<<C(a, 1, t, TRUE), C(b, 2, 2, ok)>>, <<C(c, 1, 3 - t, TRUE)>>>> :
     a \in Suffixed, b \in {<<97, 46, 49>>}, c \in {<<97, 98>>, <<97, 46, 98, 126>>}, t \in 1..2, ok \in BOOLEAN}
=============================================================================
