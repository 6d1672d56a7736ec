-------------------------------- MODULE Wild --------------------------------
(***************************************************************************)
(* Wildcard matching (lib/wildmatch.c).  Texts and patterns are sequences  *)
(* of characters; a character class is one element of a pattern, and Class *)
(* says what it stands for.  Texts that the code joins virtually are       *)
(* concatenated.                                                           *)
(***************************************************************************)
EXTENDS Integers, SequencesExt

CONSTANT Class  \* class |-> [neg, chars]

From(s, i) == SubSeq(s, i, Len(s))

\* The results of dowild: a match, no match here, no match however much of
\* the text is skipped, or none before the next "**".
Yes == "yes"
No == "no"
ABORT_ALL == "all"
ABORT_TO_STARSTAR == "starstar"

InClass(c, t) == LET k == Class[c] IN t # "/" /\ (IF k.neg THEN t \notin k.chars ELSE t \in k.chars)

RECURSIVE dowild(_, _), SkipText(_, _, _)

\* After one or more stars, the rest of the pattern is tried at every
\* character; only "**" goes past a slash.
SkipText(special, p, t) ==
  IF t = <<>> THEN ABORT_ALL
  ELSE LET m == dowild(p, t)
       IN IF m # No /\ (~special \/ m # ABORT_TO_STARSTAR) THEN m
          ELSE IF m = No /\ ~special /\ t[1] = "/" THEN ABORT_TO_STARSTAR
          ELSE SkipText(special, p, From(t, 2))

dowild(p, t) ==
  IF p = <<>> THEN IF t = <<>> THEN Yes ELSE No
  ELSE IF t = <<>> /\ p[1] # "*" THEN ABORT_ALL
  ELSE IF p[1] = "*"
  THEN LET stars == CHOOSE n \in 1..Len(p) : (\A i \in 1..n : p[i] = "*") /\ (n = Len(p) \/ p[n + 1] # "*")
           rest == From(p, stars + 1)
       IN IF rest # <<>> THEN SkipText(stars > 1, rest, t)
          ELSE IF stars = 1 /\ Contains(t, "/") THEN No ELSE Yes
  ELSE IF p[1] = "\\" THEN IF Len(p) > 1 /\ p[2] = t[1] THEN dowild(From(p, 3), From(t, 2)) ELSE No
  ELSE IF p[1] = "?" THEN IF t[1] = "/" THEN No ELSE dowild(From(p, 2), From(t, 2))
  ELSE IF p[1] \in DOMAIN Class THEN IF InClass(p[1], t[1]) THEN dowild(From(p, 2), From(t, 2)) ELSE No
  ELSE IF p[1] = t[1] THEN dowild(From(p, 2), From(t, 2)) ELSE No

\* the last n elements of a path, if it has as many
trailing_N_elements(t, n) ==
  LET at == {i \in 1..Len(t) : t[i] = "/"}
  IN IF Cardinality(at) + 1 < n THEN [ok |-> FALSE, t |-> t]
     ELSE IF Cardinality(at) + 1 = n THEN [ok |-> TRUE, t |-> t]
     ELSE [ok |-> TRUE, t |-> From(t, 1 + CHOOSE i \in at : Cardinality({j \in at : j >= i}) = n)]

\* from the start, at the last n elements, or after any slash (n < 0)
RECURSIVE AfterSlash(_, _)
AfterSlash(p, t) ==
  IF ~Contains(t, "/") THEN FALSE
  ELSE LET i == CHOOSE j \in 1..Len(t) : t[j] = "/" /\ \A k \in 1..(j - 1) : t[k] # "/"
           m == dowild(p, From(t, i + 1))
       IN IF m \notin {No, ABORT_TO_STARSTAR} THEN m = Yes ELSE AfterSlash(p, From(t, i + 1))

wildmatch_array(p, t, n) ==
  LET r == IF n > 0 THEN trailing_N_elements(t, n) ELSE [ok |-> TRUE, t |-> t]
      m == dowild(p, r.t)
  IN r.ok /\ (m = Yes \/ (n < 0 /\ m # ABORT_ALL /\ AfterSlash(p, r.t)))

litmatch_array(s, t, n) ==
  LET r == IF n > 0 THEN trailing_N_elements(t, n) ELSE [ok |-> TRUE, t |-> t] IN r.ok /\ r.t = s

wildmatch(p, t) == dowild(p, t) = Yes
----------------------------------------------------------------------------
(* What a pattern means: "?", "*" and classes match no slash, "**" matches *)
(* anything.                                                               *)

RECURSIVE Means(_, _)
Means(p, t) ==
  IF p = <<>> THEN t = <<>>
  ELSE IF Len(p) > 1 /\ p[1] = "*" /\ p[2] = "*" THEN \E i \in 1..(Len(t) + 1) : Means(From(p, 3), From(t, i))
  ELSE IF p[1] = "*" THEN \E i \in 1..(Len(t) + 1) : ~Contains(SubSeq(t, 1, i - 1), "/") /\ Means(From(p, 2), From(t, i))
  ELSE IF p[1] = "\\" THEN Len(p) > 1 /\ t # <<>> /\ p[2] = t[1] /\ Means(From(p, 3), From(t, 2))
  ELSE /\ t # <<>> /\ Means(From(p, 2), From(t, 2))
       /\ \/ p[1] = t[1]
          \/ p[1] = "?" /\ t[1] # "/"
          \/ p[1] \in DOMAIN Class /\ InClass(p[1], t[1])
=============================================================================
