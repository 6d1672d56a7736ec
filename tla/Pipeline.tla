------------------------------ MODULE Pipeline ------------------------------
(***************************************************************************)
(* The three processes of a transfer (src/rsync): the generator asks the   *)
(* sender for files, the sender sends them to the receiver, the receiver   *)
(* reports to the generator.  Each of the three one-way streams carries    *)
(* data, in order, and messages, which may overtake data that was written  *)
(* earlier but are never overtaken (IoBuf).  The model follows protocol 31 *)
(* for regular files that may form one group of hard links, in one file    *)
(* list or in several (incremental recursion).                             *)
(***************************************************************************)
EXTENDS Integers, Sequences, FiniteSets, SequencesExt

CONSTANTS
  N,          \* files are 1..N, in the order of their index
  Lists,      \* Lists: number of file lists with incremental recursion
  ListOf,     \* ListOf[f]: file list of f with incremental recursion
  Group,      \* the files that are hard links of each other
  Options,    \* the combinations of options to explore
  Present,    \* versions that the destination may have at first
  PresentLinked,  \* and those of the files of Group
  Cap,        \* items that a stream holds before its writer waits
  Limit,      \* increment_active_files: files that may be on their way
  MinAhead,   \* MIN_FILECNT_LOOKAHEAD
  FaultyLinks,  \* hard links may fail verification, and vanish during incremental recursion
  ReplacedLinks,  \* a name of a group of hard links may come to be another file
  MaxEdit, MaxBad, MaxErr  \* edits of the source, failed checks, failed writes

Files == 1..N

ASSUME PipelineAssumption ==
  /\ {N, Lists, Cap, Limit} \subseteq Nat \ {0} /\ MinAhead \in Nat
  /\ ListOf \in [Files -> 1..Lists]
  /\ Group \subseteq Files /\ Cardinality(Group) # 1
  /\ \A o \in Options : o.inc_recurse => ~o.delay_updates
  /\ Present \cup PresentLinked \subseteq {0, 1, 3, 4}   \* Absent, Listed, Old, Newer

VARIABLES
  opt,
  source, dest, delayed,    \* delayed[f]: version kept for a delayed update
  g2s, s2r, r2g,            \* the streams
  gpc, gl, gnext, gcur, gi, work, gout, redo_list, hlink_list,
  in_progress, to_redo, active_filecnt, msgdone_cnt, gflist_eof, gio_error,
  hprev, hfirst, hlast, hdone, hskip, gsent, prior_hlinks,
  spc, sl, snext, sphase, sout, sflist_eof, scur, sio_error,
  rpc, rl, rphase, rout, rsent,
  err, failed, edits, bad, errs

hvars == <<hprev, hfirst, hlast, hdone, hskip, gsent, prior_hlinks>>
gvars == <<gpc, gl, gnext, gcur, gi, work, gout, redo_list, hlink_list, in_progress,
           to_redo, active_filecnt, msgdone_cnt, gflist_eof, gio_error>>
svars == <<spc, sl, snext, sphase, sout, sflist_eof, scur, sio_error>>
rvars == <<rpc, rl, rphase, rout, rsent, delayed>>
env == <<edits, bad, errs>>
vars == <<opt, source, dest, g2s, s2r, r2g, gvars, hvars, svars, rvars, err, failed, env>>

M == INSTANCE Mirror WITH Files <- Files, source <- source, dest <- dest
Absent == 0
Listed == 1
Later == 2
Old == 3
Newer == 4
Taken == 5
----------------------------------------------------------------------------
(* Streams.  "ahead" counts the messages that must be read before an item. *)

Empty == [data |-> <<>>, msgs |-> <<>>]
Data(c, x) == [c EXCEPT !.data = Append(@, [x |-> x, ahead |-> Len(c.msgs)])]
Msg(c, x) == [c EXCEPT !.msgs = Append(@, x)]
Write(c, o) == IF o.msg THEN Msg(c, o.x) ELSE Data(c, o.x)
Room(c) == Len(c.data) + Len(c.msgs) < Cap
HasData(c) == c.data # <<>> /\ c.data[1].ahead = 0
Take(c) == [c EXCEPT !.data = Tail(@)]
TakeMsg(c) == [data |-> [i \in 1..Len(c.data) |->
                  [c.data[i] EXCEPT !.ahead = IF @ > 0 THEN @ - 1 ELSE 0]],
               msgs |-> Tail(c.msgs)]

D(kind, n, v) == [msg |-> FALSE, x |-> [kind |-> kind, n |-> n, v |-> v]]
MsgInt(kind, n) == [msg |-> TRUE, x |-> [kind |-> kind, n |-> n]]
Done == D("NDX_DONE", 0, 0)

NLists == IF opt.inc_recurse THEN Lists ELSE 1
List(f) == IF opt.inc_recurse THEN ListOf[f] ELSE 1
Linked(f) == opt.preserve_hard_links /\ f \in Group
MembersOf(l) == {f \in Files : List(f) = l}
Alive(lists, f) == \E i \in 1..Len(lists) : lists[i] = List(f)
MayVanish(f) == FaultyLinks \/ ~(Linked(f) /\ opt.inc_recurse)
MayFail(f) == FaultyLinks \/ ~Linked(f)
Gone(f) == source[f] \in {Absent, Taken}
Fail(msg) == err' = err \cup {msg}

HardLinked(l) == {f \in MembersOf(l) : Linked(f)}
Before(S, f) == {e \in S : e < f}
Highest(S) == CHOOSE e \in S : \A d \in S : d <= e

\* match_gnums for the links of list l: h holds the flags of all files
match_gnums(h, lists, l) ==
  LET ms == HardLinked(l)
      open == h.prior.kind = "open"
      old == IF open /\ Alive(lists, h.prior.n) THEN h.prior.n ELSE 0
  IN IF ms = {} THEN h
     ELSE [first |-> h.first \cup (IF h.prior.kind = "named" \/ old # 0 THEN {} ELSE {f \in ms : Before(ms, f) = {}}),
           last |-> (h.last \ {old}) \cup {Highest(ms)},
           prev |-> [f \in Files |-> IF f \notin ms THEN h.prev[f]
                                     ELSE IF Before(ms, f) = {} THEN old ELSE Highest(Before(ms, f))],
           prior |-> IF h.prior.kind = "named" THEN h.prior ELSE [kind |-> "open", n |-> Highest(ms)]]

NoLinks == [prev |-> [f \in Files |-> 0], first |-> {}, last |-> {}, prior |-> [kind |-> "none", n |-> 0]]

Init ==
  /\ opt \in Options
  /\ source = [f \in Files |-> Listed]
  /\ dest \in {d \in [Files -> Present \cup PresentLinked] :
                 \A f \in Files : d[f] \in IF Linked(f) THEN PresentLinked ELSE Present}
  /\ delayed = [f \in Files |-> Absent]
  /\ g2s = Empty /\ s2r = Empty /\ r2g = Empty
  /\ gpc = "file" /\ gl = <<1>> /\ gnext = 2 /\ gcur = 1 /\ gi = 0 /\ work = <<>> /\ gout = <<>>
  /\ redo_list = <<>> /\ hlink_list = <<>>
  /\ in_progress = [l \in 1..Lists |-> 0] /\ to_redo = [l \in 1..Lists |-> 0]
  /\ active_filecnt = 0 /\ msgdone_cnt = 0
  /\ gflist_eof = (NLists = 1) /\ gio_error = FALSE
  /\ LET h == match_gnums(NoLinks, <<1>>, 1)
     IN hprev = h.prev /\ hfirst = h.first /\ hlast = h.last /\ prior_hlinks = h.prior
  /\ hdone = {} /\ hskip = {} /\ gsent = {}
  /\ spc = "loop" /\ sl = <<1>> /\ snext = 2 /\ sphase = 0 /\ sout = <<>>
  /\ sflist_eof = (NLists = 1) /\ scur = 1 /\ sio_error = FALSE
  /\ rpc = "loop" /\ rl = <<1>> /\ rphase = 0 /\ rout = <<>> /\ rsent = {}
  /\ err = {} /\ failed = {} /\ edits = 0 /\ bad = 0 /\ errs = 0
----------------------------------------------------------------------------
(* Hard links, in the generator *)

\* The files that F_HL_PREV leads to from f, and their order.  (A chain ends:
\* ChainsEnd.)
Behind(hp, f) ==
  {x \in Files : \A S \in SUBSET Files :
     hp[f] \in S \cup {0} /\ (\A y \in S : hp[y] \in S \cup {0}) => x \in S}
ChainsIn(B, hp, f) ==
  {s \in [1..Cardinality(B) -> B] : \A i \in DOMAIN s : s[i] = IF i = 1 THEN hp[f] ELSE hp[s[i - 1]]}
Chains(hp, f) == ChainsIn(Behind(hp, f), hp, f)
AnyOf(chains) == IF chains = {} THEN <<>> ELSE CHOOSE s \in chains : TRUE
Waiting(hp, f) == AnyOf(Chains(hp, f))

\* check_prior: the nearest earlier link, unless its list is gone; links that
\* were skipped are passed by.
Skipped(f) == Alive(gl, f) /\ f \in hskip
Nearest(s) ==
  IF \E i \in DOMAIN s : Alive(gl, s[i]) /\ ~Skipped(s[i]) /\ \A j \in 1..i - 1 : Skipped(s[j])
  THEN s[CHOOSE i \in DOMAIN s : Alive(gl, s[i]) /\ ~Skipped(s[i]) /\ \A j \in 1..i - 1 : Skipped(s[j])]
  ELSE 0
Prior(f) == Nearest(Waiting(hprev, f))
PriorLink(p) ==
  IF p # 0 THEN [kind |-> "file", n |-> p]
  ELSE IF opt.inc_recurse /\ prior_hlinks.kind = "named" THEN [kind |-> "name", n |-> prior_hlinks.n]
  ELSE [kind |-> "none", n |-> 0]
check_prior(f) == PriorLink(Prior(f))

\* what it leaves in F_HL_PREV
Hopped(f) == [hprev EXCEPT ![f] = Prior(f)]

Succeeded(fs) == IF opt.remove_source_files
                 THEN [i \in 1..Len(fs) |-> MsgInt("MSG_SUCCESS", fs[i])] ELSE <<>>

\* finish_hard_link: in_progress-- for every link that waited for f
Released(ip, f, W) == [l \in 1..Lists |-> ip[l] - Cardinality({w \in W : List(w) = l})]

\* finish_hard_link: f is there, every file that waits for it is linked to it.
finish_hard_link(f, hp, ip) ==
  LET W == Behind(hp, f)
  IN /\ hfirst' = (hfirst \ W) \cup {f}
     /\ hdone' = hdone \cup {f} \cup W
     /\ hprev' = [x \in Files |-> IF x = f THEN 0 ELSE IF x \in W THEN f ELSE hp[x]]
     /\ dest' = [x \in Files |-> IF x \in W THEN dest[f] ELSE dest[x]]
     /\ in_progress' = Released(ip, f, W)
     /\ prior_hlinks' = IF opt.inc_recurse THEN [kind |-> "named", n |-> f] ELSE prior_hlinks
     /\ IF \/ opt.inc_recurse /\ prior_hlinks.kind # "open"
           \/ \E w \in W : ~Alive(gl, w)
        THEN Fail("hlink") ELSE UNCHANGED err
     /\ UNCHANGED <<hlast, hskip, gsent>>

\* skip_hard_link: the link to be processed in place of f, if any
Replaces(f) ==
  LET p == check_prior(f)
  IN IF f \in hlast /\ p.kind = "file" /\ p.n \notin hdone \cup gsent THEN p.n ELSE 0

handle_skipped_hlink(f, rest, ip) ==
  LET p == Replaces(f)
  IN /\ hskip' = hskip \cup {f}
     /\ hlast' = IF p = 0 THEN hlast ELSE hlast \cup {p}
     /\ in_progress' = IF p = 0 THEN ip ELSE [ip EXCEPT ![List(p)] = @ - 1]
     /\ work' = IF p = 0 THEN rest ELSE <<[f |-> p, redo |-> FALSE]>> \o rest
     /\ hprev' = IF f \in hlast THEN Hopped(f) ELSE hprev
     /\ UNCHANGED <<hfirst, hdone, gsent, prior_hlinks, dest, err>>
----------------------------------------------------------------------------
(* Generator *)

GenReady == gpc # "done" /\ gout = <<>>
Phase0 == gpc \in {"file", "after", "end"}
CurList == IF work = <<>> THEN gcur ELSE List(work[1].f)

ToCome == {f \in MembersOf(gcur) : f > gi}

\* The next file of the list is handed to recv_generator.
generate_file ==
  /\ GenReady /\ gpc = "file" /\ work = <<>>
  /\ \E f \in ToCome :
       /\ \A e \in ToCome : f <= e
       /\ work' = <<[f |-> f, redo |-> FALSE]>> /\ gi' = f
  /\ gpc' = "after"
  /\ UNCHANGED <<opt, source, dest, g2s, s2r, r2g, gl, gnext, gcur, gout, redo_list, hlink_list,
                 in_progress, to_redo, active_filecnt, msgdone_cnt, gflist_eof, gio_error,
                 hvars, svars, rvars, err, failed, env>>

\* The end of a list: NDX_DONE, or wait until its files are settled.
list_ends ==
  /\ GenReady /\ gpc = "file" /\ work = <<>>
  /\ ToCome = {}
  /\ gpc' = IF opt.inc_recurse THEN "end" ELSE "phase1"
  /\ gout' = IF opt.inc_recurse THEN <<>> ELSE <<Done>>
  /\ UNCHANGED <<opt, source, dest, g2s, s2r, r2g, gl, gcur, gi, gnext, work, redo_list, hlink_list,
                 in_progress, to_redo, active_filecnt, msgdone_cnt, gflist_eof, gio_error,
                 hvars, svars, rvars, err, failed, env>>

MustCount == opt.remove_source_files /\ ~opt.delay_updates /\ Phase0

\* What hard_link_check makes of file f: another link to follow, or none.
\* If the previous one is done but not the first, the one before it is, or an
\* assertion fails (n = 0).
LinkVia(f, p) ==
  IF ~Linked(f) \/ f \in hfirst \/ p.kind = "none" THEN [kind |-> "process", n |-> 0]
  ELSE IF p.kind = "file" /\ p.n \notin hdone
  THEN IF p.n \in gsent THEN [kind |-> "wait", n |-> p.n] ELSE [kind |-> "process", n |-> 0]
  ELSE [kind |-> "link", n |-> IF p.kind = "file" /\ p.n \notin hfirst THEN check_prior(p.n).n ELSE p.n]
LinkTo(f) == LinkVia(f, check_prior(f))

Wanted(w) == LinkTo(w.f).kind = "process" /\ (w.redo \/ dest[w.f] \notin {Listed, Newer})
Postponed(w) == dest[w.f] = Absent /\ Linked(w.f) /\ w.f \notin hlast
Blocked == /\ work # <<>> /\ Wanted(work[1]) /\ ~Postponed(work[1])
           /\ MustCount /\ active_filecnt >= Limit

\* recv_generator for a regular file, and what follows a redo in
\* check_for_finished_files
recv_generator ==
  /\ GenReady /\ work # <<>> /\ ~Blocked
  /\ LET w == work[1]
         f == w.f
         rest == Tail(work)
         ip == in_progress
         l == List(f)
         to == LinkTo(f)
         hp == IF Linked(f) /\ f \notin hfirst THEN Hopped(f) ELSE hprev
     IN /\ to_redo' = IF w.redo /\ opt.inc_recurse THEN [to_redo EXCEPT ![l] = @ - 1] ELSE to_redo
        /\ CASE to.kind = "wait" ->
                  /\ hprev' = [hprev EXCEPT ![f] = hprev[to.n], ![to.n] = f]
                  /\ gsent' = gsent \cup {f}
                  /\ in_progress' = [ip EXCEPT ![l] = @ + 1]
                  /\ work' = rest /\ gout' = <<>>
                  /\ UNCHANGED <<hfirst, hlast, hdone, hskip, prior_hlinks, dest, active_filecnt, err>>
             [] to.kind = "link" ->
                  /\ IF to.n = 0 THEN Fail("hard_link_check") /\ gout' = <<>> /\ UNCHANGED <<dest, hdone, hprev>>
                     ELSE /\ dest' = [dest EXCEPT ![f] = dest[to.n]]
                          /\ hdone' = hdone \cup {f}
                          /\ hprev' = [hprev EXCEPT ![f] = to.n]
                          /\ gout' = Succeeded(<<f>>)
                          /\ UNCHANGED err
                  /\ work' = rest
                  /\ UNCHANGED <<hfirst, hlast, hskip, gsent, prior_hlinks, in_progress, active_filecnt>>
             [] to.kind = "process" /\ ~w.redo /\ dest[f] = Newer ->
                  /\ IF Linked(f) THEN handle_skipped_hlink(f, rest, ip)
                     ELSE work' = rest /\ UNCHANGED <<hvars, dest, in_progress, err>>
                  /\ gout' = <<>>
                  /\ UNCHANGED active_filecnt
             [] to.kind = "process" /\ ~w.redo /\ dest[f] = Listed ->
                  /\ IF Linked(f) THEN finish_hard_link(f, hp, ip)
                     ELSE UNCHANGED <<hvars, dest, in_progress, err>>
                  /\ gout' = (IF Linked(f) THEN Succeeded(Waiting(hp, f)) ELSE <<>>) \o Succeeded(<<f>>)
                  /\ work' = rest
                  /\ UNCHANGED active_filecnt
             [] Wanted(w) /\ Postponed(w) ->
                  /\ in_progress' = [ip EXCEPT ![l] = @ + 1]
                  /\ hprev' = hp
                  /\ work' = rest /\ gout' = <<>>
                  /\ UNCHANGED <<hfirst, hlast, hdone, hskip, gsent, prior_hlinks, dest, active_filecnt, err>>
             [] OTHER ->   \* notify_others
                  /\ active_filecnt' = IF MustCount THEN active_filecnt + 1 ELSE active_filecnt
                  /\ in_progress' = IF opt.inc_recurse THEN [ip EXCEPT ![l] = @ + 1] ELSE ip
                  /\ gsent' = IF Linked(f) THEN gsent \cup {f} ELSE gsent
                  /\ gout' = <<D("request", f, 0)>>
                  /\ hprev' = hp
                  /\ work' = rest
                  /\ UNCHANGED <<hfirst, hlast, hdone, hskip, prior_hlinks, dest, err>>
  /\ UNCHANGED <<opt, source, g2s, s2r, r2g, gpc, gnext, gl, gcur, gi, redo_list, hlink_list,
                 msgdone_cnt, gflist_eof, gio_error, svars, rvars, failed, env>>

\* check_for_finished_files, one turn of its loop.
CheckCalled ==
  /\ GenReady
  /\ \/ work = <<>> /\ gpc \in {"after", "end", "phase1", "phase2"}
     \/ Blocked
CheckRedo == work = <<>> /\ gpc \in {"end", "phase1"}

HlinkTurn == hlink_list # <<>>
RedoTurn == ~HlinkTurn /\ CheckRedo /\ redo_list # <<>>
FreeTurn == /\ ~HlinkTurn /\ ~RedoTurn /\ gl # <<>>
            /\ CurList # gl[1] /\ in_progress[gl[1]] = 0 /\ to_redo[gl[1]] = 0

finished_hlink ==
  /\ CheckCalled /\ HlinkTurn
  /\ LET h == hlink_list[1]
         ip == [in_progress EXCEPT ![List(h.n)] = @ - 1]
     IN IF h.failed
        THEN handle_skipped_hlink(h.n, work, ip) /\ gout' = <<>>
        ELSE finish_hard_link(h.n, hprev, ip) /\ gout' = Succeeded(Waiting(hprev, h.n)) /\ UNCHANGED work
  /\ hlink_list' = Tail(hlink_list)
  /\ UNCHANGED <<opt, source, g2s, s2r, r2g, gpc, gnext, gl, gcur, gi, redo_list, to_redo,
                 active_filecnt, msgdone_cnt, gflist_eof, gio_error, svars, rvars, failed, env>>

finished_redo ==
  /\ CheckCalled /\ RedoTurn
  /\ work' = <<[f |-> redo_list[1], redo |-> TRUE]>>
  /\ redo_list' = Tail(redo_list)
  /\ IF Alive(gl, redo_list[1]) THEN UNCHANGED err ELSE Fail("flist_for_ndx")
  /\ UNCHANGED <<opt, source, dest, g2s, s2r, r2g, gpc, gnext, gl, gcur, gi, gout, hlink_list,
                 in_progress, to_redo, active_filecnt, msgdone_cnt, gflist_eof, gio_error,
                 hvars, svars, rvars, failed, env>>

\* a mistake: a list is done although files of it are to be sent again
FreeEarly ==
  /\ CheckCalled /\ ~HlinkTurn /\ ~RedoTurn /\ gl # <<>>
  /\ CurList # gl[1] /\ in_progress[gl[1]] = 0
  /\ gl' = Tail(gl) /\ gout' = <<Done>>
  /\ UNCHANGED <<opt, source, dest, g2s, s2r, r2g, gpc, gnext, gcur, gi, work, redo_list, hlink_list,
                 in_progress, to_redo, active_filecnt, msgdone_cnt, gflist_eof, gio_error,
                 hvars, svars, rvars, err, failed, env>>

finished_list ==
  /\ CheckCalled /\ FreeTurn
  /\ gl' = Tail(gl) /\ gout' = <<Done>>
  /\ UNCHANGED <<opt, source, dest, g2s, s2r, r2g, gpc, gnext, gcur, gi, work, redo_list, hlink_list,
                 in_progress, to_redo, active_filecnt, msgdone_cnt, gflist_eof, gio_error,
                 hvars, svars, rvars, err, failed, env>>

\* How many NDX_DONE generate_files writes when it leaves a phase.
DoneAfterPhase1 == IF opt.delay_updates THEN 1 ELSE IF opt.late_delete THEN 2 ELSE 3
DoneAfterPhase2 == IF ~opt.delay_updates THEN 0 ELSE IF opt.late_delete THEN 1 ELSE 2
Dones(n) == [i \in 1..n |-> Done]

PhaseEnds ==
  CASE gpc = "phase1" -> msgdone_cnt > 0
    [] gpc = "phase2" -> msgdone_cnt > 1
    [] gpc = "phase3" -> msgdone_cnt # 2
    [] gpc = "phase4" -> msgdone_cnt # 3
    [] OTHER -> FALSE

\* generate_files goes on after check_for_finished_files
generate_files ==
  /\ GenReady /\ work = <<>> /\ ~HlinkTurn
  /\ gpc \in {"phase3", "phase4"} \/ (~RedoTurn /\ ~FreeTurn)
  /\ \/ gpc = "after" /\ gpc' = "file" /\ UNCHANGED <<gcur, gi, gout>>
     \/ /\ gpc = "end"
        /\ \E i \in 1..Len(gl) :
             /\ gl[i] = gcur
             /\ \/ i < Len(gl) /\ gcur' = gl[i + 1] /\ gi' = 0 /\ gpc' = "file"
                \/ i = Len(gl) /\ gflist_eof /\ gcur' = 0 /\ gpc' = "phase1" /\ UNCHANGED gi
        /\ UNCHANGED gout
     \/ /\ PhaseEnds
        /\ \/ gpc = "phase1" /\ gpc' = "phase2" /\ gout' = Dones(DoneAfterPhase1)
           \/ gpc = "phase2" /\ gpc' = "phase3" /\ gout' = Dones(DoneAfterPhase2)
           \/ gpc = "phase3" /\ gpc' = "phase4" /\ gout' = Dones(IF opt.late_delete THEN 1 ELSE 0)
           \/ gpc = "phase4" /\ gpc' = "bye" /\ gout' = Dones(1)
        /\ UNCHANGED <<gcur, gi>>
     \/ gpc = "bye" /\ gpc' = "done" /\ UNCHANGED <<gcur, gi, gout>>  \* SIGUSR2
  /\ UNCHANGED <<opt, source, dest, g2s, s2r, r2g, gl, gnext, work, redo_list, hlink_list, in_progress,
                 to_redo, active_filecnt, msgdone_cnt, gflist_eof, gio_error, hvars, svars, rvars,
                 err, failed, env>>

GenWrite ==
  /\ gout # <<>> /\ Room(g2s)
  /\ g2s' = Write(g2s, gout[1]) /\ gout' = Tail(gout)
  /\ UNCHANGED <<opt, source, dest, s2r, r2g, gpc, gnext, gl, gcur, gi, work, redo_list, hlink_list,
                 in_progress, to_redo, active_filecnt, msgdone_cnt, gflist_eof, gio_error,
                 hvars, svars, rvars, err, failed, env>>

\* perform_io: the generator reads from the receiver whenever it waits
ReadsAlways == gpc # "done"

\* wait_for_receiver, which perform_io also calls while the generator waits
\* to write
wait_for_receiver ==
  /\ ReadsAlways /\ HasData(r2g)
  /\ r2g' = Take(r2g)
  /\ LET x == r2g.data[1].x
     IN \/ /\ x.kind = "NDX_DONE" /\ msgdone_cnt' = msgdone_cnt + 1
           /\ UNCHANGED <<gl, gnext, gflist_eof, hprev, hfirst, hlast, prior_hlinks>>
        \/ /\ x.kind = "NDX_FLIST_EOF" /\ gflist_eof' = TRUE
           /\ UNCHANGED <<gl, gnext, msgdone_cnt, hprev, hfirst, hlast, prior_hlinks>>
        \/ /\ x.kind = "flist"
           /\ gl' = Append(gl, gnext) /\ gnext' = gnext + 1
           /\ LET h == match_gnums([prev |-> hprev, first |-> hfirst, last |-> hlast,
                                    prior |-> prior_hlinks], gl, gnext)
              IN hprev' = h.prev /\ hfirst' = h.first /\ hlast' = h.last /\ prior_hlinks' = h.prior
           /\ UNCHANGED <<gflist_eof, msgdone_cnt>>
  /\ UNCHANGED <<opt, source, dest, g2s, s2r, gpc, gcur, gi, work, gout, redo_list, hlink_list,
                 in_progress, to_redo, active_filecnt, gio_error, hdone, hskip, gsent,
                 svars, rvars, err, failed, env>>

\* a mistake: a file that is not sent, or is sent again, stays active
ActiveUntilSuccess(kind) ==
  IF opt.remove_source_files /\ kind = "MSG_SUCCESS" THEN active_filecnt - 1 ELSE active_filecnt
\* got_flist_entry_status: active_filecnt--
ActiveAfter(kind) == IF opt.remove_source_files THEN active_filecnt - 1 ELSE active_filecnt

\* read_a_msg in the generator; a MSG_SUCCESS goes on to the sender.
got_flist_entry_status ==
  /\ ReadsAlways /\ r2g.msgs # <<>>
  /\ r2g' = TakeMsg(r2g)
  /\ LET m == r2g.msgs[1]
         l == List(m.n)
         less == IF opt.inc_recurse THEN [in_progress EXCEPT ![l] = @ - 1] ELSE in_progress
         link == Linked(m.n)
     IN IF m.kind = "MSG_IO_ERROR"
        THEN /\ gio_error' = TRUE
             /\ UNCHANGED <<active_filecnt, in_progress, to_redo, redo_list, hlink_list, gout, err>>
        ELSE /\ IF Alive(gl, m.n) THEN UNCHANGED err ELSE Fail("flist_for_ndx")
             /\ active_filecnt' = ActiveAfter(m.kind)
             /\ IF m.kind = "MSG_REDO"
                THEN /\ in_progress' = less
                     /\ to_redo' = IF opt.inc_recurse THEN [to_redo EXCEPT ![l] = @ + 1] ELSE to_redo
                     /\ redo_list' = Append(redo_list, m.n)
                     /\ UNCHANGED <<hlink_list, gout>>
                ELSE /\ in_progress' = IF link /\ opt.inc_recurse THEN in_progress ELSE less
                     /\ hlink_list' = IF link
                          THEN Append(hlink_list, [n |-> m.n, failed |-> m.kind = "MSG_NO_SEND"])
                          ELSE hlink_list
                     /\ gout' = IF m.kind = "MSG_SUCCESS" THEN gout \o Succeeded(<<m.n>>) ELSE gout
                     /\ UNCHANGED <<to_redo, redo_list>>
             /\ UNCHANGED gio_error
  /\ UNCHANGED <<opt, source, dest, g2s, s2r, gpc, gnext, gl, gcur, gi, work, msgdone_cnt, gflist_eof,
                 hvars, svars, rvars, failed, env>>

Generator == \/ generate_file \/ list_ends \/ recv_generator \/ finished_hlink \/ finished_redo
             \/ finished_list \/ generate_files \/ GenWrite \/ wait_for_receiver
             \/ got_flist_entry_status
----------------------------------------------------------------------------
(* Sender *)

SndReady == spc # "done" /\ sout = <<>>
Used(l) == Cardinality(MembersOf(l))
\* file_total - file_old_total: files in the lists after the current one
Ahead == FoldSeq(LAMBDA l, n : IF l > scur THEN n + Used(l) ELSE n, 0, sl)

\* send_extra_file_list
send_extra_file_list ==
  /\ SndReady /\ spc = "loop" /\ opt.inc_recurse /\ ~sflist_eof
  /\ sout' = <<D("flist", snext, 0)>> \o IF snext = NLists THEN <<D("NDX_FLIST_EOF", 0, 0)>> ELSE <<>>
  /\ sl' = Append(sl, snext) /\ snext' = snext + 1
  /\ sflist_eof' = (snext = NLists)
  /\ UNCHANGED <<opt, source, dest, g2s, s2r, r2g, gvars, hvars, spc, sphase, scur, sio_error,
                 rvars, err, failed, env>>

\* The end of send_files sends the error flag to the receiving side.
FinalReport == IF sio_error THEN <<MsgInt("MSG_IO_ERROR", 0)>> ELSE <<>>

LookedAhead == spc # "loop" \/ ~opt.inc_recurse \/ sflist_eof \/ Ahead >= MinAhead

\* send_files at NDX_DONE, read_final_goodbye after the last phase
SndDone ==
  /\ SndReady /\ LookedAhead /\ HasData(g2s) /\ g2s.data[1].x.kind = "NDX_DONE"
  /\ g2s' = Take(g2s)
  /\ \/ /\ spc = "loop" /\ opt.inc_recurse /\ Len(sl) > 1
        /\ sl' = Tail(sl) /\ sout' = <<Done>>
        /\ scur' = IF scur = sl[1] THEN sl[2] ELSE scur
        /\ UNCHANGED <<spc, sphase>>
     \/ /\ spc = "loop" /\ ~(opt.inc_recurse /\ Len(sl) > 1)
        /\ sl' = IF opt.inc_recurse THEN <<>> ELSE sl
        /\ sphase' = sphase + 1
        /\ IF sphase + 1 > 2
           THEN /\ sout' = FinalReport \o <<Done, D("stats", 0, 0)>>
                /\ spc' = "goodbye"
           ELSE sout' = <<Done>> /\ UNCHANGED spc
        /\ UNCHANGED scur
     \/ /\ spc = "goodbye" /\ sout' = <<Done>> /\ spc' = "last" /\ UNCHANGED <<sl, sphase, scur>>
     \/ /\ spc = "last" /\ sout' = <<>> /\ spc' = "done" /\ UNCHANGED <<sl, sphase, scur>>
  /\ UNCHANGED <<opt, source, dest, s2r, r2g, gvars, hvars, snext, sflist_eof, sio_error, rvars,
                 err, failed, env>>

\* send_files for a transfer request
send_file ==
  /\ SndReady /\ LookedAhead /\ HasData(g2s) /\ g2s.data[1].x.kind = "request"
  /\ g2s' = Take(g2s)
  /\ LET f == g2s.data[1].x.n
     IN IF sphase = 2 \/ spc # "loop" \/ ~Alive(sl, f)
        THEN /\ Fail("transfer request") /\ UNCHANGED <<sout, scur, sio_error>>
        ELSE /\ scur' = List(f)
             /\ sio_error' = (sio_error \/ Gone(f))
             /\ sout' = IF Gone(f) THEN <<MsgInt("MSG_NO_SEND", f)>>
                        ELSE <<D("file", f, source[f])>>
             /\ UNCHANGED err
  /\ UNCHANGED <<opt, source, dest, s2r, r2g, gvars, hvars, spc, sl, snext, sphase, sflist_eof,
                 rvars, failed, env>>

\* a mistake: the file is removed whatever became of it since it was listed
RemoveUnchecked ==
  /\ spc # "done" /\ g2s.msgs # <<>>
  /\ g2s' = TakeMsg(g2s)
  /\ source' = [source EXCEPT ![g2s.msgs[1].n] = Taken]
  /\ UNCHANGED <<opt, dest, s2r, r2g, gvars, hvars, svars, rvars, err, failed, env>>

\* successful_send: the source is removed unless it changed since it was
\* listed.
successful_send ==
  /\ spc # "done" /\ g2s.msgs # <<>>
  /\ g2s' = TakeMsg(g2s)
  /\ LET f == g2s.msgs[1].n
     IN /\ IF Alive(sl, f) THEN UNCHANGED err ELSE Fail("flist_for_ndx")
        /\ source' = IF source[f] = Listed THEN [source EXCEPT ![f] = Taken] ELSE source
  /\ UNCHANGED <<opt, dest, s2r, r2g, gvars, hvars, svars, rvars, failed, env>>

SndWrite ==
  /\ sout # <<>> /\ Room(s2r)
  /\ s2r' = Write(s2r, sout[1]) /\ sout' = Tail(sout)
  /\ UNCHANGED <<opt, source, dest, g2s, r2g, gvars, hvars, spc, sl, snext, sphase, sflist_eof, scur,
                 sio_error, rvars, err, failed, env>>

Sender == send_extra_file_list \/ SndDone \/ send_file \/ successful_send \/ SndWrite
----------------------------------------------------------------------------
(* Receiver *)

RcvReady == rpc # "done" /\ rout = <<>> /\ gpc # "done"

\* read_ndx_and_attrs: file lists go on to the generator.
RcvFlist ==
  /\ RcvReady /\ HasData(s2r) /\ s2r.data[1].x.kind \in {"flist", "NDX_FLIST_EOF"}
  /\ s2r' = Take(s2r)
  /\ rl' = IF s2r.data[1].x.kind = "flist" THEN Append(rl, s2r.data[1].x.n) ELSE rl
  /\ rout' = <<[msg |-> FALSE, x |-> s2r.data[1].x]>>
  /\ UNCHANGED <<opt, source, dest, g2s, r2g, gvars, hvars, svars, rpc, rphase, rsent, delayed,
                 err, failed, env>>

\* recv_files at NDX_DONE, then do_recv to the end
RcvDone ==
  /\ RcvReady /\ HasData(s2r) /\ s2r.data[1].x.kind \in {"NDX_DONE", "stats"}
  /\ s2r' = Take(s2r)
  /\ \/ /\ rpc = "loop" /\ opt.inc_recurse /\ Len(rl) > 1
        /\ rl' = Tail(rl) /\ UNCHANGED <<rpc, rphase, rout>>
     \/ /\ rpc = "loop" /\ ~(opt.inc_recurse /\ Len(rl) > 1)
        /\ rl' = IF opt.inc_recurse THEN <<>> ELSE rl
        /\ rphase' = rphase + 1
        /\ rpc' = IF rphase + 1 > 2 THEN "stats"
                  ELSE IF rphase + 1 = 2 /\ opt.delay_updates THEN "delayed" ELSE "loop"
        /\ rout' = IF rpc' = "loop" THEN <<Done>> ELSE <<>>
     \/ rpc = "stats" /\ rpc' = "goodbye" /\ rout' = <<Done>> /\ UNCHANGED <<rl, rphase>>
     \/ rpc = "goodbye" /\ rpc' = "last" /\ rout' = <<Done>> /\ UNCHANGED <<rl, rphase>>
  /\ UNCHANGED <<opt, source, dest, g2s, r2g, gvars, hvars, svars, rsent, delayed, err, failed, env>>

\* handle_delayed_updates: one file after the other is put in place.
handle_delayed_updates ==
  /\ RcvReady /\ rpc = "delayed"
  /\ \/ \E f \in Files :
          /\ delayed[f] # Absent
          /\ \A e \in 1..f - 1 : delayed[e] = Absent
          /\ dest' = [dest EXCEPT ![f] = delayed[f]]
          /\ delayed' = [delayed EXCEPT ![f] = Absent]
          /\ rout' = IF opt.remove_source_files \/ Linked(f) THEN <<MsgInt("MSG_SUCCESS", f)>> ELSE <<>>
          /\ UNCHANGED rpc
     \/ /\ \A f \in Files : delayed[f] = Absent
        /\ rpc' = "loop" /\ rout' = <<Done>>
        /\ UNCHANGED <<dest, delayed>>
  /\ UNCHANGED <<opt, source, g2s, s2r, r2g, gvars, hvars, svars, rl, rphase, rsent, err, failed, env>>

\* The cases of recv_ok at the end of recv_files' loop.
ReportFor(f, recv_ok) ==
  LET noSend == IF opt.inc_recurse THEN <<MsgInt("MSG_NO_SEND", f)>> ELSE <<>>
  IN CASE recv_ok = 2 -> <<>>
       [] recv_ok = 1 -> IF opt.remove_source_files \/ opt.inc_recurse \/ Linked(f)
                         THEN <<MsgInt("MSG_SUCCESS", f)>> ELSE <<>>
       [] recv_ok = 0 -> IF f \notin rsent THEN <<MsgInt("MSG_REDO", f)>> ELSE noSend
       [] recv_ok = -1 -> noSend

recv_file ==
  /\ RcvReady /\ HasData(s2r) /\ s2r.data[1].x.kind = "file"
  /\ s2r' = Take(s2r)
  /\ LET f == s2r.data[1].x.n
         v == s2r.data[1].x.v
     IN IF rphase = 2 \/ rpc # "loop" \/ ~Alive(rl, f)
        THEN Fail("transfer request") /\ UNCHANGED <<rout, dest, delayed, rsent, failed, bad, errs>>
        ELSE \/ \* verified
                /\ IF opt.delay_updates
                   THEN delayed' = [delayed EXCEPT ![f] = v] /\ UNCHANGED dest
                   ELSE dest' = [dest EXCEPT ![f] = v] /\ UNCHANGED delayed
                /\ rout' = ReportFor(f, IF opt.delay_updates THEN 2 ELSE 1)
                /\ UNCHANGED <<rsent, failed, bad, errs, err>>
             \/ \* failed verification
                /\ MayFail(f) /\ bad < MaxBad /\ bad' = bad + 1
                /\ rout' = ReportFor(f, 0)
                /\ rsent' = rsent \cup {f}
                /\ failed' = IF f \in rsent THEN failed \cup {f} ELSE failed
                /\ UNCHANGED <<dest, delayed, errs, err>>
             \/ \* the file cannot be opened, written or renamed
                /\ MayFail(f) /\ errs < MaxErr /\ errs' = errs + 1
                /\ rout' = ReportFor(f, -1)
                /\ failed' = failed \cup {f}
                /\ UNCHANGED <<dest, delayed, rsent, bad, err>>
  /\ UNCHANGED <<opt, source, g2s, r2g, gvars, hvars, svars, rpc, rl, rphase, edits>>

\* read_a_msg in the receiver
RcvMsg ==
  /\ rpc # "done" /\ gpc # "done" /\ s2r.msgs # <<>>
  /\ rout = <<>>
  /\ s2r' = TakeMsg(s2r)
  /\ rout' = <<[msg |-> TRUE, x |-> s2r.msgs[1]]>>
  /\ UNCHANGED <<opt, source, dest, g2s, r2g, gvars, hvars, svars, rpc, rl, rphase, rsent, delayed,
                 err, failed, env>>

\* The receiver's messages never wait for room.
RcvWrite ==
  /\ rout # <<>> /\ gpc # "done"
  /\ rout[1].msg \/ Len(r2g.data) < Cap
  /\ r2g' = Write(r2g, rout[1]) /\ rout' = Tail(rout)
  /\ UNCHANGED <<opt, source, dest, g2s, s2r, gvars, hvars, svars, rpc, rl, rphase, rsent, delayed,
                 err, failed, env>>

Receiver == RcvFlist \/ RcvDone \/ handle_delayed_updates \/ recv_file \/ RcvMsg \/ RcvWrite
----------------------------------------------------------------------------
\* Links of one file change together, unless one may be replaced.
SameInode(x, f) == ~ReplacedLinks /\ {x, f} \subseteq Group

\* Somebody changes or removes a source file during the transfer.
EditSource ==
  /\ edits < MaxEdit /\ edits' = edits + 1
  /\ spc = "loop"
  /\ \E f \in Files, v \in {Absent, Later} :
       /\ ~Gone(f) /\ (v = Absent => MayVanish(f))
       /\ source' = [x \in Files |-> IF x = f \/ (v = Later /\ SameInode(x, f) /\ source[x] = Listed)
                                     THEN v ELSE source[x]]
  /\ UNCHANGED <<opt, dest, g2s, s2r, r2g, gvars, hvars, svars, rvars, err, failed, bad, errs>>

Ended == gpc = "done" /\ spc = "done"
Finished == Ended /\ UNCHANGED vars

Next == Generator \/ Sender \/ Receiver \/ EditSource \/ Finished

Spec == Init /\ [][Next]_vars
----------------------------------------------------------------------------
(* Properties *)

\* From every file F_HL_PREV leads to an end: no loop of links.
ChainsEnd == \A f \in Files : Chains(hprev, f) # {}

\* The chains end, the counters of a list that is still open never go below
\* zero, and the streams hold no more than they can.
TypeOK ==
  /\ ChainsEnd
  /\ \A l \in 1..Lists : opt.inc_recurse => in_progress[l] >= 0 /\ to_redo[l] >= 0
  /\ Len(g2s.data) + Len(g2s.msgs) <= Cap /\ Len(s2r.data) + Len(s2r.msgs) <= Cap
  /\ dest \in [Files -> Absent..Newer] /\ source \in [Files -> {Absent, Listed, Later, Taken}]
  /\ sphase \in 0..3 /\ rphase \in 0..3 /\ msgdone_cnt \in 0..4

\* No process gets a request in the last phase, an index of a list that it
\* has freed, or a second name for a group of links: it would exit.
NoProtocolError == err = {}

\* When the generator ends, every file of the list is at the destination or
\* was reported: it failed, its source vanished or --update keeps it.
EveryFileSettled ==
  gpc = "done" => \A f \in Files :
    dest[f] \in {Listed, Later, Newer} \/ f \in failed \/ source[f] = Absent
      \/ (Linked(f) /\ \E e \in Group : e \in failed \/ source[e] = Absent \/ dest[e] = Newer)

\* The generator, whose exit code it decides, knows of every file that
\* vanished before its process ends.
VanishedIsReported == gpc = "done" => (sio_error => gio_error)

\* The transfer does what the abstract specification allows: destination
\* files only take versions of their source, and a source file is removed
\* only while the destination holds it.
Refinement == M!Spec

\* The processes never wait for each other in a circle, however little a
\* stream holds: until the transfer is over one of them can go on.
SomeoneCanGoOn == Ended \/ ENABLED (Generator \/ Sender \/ Receiver)

\* The three processes understand one another, and when the generator ends
\* every file is settled and every vanished one known.
TransferSettles == TypeOK /\ NoProtocolError /\ EveryFileSettled /\ VanishedIsReported
=============================================================================
