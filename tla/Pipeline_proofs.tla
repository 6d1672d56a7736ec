--------------------------- MODULE Pipeline_proofs ---------------------------
(***************************************************************************)
(* The transfer implements Mirror, for every number of files and file      *)
(* lists, every group of hard links, every capacity of the streams and     *)
(* every combination of options, as long as no name of a group of hard     *)
(* links comes to be another file during the transfer.                     *)
(***************************************************************************)
EXTENDS Pipeline, TLAPS, FiniteSetTheorems, WellFoundedInduction

\* Files whose list the generator has, those of them that are hard links,
\* and files that the destination has.
Arrived == {f \in Files : List(f) < gnext}
Chained == Group \cap Arrived
Held == {f \in Files : dest[f] \in {Listed, Later}}
\* Files whose source is no longer what was listed: of hard links, all.
Changed == {f \in Files : source[f] # Listed /\ (f \in Group => \A e \in Group : source[e] # Listed)}

\* What may be in the streams: requests only for files that the generator has,
\* a later version only of a file that changed, a success only for a file that
\* the destination holds.
Plain == [kind : {"NDX_DONE", "NDX_FLIST_EOF", "flist", "stats"}, n : Int, v : Int]
Asked(A) == Plain \cup [kind : {"request"}, n : A, v : Int]
Sent(A, C) == Plain \cup [kind : {"file"}, n : A, v : {Listed}] \cup [kind : {"file"}, n : A \cap C, v : {Later}]
Notes == [kind : {"MSG_IO_ERROR"}, n : Int] \cup [kind : {"MSG_NO_SEND"}, n : Files]
Wins(H) == [kind : {"MSG_SUCCESS"}, n : H]
Reports(A, H) == Notes \cup [kind : {"MSG_REDO"}, n : A] \cup Wins(A \cap H)

Out(d, m) == [msg : {FALSE}, x : d] \cup [msg : {TRUE}, x : m]
Stream(d, m) == [data : Seq([x : d, ahead : Int]), msgs : Seq(m)]
ToLink(A, H) == [n : Group \cap A \cap H, failed : {FALSE}] \cup [n : Files, failed : {TRUE}]

GenStreams(out, c, A, H) == out \in Seq(Out(Asked(A), Wins(H))) /\ c \in Stream(Asked(A), Wins(H))
SndStreams(out, c, A, C) == out \in Seq(Out(Sent(A, C), Notes)) /\ c \in Stream(Sent(A, C), Notes)
RcvStreams(out, c, A, H) == out \in Seq(Out(Plain, Reports(A, H))) /\ c \in Stream(Plain, Reports(A, H))

\* The versions: what is later than the list is so because somebody changed
\* the source, and a change reaches all names of a file.
Versions ==
  /\ source \in [Files -> {Absent, Listed, Later, Taken}]
  /\ dest \in [Files -> Absent..Newer]
  /\ delayed \in [Files -> {Absent, Listed, Later}]
  /\ \A f \in Files : dest[f] = Later \/ delayed[f] = Later => f \in Changed
  /\ \A f \in Files : delayed[f] # Absent => f \in Arrived
  /\ \A e, f \in Group : source[e] = Later => source[f] # Listed

\* The generator works on files of lists that it has.
Known(wk, rd, hl, A, H) ==
  wk \in Seq([f : A, redo : BOOLEAN]) /\ rd \in Seq(A) /\ hl \in Seq(ToLink(A, H))
Numbers ==
  /\ gnext \in Nat \ {0} /\ gl \in Seq({l \in Int : l < gnext}) /\ gcur \in Int /\ gcur < gnext
  /\ snext \in Nat

\* The hard links: a link that is done is held by the destination, and the
\* chain from it leads only to links that are done.
Links ==
  /\ hprev \in [Files -> Chained \cup {0}]
  /\ hdone \subseteq Chained \cap Held
  /\ \A f \in hdone : hprev[f] \in hdone \cup {0}
  /\ prior_hlinks \in [kind : {"none"}, n : {0}] \cup [kind : {"open"}, n : Chained] \cup [kind : {"named"}, n : hdone]

TransferInv ==
  /\ Versions /\ Numbers /\ Links
  /\ Known(work, redo_list, hlink_list, Arrived, Held)
  /\ GenStreams(gout, g2s, Arrived, Held)
  /\ SndStreams(sout, s2r, Arrived, Changed)
  /\ RcvStreams(rout, r2g, Arrived, Held)

----------------------------------------------------------------------------
(* Sets of files, chains and streams                                        *)

\* Files are finitely many numbers from 1 on, and lists have numbers.
LEMMA FilesFacts ==
  /\ N \in Nat \ {0} /\ Files = 1..N /\ IsFiniteSet(Files) /\ 0 \notin Files
  /\ Group \subseteq Files
  /\ \A f \in Files : List(f) \in Nat
<1>1. N \in Nat \ {0} /\ Lists \in Nat \ {0}
  BY PipelineAssumption
<1>2. IsFiniteSet(1..N)
  BY <1>1, FS_Interval
<1> QED
  BY <1>1, <1>2, PipelineAssumption DEF Files, List

\* What the chain from f can lead to: every set that is closed under it.
LEMMA BehindClosed ==
  ASSUME NEW hp, NEW f, NEW S \in SUBSET Files, hp[f] \in S \cup {0}, \A y \in S : hp[y] \in S \cup {0}
  PROVE  Behind(hp, f) \subseteq S
  BY DEF Behind

\* The chain is a sequence of files that are behind f.
LEMMA WaitingType ==
  ASSUME NEW hp, NEW f
  PROVE  Waiting(hp, f) \in Seq(Behind(hp, f)) /\ Behind(hp, f) \subseteq Files
<1>1. Behind(hp, f) \subseteq Files
  BY DEF Behind
<1>2. Cardinality(Behind(hp, f)) \in Nat
  BY <1>1, FilesFacts, FS_Subset, FS_CardinalityType
<1>3. Chains(hp, f) \subseteq Seq(Behind(hp, f))
  BY <1>2 DEF Chains, ChainsIn
<1> QED
  BY <1>1, <1>3 DEF Waiting, AnyOf

\* check_prior finds a file of the chain, or none.
LEMMA PriorType ==
  ASSUME NEW f
  PROVE  Prior(f) \in Behind(hprev, f) \cup {0}
<1>1. ASSUME NEW B, NEW s \in Seq(B)
      PROVE  Nearest(s) \in B \cup {0}
  <2> DEFINE P(i) == Alive(gl, s[i]) /\ ~Skipped(s[i]) /\ \A j \in 1..i - 1 : Skipped(s[j])
  <2>1. Nearest(s) = IF \E i \in DOMAIN s : P(i) THEN s[CHOOSE i \in DOMAIN s : P(i)] ELSE 0
    BY DEF Nearest
  <2> HIDE DEF P
  <2>2. CASE \E i \in DOMAIN s : P(i)
    <3>1. (CHOOSE i \in DOMAIN s : P(i)) \in DOMAIN s
      BY <2>2
    <3> QED
      BY <1>1, <2>1, <2>2, <3>1
  <2> QED
    BY <2>1, <2>2
<1> QED
  BY <1>1, WaitingType DEF Prior

\* A set of files has a highest member.
LEMMA HighestIn ==
  ASSUME NEW S \in SUBSET Files, S # {}
  PROVE  Highest(S) \in S
<1>0. IsFiniteSet(S)
  BY FilesFacts, FS_Subset
<1>1. S \subseteq Int /\ IsFiniteSet(S)
  BY <1>0, FilesFacts
<1> DEFINE Above(e) == {d \in S : d >= e}
           T == {Above(e) : e \in S}
           R == StrictSubsetOrdering(S)
<1>2. IsWellFoundedOn(R, SUBSET S)
  BY <1>1, FS_StrictSubsetOrderingWellFounded, FS_FiniteSubsetsOfFinite
<1>3. T \subseteq SUBSET S /\ T # {}
  OBVIOUS
<1>4. PICK x \in T : \A y \in T : ~(<<y, x>> \in R)
  <2> HIDE DEF T, R
  <2> QED
    BY <1>2, <1>3, WFMin
<1>5. PICK e \in S : x = Above(e)
  OBVIOUS
<1>6. ASSUME NEW d \in S, ~(d <= e)
      PROVE  FALSE
  <2>0. Above(d) \in T
    OBVIOUS
  <2>1. d \in Int /\ e \in Int /\ d > e
    BY <1>1, <1>6
  <2>3. e \in Above(e) /\ e \notin Above(d)
    BY <2>1
  <2>4. Above(d) \subseteq Above(e)
    <3> SUFFICES ASSUME NEW z \in S, z >= d PROVE z >= e
      OBVIOUS
    <3> QED
      BY <1>1, <2>1
  <2>2. <<Above(d), Above(e)>> \in R
    BY <2>3, <2>4 DEF StrictSubsetOrdering
  <2> QED
    BY <1>4, <1>5, <2>0, <2>2
<1>7. \A d \in S : d <= e
  BY <1>6
<1> QED
  BY <1>7 DEF Highest

\* A set of streams grows with the sets of what it carries.
LEMMA SeqGrows ==
  ASSUME NEW S, NEW T, S \subseteq T
  PROVE  Seq(S) \subseteq Seq(T)
  OBVIOUS

\* The same for streams, and for what waits to be written.
LEMMA StreamGrows ==
  ASSUME NEW d, NEW e, d \subseteq e, NEW m, NEW n, m \subseteq n
  PROVE  /\ Stream(d, m) \subseteq Stream(e, n)
         /\ Seq(Out(d, m)) \subseteq Seq(Out(e, n))
<1>1. [x : d, ahead : Int] \subseteq [x : e, ahead : Int]
  OBVIOUS
<1>2. Seq([x : d, ahead : Int]) \subseteq Seq([x : e, ahead : Int]) /\ Seq(m) \subseteq Seq(n)
  BY <1>1, SeqGrows
<1>3. Stream(d, m) \subseteq Stream(e, n)
  BY <1>2 DEF Stream
<1>4. Out(d, m) \subseteq Out(e, n)
  BY DEF Out
<1> QED
  BY <1>3, <1>4, SeqGrows

\* The parts of a sequence, and a longer one.
LEMMA SeqParts ==
  ASSUME NEW S, NEW s \in Seq(S)
  PROVE  /\ s # <<>> => s[1] \in S /\ Tail(s) \in Seq(S)
         /\ \A x \in S : Append(s, x) \in Seq(S)
         /\ Len(s) \in Nat
  OBVIOUS

\* Sequences of no and of one element.
LEMMA SeqShort ==
  ASSUME NEW S
  PROVE  <<>> \in Seq(S) /\ \A y \in S : <<y>> \in Seq(S)
  OBVIOUS

\* A stream with other data or other messages.
LEMMA StreamParts ==
  ASSUME NEW D1, NEW M1, NEW c \in [data : D1, msgs : M1]
  PROVE  /\ c.data \in D1 /\ c.msgs \in M1
         /\ \A a \in D1 : [c EXCEPT !.data = a] \in [data : D1, msgs : M1]
         /\ \A a \in M1 : [c EXCEPT !.msgs = a] \in [data : D1, msgs : M1]
  OBVIOUS

\* An item of data, and the same item when a message was read.
LEMMA ItemParts ==
  ASSUME NEW d, NEW r \in [x : d, ahead : Int]
  PROVE  /\ r.x \in d
         /\ [r EXCEPT !.ahead = IF @ > 0 THEN @ - 1 ELSE 0] \in [x : d, ahead : Int]
  OBVIOUS

\* What is read from a stream is what it carries, and so is what remains.
LEMMA StreamTake ==
  ASSUME NEW d, NEW m, NEW c \in Stream(d, m), c.data # <<>>
  PROVE  Take(c) \in Stream(d, m) /\ c.data[1].x \in d
<1> DEFINE R == [x : d, ahead : Int]
<1>0. c \in [data : Seq(R), msgs : Seq(m)] /\ Stream(d, m) = [data : Seq(R), msgs : Seq(m)]
  BY DEF Stream
<1>1. \A r \in R : r.x \in d
  BY ItemParts
<1> HIDE DEF R
<1>2. c.data \in Seq(R)
  BY <1>0, StreamParts
<1>3. Tail(c.data) \in Seq(R) /\ c.data[1] \in R
  BY <1>2, SeqParts
<1>4. Take(c) \in Stream(d, m)
  BY <1>0, <1>3, StreamParts DEF Take
<1> QED
  BY <1>1, <1>3, <1>4

\* The same for a message.
LEMMA StreamTakeMsg ==
  ASSUME NEW d, NEW m, NEW c \in Stream(d, m), c.msgs # <<>>
  PROVE  TakeMsg(c) \in Stream(d, m) /\ c.msgs[1] \in m
<1> DEFINE R == [x : d, ahead : Int]
           Less(r) == [r EXCEPT !.ahead = IF @ > 0 THEN @ - 1 ELSE 0]
<1>0. c \in [data : Seq(R), msgs : Seq(m)] /\ Stream(d, m) = [data : Seq(R), msgs : Seq(m)]
  BY DEF Stream
<1>1. \A r \in R : Less(r) \in R
  BY ItemParts
<1>2. TakeMsg(c) = [data |-> [i \in 1..Len(c.data) |-> Less(c.data[i])], msgs |-> Tail(c.msgs)]
  BY DEF TakeMsg
<1> HIDE DEF R, Less
<1>3. c.data \in Seq(R) /\ c.msgs \in Seq(m)
  BY <1>0, StreamParts
<1>4. Tail(c.msgs) \in Seq(m) /\ c.msgs[1] \in m
  BY <1>3, SeqParts
<1>5. [i \in 1..Len(c.data) |-> Less(c.data[i])] \in Seq(R)
  BY <1>1, <1>3
<1> QED
  BY <1>0, <1>2, <1>4, <1>5

\* What is written is then carried.
LEMMA StreamWrite ==
  ASSUME NEW d, NEW m, NEW c \in Stream(d, m), NEW s \in Seq(Out(d, m)), s # <<>>
  PROVE  Write(c, s[1]) \in Stream(d, m) /\ Tail(s) \in Seq(Out(d, m))
<1> DEFINE R == [x : d, ahead : Int]
<1>0. c \in [data : Seq(R), msgs : Seq(m)] /\ Stream(d, m) = [data : Seq(R), msgs : Seq(m)]
  BY DEF Stream
<1>1. s[1] \in Out(d, m) /\ Tail(s) \in Seq(Out(d, m))
  BY SeqParts
<1>2. \A n \in Int, y \in d : [x |-> y, ahead |-> n] \in R
  OBVIOUS
<1> HIDE DEF R
<1>3. c.data \in Seq(R) /\ c.msgs \in Seq(m) /\ Len(c.msgs) \in Int
  BY <1>0, StreamParts, SeqParts
<1>4. /\ \A a \in Seq(m) : [c EXCEPT !.msgs = a] \in Stream(d, m)
      /\ \A a \in Seq(R) : [c EXCEPT !.data = a] \in Stream(d, m)
  BY <1>0, StreamParts
<1>5. CASE s[1].msg
  <2>1. s[1].x \in m
    BY <1>1, <1>5 DEF Out
  <2>2. Append(c.msgs, s[1].x) \in Seq(m)
    BY <1>3, <2>1, SeqParts
  <2>3. Write(c, s[1]) = [c EXCEPT !.msgs = Append(c.msgs, s[1].x)]
    BY <1>5 DEF Write, Msg
  <2> QED
    BY <1>1, <1>4, <2>2, <2>3
<1>6. CASE ~s[1].msg
  <2>1. s[1].x \in d
    BY <1>1, <1>6 DEF Out
  <2>2. Append(c.data, [x |-> s[1].x, ahead |-> Len(c.msgs)]) \in Seq(R)
    BY <1>2, <1>3, <2>1, SeqParts
  <2>3. Write(c, s[1]) = [c EXCEPT !.data = Append(c.data, [x |-> s[1].x, ahead |-> Len(c.msgs)])]
    BY <1>6 DEF Write, Data
  <2> QED
    BY <1>1, <1>4, <2>2, <2>3
<1> QED
  BY <1>5, <1>6

\* What may wait to be written grows with what the stream may carry.
LEMMA OutGrows ==
  ASSUME NEW d, NEW e, d \subseteq e, NEW m, NEW n, m \subseteq n
  PROVE  Out(d, m) \subseteq Out(e, n)
  BY DEF Out

\* What the streams may carry grows with the files that arrived and are held.
LEMMA ItemsGrow ==
  ASSUME NEW A, NEW A1, A \subseteq A1, NEW H, NEW H1, H \subseteq H1
  PROVE  /\ Asked(A) \subseteq Asked(A1)
         /\ Sent(A, H) \subseteq Sent(A1, H1)
         /\ Wins(H) \subseteq Wins(H1)
         /\ Reports(A, H) \subseteq Reports(A1, H1)
         /\ ToLink(A, H) \subseteq ToLink(A1, H1)
<1>1. Asked(A) \subseteq Asked(A1)
  BY DEF Asked
<1>2. Sent(A, H) \subseteq Sent(A1, H1)
  BY DEF Sent
<1>3. Wins(H) \subseteq Wins(H1) /\ Wins(A \cap H) \subseteq Wins(A1 \cap H1)
  BY DEF Wins
<1>4. [kind : {"MSG_REDO"}, n : A] \subseteq [kind : {"MSG_REDO"}, n : A1]
  OBVIOUS
<1>5. Reports(A, H) \subseteq Reports(A1, H1)
  BY <1>3, <1>4 DEF Reports
<1>6. ToLink(A, H) \subseteq ToLink(A1, H1)
  BY DEF ToLink
<1> QED
  BY <1>1, <1>2, <1>3, <1>5, <1>6

\* The streams carry what they may while files arrive, are stored and change.
LEMMA CarriesGrow ==
  ASSUME NEW A, NEW A1, A \subseteq A1, NEW H, NEW H1, H \subseteq H1, NEW o, NEW c
  PROVE  /\ GenStreams(o, c, A, H) => GenStreams(o, c, A1, H1)
         /\ SndStreams(o, c, A, H) => SndStreams(o, c, A1, H1)
         /\ RcvStreams(o, c, A, H) => RcvStreams(o, c, A1, H1)
<1>1. GenStreams(o, c, A, H) => GenStreams(o, c, A1, H1)
  <2>1. Asked(A) \subseteq Asked(A1) /\ Wins(H) \subseteq Wins(H1)
    BY ItemsGrow
  <2>2. /\ Stream(Asked(A), Wins(H)) \subseteq Stream(Asked(A1), Wins(H1))
        /\ Seq(Out(Asked(A), Wins(H))) \subseteq Seq(Out(Asked(A1), Wins(H1)))
    BY <2>1, StreamGrows
  <2> QED
    BY <2>2 DEF GenStreams
<1>2. SndStreams(o, c, A, H) => SndStreams(o, c, A1, H1)
  <2>1. Sent(A, H) \subseteq Sent(A1, H1)
    BY ItemsGrow
  <2>2. /\ Stream(Sent(A, H), Notes) \subseteq Stream(Sent(A1, H1), Notes)
        /\ Seq(Out(Sent(A, H), Notes)) \subseteq Seq(Out(Sent(A1, H1), Notes))
    BY <2>1, StreamGrows
  <2> QED
    BY <2>2 DEF SndStreams
<1>3. RcvStreams(o, c, A, H) => RcvStreams(o, c, A1, H1)
  <2>1. Reports(A, H) \subseteq Reports(A1, H1)
    BY ItemsGrow
  <2>2. /\ Stream(Plain, Reports(A, H)) \subseteq Stream(Plain, Reports(A1, H1))
        /\ Seq(Out(Plain, Reports(A, H))) \subseteq Seq(Out(Plain, Reports(A1, H1)))
    BY <2>1, StreamGrows
  <2> QED
    BY <2>2 DEF RcvStreams
<1> QED
  BY <1>1, <1>2, <1>3

\* The same for the lists of the generator.
LEMMA KnownGrows ==
  ASSUME NEW A, NEW A1, A \subseteq A1, NEW H, NEW H1, H \subseteq H1, NEW wk, NEW rd, NEW hl,
         Known(wk, rd, hl, A, H)
  PROVE  Known(wk, rd, hl, A1, H1)
<1>1. [f : A, redo : BOOLEAN] \subseteq [f : A1, redo : BOOLEAN] /\ ToLink(A, H) \subseteq ToLink(A1, H1)
  BY ItemsGrow
<1> DEFINE W == [f : A, redo : BOOLEAN]
           W1 == [f : A1, redo : BOOLEAN]
<1>2. wk \in Seq(W) /\ rd \in Seq(A) /\ hl \in Seq(ToLink(A, H)) /\ W \subseteq W1
  BY <1>1 DEF Known
<1> SUFFICES wk \in Seq(W1) /\ rd \in Seq(A1) /\ hl \in Seq(ToLink(A1, H1))
  BY DEF Known
<1> HIDE DEF W, W1
<1> QED
  BY <1>1, <1>2, SeqGrows

\* Nothing changes for the streams while the versions and the lists stay.
LEMMA Frame ==
  ASSUME TransferInv, UNCHANGED <<opt, source, dest, delayed, gnext>>
  PROVE  Arrived' = Arrived /\ Chained' = Chained /\ Held' = Held /\ Changed' = Changed /\ Versions'
<1>1. Arrived' = Arrived
  BY DEF Arrived, List
<1>2. Chained' = Chained
  BY <1>1 DEF Chained
<1>3. Held' = Held /\ Changed' = Changed
  BY DEF Held, Changed
<1>4. Versions'
  BY <1>1, <1>3 DEF TransferInv, Versions
<1> QED
  BY <1>1, <1>2, <1>3, <1>4

\* The links stay as they are while nobody changes their flags.
LEMMA LinksFrame ==
  ASSUME TransferInv, UNCHANGED hvars, Chained \subseteq Chained', Held \subseteq Held'
  PROVE  Links'
  BY DEF TransferInv, Links, hvars

\* The items that the processes write are ones that the streams may carry.
LEMMA Items ==
  ASSUME NEW A, NEW C, NEW m
  PROVE  /\ Plain \subseteq Asked(A) /\ Plain \subseteq Sent(A, C)
         /\ \A k \in {"NDX_DONE", "NDX_FLIST_EOF", "flist", "stats"}, n \in Int : D(k, n, 0) \in Out(Plain, m)
         /\ Done \in Out(Asked(A), m) /\ Done \in Out(Plain, m)
         /\ \A f \in A : D("request", f, 0) \in Out(Asked(A), m)
<1>1. Plain \subseteq Asked(A) /\ Plain \subseteq Sent(A, C)
  BY DEF Asked, Sent
<1>2. \A k \in {"NDX_DONE", "NDX_FLIST_EOF", "flist", "stats"}, n \in Int : D(k, n, 0) \in Out(Plain, m)
  BY DEF D, Out, Plain
<1>3. Done \in Out(Plain, m)
  BY <1>2 DEF Done
<1>4. Done \in Out(Asked(A), m)
  BY <1>1, <1>3, OutGrows
<1>5. \A f \in A : D("request", f, 0) \in Out(Asked(A), m)
  BY DEF D, Out, Asked
<1> QED
  BY <1>1, <1>2, <1>3, <1>4, <1>5

\* The same for sequences of NDX_DONE.
LEMMA DoneSeq ==
  ASSUME NEW A, NEW m
  PROVE  LET S == Seq(Out(Asked(A), m)) IN <<>> \in S /\ <<Done>> \in S /\ \A n \in Nat : Dones(n) \in S
<1> DEFINE S == Out(Asked(A), m)
<1>1. Done \in S
  BY Items
<1> HIDE DEF S
<1>2. <<>> \in Seq(S) /\ <<Done>> \in Seq(S) /\ \A n \in Nat : Dones(n) \in Seq(S)
  BY <1>1 DEF Dones
<1> QED
  BY <1>2 DEF S
----------------------------------------------------------------------------
(* Steps that leave the files alone                                         *)

\* The generator writes to the sender.
LEMMA StepGenWrite ==
  ASSUME TransferInv, GenWrite
  PROVE  TransferInv' /\ UNCHANGED <<source, dest>>
<1>1. UNCHANGED <<opt, source, dest, delayed, gnext, hvars, gl, gcur, snext, work, redo_list, hlink_list,
                  sout, s2r, rout, r2g>>
  BY DEF GenWrite, svars, rvars
<1>2. GenStreams(gout', g2s', Arrived, Held)
  BY StreamWrite DEF GenWrite, TransferInv, GenStreams
<1> QED
  BY <1>1, <1>2, Frame, LinksFrame DEF TransferInv, Numbers

\* The sender writes to the receiver.
LEMMA StepSndWrite ==
  ASSUME TransferInv, SndWrite
  PROVE  TransferInv' /\ UNCHANGED <<source, dest>>
<1>1. UNCHANGED <<opt, source, dest, delayed, gnext, hvars, gl, gcur, snext, work, redo_list, hlink_list,
                  gout, g2s, rout, r2g>>
  BY DEF SndWrite, gvars, rvars
<1>2. SndStreams(sout', s2r', Arrived, Changed)
  BY StreamWrite DEF SndWrite, TransferInv, SndStreams
<1> QED
  BY <1>1, <1>2, Frame, LinksFrame DEF TransferInv, Numbers

\* The receiver writes to the generator.
LEMMA StepRcvWrite ==
  ASSUME TransferInv, RcvWrite
  PROVE  TransferInv' /\ UNCHANGED <<source, dest>>
<1>1. UNCHANGED <<opt, source, dest, delayed, gnext, hvars, gl, gcur, snext, work, redo_list, hlink_list,
                  gout, g2s, sout, s2r>>
  BY DEF RcvWrite, gvars, svars
<1>2. RcvStreams(rout', r2g', Arrived, Held)
  BY StreamWrite DEF RcvWrite, TransferInv, RcvStreams
<1> QED
  BY <1>1, <1>2, Frame, LinksFrame DEF TransferInv, Numbers

\* generate_files goes on to a file of a list that it has.
LEMMA StepGenerateFile ==
  ASSUME TransferInv, generate_file
  PROVE  TransferInv' /\ UNCHANGED <<source, dest>>
<1>1. UNCHANGED <<opt, source, dest, delayed, gnext, hvars, gl, gcur, snext, redo_list, hlink_list,
                  gout, g2s, sout, s2r, rout, r2g>>
  BY DEF generate_file, svars, rvars
<1>2. PICK f \in ToCome : work' = <<[f |-> f, redo |-> FALSE]>>
  BY DEF generate_file
<1>3. f \in Arrived
  BY DEF ToCome, MembersOf, Arrived, TransferInv, Numbers
<1>4. work' \in Seq([f : Arrived, redo : BOOLEAN])
  BY <1>2, <1>3
<1>5. Known(work', redo_list', hlink_list', Arrived, Held)
  BY <1>1, <1>4 DEF Known, TransferInv
<1> QED
  BY <1>1, <1>5, Frame, LinksFrame DEF TransferInv, Numbers

\* generate_files ends a list.
LEMMA StepListEnds ==
  ASSUME TransferInv, list_ends
  PROVE  TransferInv' /\ UNCHANGED <<source, dest>>
<1>1. UNCHANGED <<opt, source, dest, delayed, gnext, hvars, gl, gcur, snext, work, redo_list, hlink_list,
                  g2s, sout, s2r, rout, r2g>>
  BY DEF list_ends, svars, rvars
<1>2. gout' \in Seq(Out(Asked(Arrived), Wins(Held)))
  BY DoneSeq DEF list_ends
<1>3. GenStreams(gout', g2s', Arrived, Held)
  BY <1>1, <1>2 DEF GenStreams, TransferInv
<1> QED
  BY <1>1, <1>3, Frame, LinksFrame DEF TransferInv, Numbers

\* check_for_finished_files sends a file again that it has.
LEMMA StepFinishedRedo ==
  ASSUME TransferInv, finished_redo
  PROVE  TransferInv' /\ UNCHANGED <<source, dest>>
<1>1. UNCHANGED <<opt, source, dest, delayed, gnext, hvars, gl, gcur, snext, hlink_list,
                  gout, g2s, sout, s2r, rout, r2g>>
  BY DEF finished_redo, svars, rvars
<1>2. redo_list \in Seq(Arrived) /\ redo_list # <<>>
  BY DEF TransferInv, Known, finished_redo, RedoTurn
<1>3. redo_list[1] \in Arrived /\ Tail(redo_list) \in Seq(Arrived)
  BY <1>2, SeqParts
<1>4. work' \in Seq([f : Arrived, redo : BOOLEAN])
  BY <1>3 DEF finished_redo
<1>5. Known(work', redo_list', hlink_list', Arrived, Held)
  BY <1>1, <1>3, <1>4 DEF Known, TransferInv, finished_redo
<1> QED
  BY <1>1, <1>5, Frame, LinksFrame DEF TransferInv, Numbers

\* check_for_finished_files frees a list.
LEMMA StepFinishedList ==
  ASSUME TransferInv, finished_list
  PROVE  TransferInv' /\ UNCHANGED <<source, dest>>
<1>1. UNCHANGED <<opt, source, dest, delayed, gnext, hvars, gcur, snext, work, redo_list, hlink_list,
                  g2s, sout, s2r, rout, r2g>>
  BY DEF finished_list, svars, rvars
<1>2. gout' \in Seq(Out(Asked(Arrived), Wins(Held)))
  BY DoneSeq DEF finished_list
<1>3. GenStreams(gout', g2s', Arrived, Held)
  BY <1>1, <1>2 DEF GenStreams, TransferInv
<1>4. gl' \in Seq({l \in Int : l < gnext})
  BY SeqParts DEF finished_list, FreeTurn, TransferInv, Numbers
<1>5. Numbers'
  BY <1>1, <1>4 DEF TransferInv, Numbers
<1> QED
  BY <1>1, <1>3, <1>5, Frame, LinksFrame DEF TransferInv

\* generate_files goes on to the next list or phase.
LEMMA StepGenerateFiles ==
  ASSUME TransferInv, generate_files
  PROVE  TransferInv' /\ UNCHANGED <<source, dest>>
<1>1. UNCHANGED <<opt, source, dest, delayed, gnext, hvars, gl, snext, work, redo_list, hlink_list,
                  g2s, sout, s2r, rout, r2g>>
  BY DEF generate_files, svars, rvars
<1>2. \A n \in Nat : Dones(n) \in Seq(Out(Asked(Arrived), Wins(Held)))
  BY DoneSeq
<1>3. DoneAfterPhase1 \in Nat /\ DoneAfterPhase2 \in Nat /\ (IF opt.late_delete THEN 1 ELSE 0) \in Nat
  BY DEF DoneAfterPhase1, DoneAfterPhase2
<1>4. gout' = gout \/ \E n \in Nat : gout' = Dones(n)
  BY <1>3 DEF generate_files
<1>5. GenStreams(gout', g2s', Arrived, Held)
  BY <1>1, <1>2, <1>4 DEF GenStreams, TransferInv
<1>6. gcur' \in Int /\ gcur' < gnext
  <2>1. gl \in Seq({l \in Int : l < gnext}) /\ gnext \in Nat \ {0} /\ gcur \in Int /\ gcur < gnext
    BY DEF TransferInv, Numbers
  <2>2. \A i \in 1..Len(gl) : i < Len(gl) => gl[i + 1] \in Int /\ gl[i + 1] < gnext
    BY <2>1
  <2> QED
    BY <2>1, <2>2 DEF generate_files
<1>7. Numbers'
  BY <1>1, <1>6 DEF TransferInv, Numbers
<1> QED
  BY <1>1, <1>5, <1>7, Frame, LinksFrame DEF TransferInv

\* What the receiver may report, and for which files.
LEMMA ReportKinds ==
  ASSUME NEW A, NEW H, NEW m \in Reports(A, H)
  PROVE  \/ m.kind = "MSG_IO_ERROR"
         \/ m.kind = "MSG_NO_SEND" /\ m.n \in Files
         \/ m.kind = "MSG_REDO" /\ m.n \in A
         \/ m.kind = "MSG_SUCCESS" /\ m.n \in A \cap H
  BY DEF Reports, Notes, Wins

\* MSG_SUCCESS for files that the destination holds.
LEMMA SucceededType ==
  ASSUME NEW d, NEW H, NEW fs \in Seq(H)
  PROVE  Succeeded(fs) \in Seq(Out(d, Wins(H)))
<1> DEFINE S == Out(d, Wins(H))
<1>1. \A h \in H : MsgInt("MSG_SUCCESS", h) \in S
  BY DEF MsgInt, Out, Wins
<1> HIDE DEF S
<1>2. Succeeded(fs) \in Seq(S)
  BY <1>1 DEF Succeeded
<1> QED
  BY <1>2 DEF S

\* Sequences one after the other.
LEMMA SeqJoins ==
  ASSUME NEW S, NEW s \in Seq(S), NEW t \in Seq(S)
  PROVE  s \o t \in Seq(S)
  OBVIOUS

\* got_flist_entry_status: a success is passed on for a file that is held.
LEMMA StepGotStatus ==
  ASSUME TransferInv, got_flist_entry_status
  PROVE  TransferInv' /\ UNCHANGED <<source, dest>>
<1>1. UNCHANGED <<opt, source, dest, delayed, gnext, hvars, gl, gcur, snext, work, g2s, sout, s2r, rout>>
  BY DEF got_flist_entry_status, svars, rvars
<1> DEFINE m == r2g.msgs[1]
<1>2. r2g' \in Stream(Plain, Reports(Arrived, Held)) /\ m \in Reports(Arrived, Held)
  BY StreamTakeMsg DEF got_flist_entry_status, TransferInv, RcvStreams
<1>3. RcvStreams(rout', r2g', Arrived, Held)
  BY <1>1, <1>2 DEF TransferInv, RcvStreams
<1>4. \/ m.kind = "MSG_IO_ERROR"
      \/ m.kind = "MSG_NO_SEND" /\ m.n \in Files
      \/ m.kind = "MSG_REDO" /\ m.n \in Arrived
      \/ m.kind = "MSG_SUCCESS" /\ m.n \in Arrived \cap Held
  BY <1>2, ReportKinds
<1>5. /\ redo_list' # redo_list => m.kind = "MSG_REDO" /\ redo_list' = Append(redo_list, m.n)
      /\ gout' # gout => m.kind = "MSG_SUCCESS" /\ gout' = gout \o Succeeded(<<m.n>>)
      /\ hlink_list' # hlink_list =>
           /\ m.kind \notin {"MSG_IO_ERROR", "MSG_REDO"} /\ Linked(m.n)
           /\ hlink_list' = Append(hlink_list, [n |-> m.n, failed |-> m.kind = "MSG_NO_SEND"])
  <2>1. CASE m.kind = "MSG_IO_ERROR"
    BY <2>1 DEF got_flist_entry_status
  <2>2. CASE m.kind = "MSG_REDO"
    BY <2>2 DEF got_flist_entry_status
  <2>3. CASE m.kind \notin {"MSG_IO_ERROR", "MSG_REDO"}
    BY <2>3 DEF got_flist_entry_status
  <2> QED
    BY <2>1, <2>2, <2>3
<1> HIDE DEF m
<1>6. redo_list' \in Seq(Arrived)
  BY <1>4, <1>5, SeqParts DEF TransferInv, Known
<1>7. gout' \in Seq(Out(Asked(Arrived), Wins(Held)))
  <2>1. gout \in Seq(Out(Asked(Arrived), Wins(Held)))
    BY DEF TransferInv, GenStreams
  <2>2. ASSUME m.kind = "MSG_SUCCESS"
        PROVE  Succeeded(<<m.n>>) \in Seq(Out(Asked(Arrived), Wins(Held)))
    <3>1. <<m.n>> \in Seq(Held)
      BY <1>4, <2>2
    <3> QED
      BY <3>1, SucceededType
  <2> QED
    BY <1>5, <2>1, <2>2, SeqJoins
<1>8. hlink_list' \in Seq(ToLink(Arrived, Held))
  <2>1. hlink_list \in Seq(ToLink(Arrived, Held))
    BY DEF TransferInv, Known
  <2>2. ASSUME m.kind \notin {"MSG_IO_ERROR", "MSG_REDO"}, Linked(m.n)
        PROVE  [n |-> m.n, failed |-> m.kind = "MSG_NO_SEND"] \in ToLink(Arrived, Held)
    <3>1. CASE m.kind = "MSG_NO_SEND" /\ m.n \in Files
      BY <3>1 DEF ToLink
    <3>2. CASE m.kind = "MSG_SUCCESS" /\ m.n \in Arrived \cap Held
      BY <2>2, <3>2 DEF ToLink, Linked
    <3> QED
      BY <1>4, <2>2, <3>1, <3>2
  <2> QED
    BY <1>5, <2>1, <2>2, SeqParts
<1>9. Known(work', redo_list', hlink_list', Arrived, Held) /\ GenStreams(gout', g2s', Arrived, Held)
  BY <1>1, <1>6, <1>7, <1>8 DEF TransferInv, Known, GenStreams
<1> QED
  BY <1>1, <1>3, <1>9, Frame, LinksFrame DEF TransferInv, Numbers

\* The sender sends another file list.
LEMMA StepSendExtraFileList ==
  ASSUME TransferInv, send_extra_file_list
  PROVE  TransferInv' /\ UNCHANGED <<source, dest>>
<1>1. UNCHANGED <<opt, source, dest, delayed, gnext, hvars, gl, gcur, work, redo_list, hlink_list,
                  gout, g2s, s2r, rout, r2g>>
  BY DEF send_extra_file_list, gvars, rvars
<1>2. snext \in Nat /\ snext' \in Nat
  BY DEF TransferInv, Numbers, send_extra_file_list
<1> DEFINE S == Out(Sent(Arrived, Changed), Notes)
<1>3. D("flist", snext, 0) \in S /\ D("NDX_FLIST_EOF", 0, 0) \in S
  <2>1. D("flist", snext, 0) \in Out(Plain, Notes) /\ D("NDX_FLIST_EOF", 0, 0) \in Out(Plain, Notes)
    BY <1>2, Items
  <2>2. Out(Plain, Notes) \subseteq S
    BY Items, OutGrows
  <2> QED
    BY <2>1, <2>2
<1> HIDE DEF S
<1>4. sout' \in Seq(S)
  BY <1>3 DEF send_extra_file_list
<1>5. SndStreams(sout', s2r', Arrived, Changed)
  BY <1>1, <1>4 DEF S, SndStreams, TransferInv
<1>6. Numbers'
  BY <1>1, <1>2 DEF TransferInv, Numbers
<1> QED
  BY <1>1, <1>5, <1>6, Frame, LinksFrame DEF TransferInv

\* The sender reads NDX_DONE.
LEMMA StepSndDone ==
  ASSUME TransferInv, SndDone
  PROVE  TransferInv' /\ UNCHANGED <<source, dest>>
<1>1. UNCHANGED <<opt, source, dest, delayed, gnext, hvars, gl, gcur, snext, work, redo_list, hlink_list,
                  gout, s2r, rout, r2g>>
  BY DEF SndDone, gvars, rvars
<1>2. GenStreams(gout', g2s', Arrived, Held)
  BY <1>1, StreamTake DEF SndDone, HasData, TransferInv, GenStreams
<1> DEFINE S == Out(Sent(Arrived, Changed), Notes)
<1>3. Done \in S /\ D("stats", 0, 0) \in S
  <2>1. Done \in Out(Plain, Notes) /\ D("stats", 0, 0) \in Out(Plain, Notes)
    BY Items
  <2>2. Out(Plain, Notes) \subseteq S
    BY Items, OutGrows
  <2> QED
    BY <2>1, <2>2
<1>4. MsgInt("MSG_IO_ERROR", 0) \in S
  BY DEF MsgInt, Out, Notes
<1> HIDE DEF S
<1>5. FinalReport \in Seq(S) /\ <<Done, D("stats", 0, 0)>> \in Seq(S) /\ <<Done>> \in Seq(S) /\ <<>> \in Seq(S)
  BY <1>3, <1>4 DEF FinalReport
<1>6. FinalReport \o <<Done, D("stats", 0, 0)>> \in Seq(S)
  BY <1>5, SeqJoins
<1>7. sout' \in {<<Done>>, <<>>, FinalReport \o <<Done, D("stats", 0, 0)>>}
  BY DEF SndDone
<1>8. sout' \in Seq(S)
  BY <1>5, <1>6, <1>7
<1>9. SndStreams(sout', s2r', Arrived, Changed)
  BY <1>1, <1>8 DEF S, SndStreams, TransferInv
<1> QED
  BY <1>1, <1>2, <1>9, Frame, LinksFrame DEF TransferInv, Numbers

\* A later version that is sent is one that the source has.
LEMMA StepSendFile ==
  ASSUME TransferInv, send_file
  PROVE  TransferInv' /\ UNCHANGED <<source, dest>>
<1>1. UNCHANGED <<opt, source, dest, delayed, gnext, hvars, gl, gcur, snext, work, redo_list, hlink_list,
                  gout, s2r, rout, r2g>>
  BY DEF send_file, gvars, rvars
<1> DEFINE f == g2s.data[1].x.n
           S == Out(Sent(Arrived, Changed), Notes)
<1>2. g2s.data[1].x \in Asked(Arrived) /\ g2s' \in Stream(Asked(Arrived), Wins(Held))
  BY StreamTake DEF send_file, HasData, TransferInv, GenStreams
<1>3. f \in Arrived /\ f \in Files
  BY <1>2 DEF send_file, Asked, Plain, Arrived
<1>4. \/ sout' = sout \/ sout' = <<MsgInt("MSG_NO_SEND", f)>>
      \/ sout' = <<D("file", f, source[f])>> /\ ~Gone(f)
  BY DEF send_file
<1> HIDE DEF f
<1>5. MsgInt("MSG_NO_SEND", f) \in S
  BY <1>3 DEF MsgInt, Out, Notes
<1>6. ASSUME ~Gone(f)
      PROVE  D("file", f, source[f]) \in S
  <2>1. source[f] \in {Listed, Later}
    BY <1>3, <1>6 DEF Gone, TransferInv, Versions
  <2>2. source[f] = Later => f \in Changed
    BY <1>3 DEF TransferInv, Versions, Changed, Later, Listed
  <2>3. [kind |-> "file", n |-> f, v |-> source[f]] \in Sent(Arrived, Changed)
    BY <1>3, <2>1, <2>2 DEF Sent
  <2> QED
    BY <2>3 DEF D, Out
<1> HIDE DEF S
<1>7. sout' \in Seq(S)
  <2>1. sout \in Seq(S)
    BY DEF S, TransferInv, SndStreams
  <2>2. \A y \in S : <<y>> \in Seq(S)
    OBVIOUS
  <2> QED
    BY <1>4, <1>5, <1>6, <2>1, <2>2
<1>8. SndStreams(sout', s2r', Arrived, Changed) /\ GenStreams(gout', g2s', Arrived, Held)
  BY <1>1, <1>2, <1>7 DEF S, SndStreams, GenStreams, TransferInv
<1> QED
  BY <1>1, <1>8, Frame, LinksFrame DEF TransferInv, Numbers

\* The receiver passes a file list on.
LEMMA StepRcvFlist ==
  ASSUME TransferInv, RcvFlist
  PROVE  TransferInv' /\ UNCHANGED <<source, dest>>
<1>1. UNCHANGED <<opt, source, dest, delayed, gnext, hvars, gl, gcur, snext, work, redo_list, hlink_list,
                  gout, g2s, sout, r2g>>
  BY DEF RcvFlist, gvars, svars
<1> DEFINE x == s2r.data[1].x
<1>2. x \in Sent(Arrived, Changed) /\ s2r' \in Stream(Sent(Arrived, Changed), Notes)
  BY StreamTake DEF RcvFlist, HasData, TransferInv, SndStreams
<1>3. x \in Plain
  BY <1>2 DEF RcvFlist, Sent
<1>4. rout' \in Seq(Out(Plain, Reports(Arrived, Held)))
  <2>1. [msg |-> FALSE, x |-> x] \in Out(Plain, Reports(Arrived, Held))
    BY <1>3 DEF Out
  <2>2. rout' = <<[msg |-> FALSE, x |-> x]>>
    BY DEF RcvFlist
  <2> QED
    BY <2>1, <2>2
<1>5. RcvStreams(rout', r2g', Arrived, Held) /\ SndStreams(sout', s2r', Arrived, Changed)
  BY <1>1, <1>2, <1>4 DEF RcvStreams, SndStreams, TransferInv
<1> QED
  BY <1>1, <1>5, Frame, LinksFrame DEF TransferInv, Numbers

\* The receiver reads NDX_DONE.
LEMMA StepRcvDone ==
  ASSUME TransferInv, RcvDone
  PROVE  TransferInv' /\ UNCHANGED <<source, dest>>
<1>1. UNCHANGED <<opt, source, dest, delayed, gnext, hvars, gl, gcur, snext, work, redo_list, hlink_list,
                  gout, g2s, sout, r2g>>
  BY DEF RcvDone, gvars, svars
<1>2. s2r' \in Stream(Sent(Arrived, Changed), Notes)
  BY StreamTake DEF RcvDone, HasData, TransferInv, SndStreams
<1>3. rout' \in {rout, <<>>, <<Done>>}
  BY DEF RcvDone
<1>4. rout' \in Seq(Out(Plain, Reports(Arrived, Held)))
  <2> DEFINE S == Out(Plain, Reports(Arrived, Held))
  <2>1. Done \in S /\ rout \in Seq(S)
    BY Items DEF TransferInv, RcvStreams
  <2> HIDE DEF S
  <2>2. <<>> \in Seq(S) /\ <<Done>> \in Seq(S)
    BY <2>1
  <2>3. rout' \in Seq(S)
    BY <1>3, <2>1, <2>2
  <2> QED
    BY <2>3 DEF S
<1>5. RcvStreams(rout', r2g', Arrived, Held) /\ SndStreams(sout', s2r', Arrived, Changed)
  BY <1>1, <1>2, <1>4 DEF RcvStreams, SndStreams, TransferInv
<1> QED
  BY <1>1, <1>5, Frame, LinksFrame DEF TransferInv, Numbers

\* The receiver passes a message on.
LEMMA StepRcvMsg ==
  ASSUME TransferInv, RcvMsg
  PROVE  TransferInv' /\ UNCHANGED <<source, dest>>
<1>1. UNCHANGED <<opt, source, dest, delayed, gnext, hvars, gl, gcur, snext, work, redo_list, hlink_list,
                  gout, g2s, sout, r2g>>
  BY DEF RcvMsg, gvars, svars
<1> DEFINE x == s2r.msgs[1]
<1>2. x \in Notes /\ s2r' \in Stream(Sent(Arrived, Changed), Notes)
  BY StreamTakeMsg DEF RcvMsg, TransferInv, SndStreams
<1>3. [msg |-> TRUE, x |-> x] \in Out(Plain, Reports(Arrived, Held))
  BY <1>2 DEF Out, Reports
<1>4. rout' \in Seq(Out(Plain, Reports(Arrived, Held)))
  BY <1>3 DEF RcvMsg
<1>5. RcvStreams(rout', r2g', Arrived, Held) /\ SndStreams(sout', s2r', Arrived, Changed)
  BY <1>1, <1>2, <1>4 DEF RcvStreams, SndStreams, TransferInv
<1> QED
  BY <1>1, <1>5, Frame, LinksFrame DEF TransferInv, Numbers
----------------------------------------------------------------------------
(* Steps that change files                                                  *)

\* What a step may do to the destination, and to the files that are kept for
\* a delayed update, and what remains true of the versions.
LEMMA DestFrame ==
  ASSUME TransferInv, UNCHANGED <<opt, source, gnext>>,
         dest' \in [Files -> Absent..Newer],
         \A f \in Files : dest'[f] = dest[f] \/ dest'[f] = Listed \/ (dest'[f] = Later /\ f \in Changed),
         delayed' \in [Files -> {Absent, Listed, Later}],
         \A f \in Files : \/ delayed'[f] = delayed[f] \/ delayed'[f] = Absent
                          \/ f \in Arrived /\ (delayed'[f] = Listed \/ (delayed'[f] = Later /\ f \in Changed))
  PROVE  /\ Arrived' = Arrived /\ Chained' = Chained /\ Held \subseteq Held' /\ Changed' = Changed
         /\ Versions' /\ M!Next
<1>1. Arrived' = Arrived
  BY DEF Arrived, List
<1>2. Chained' = Chained
  BY <1>1 DEF Chained
<1>3. Changed' = Changed
  BY DEF Changed
<1>4. Held \subseteq Held'
  BY DEF Held
<1>5. M!Update
  BY DEF M!Update, M!Absent, M!Newer, M!Listed, M!Later, Absent, Newer, Listed, Later
<1>6. Versions'
  BY <1>1, <1>3 DEF TransferInv, Versions, Absent, Listed, Later
<1> QED
  BY <1>1, <1>2, <1>3, <1>4, <1>5, <1>6 DEF M!Next

\* What a step may do to the source, and what remains true of the versions.
LEMMA SourceFrame ==
  ASSUME TransferInv, UNCHANGED <<opt, dest, delayed, gnext>>,
         source' \in [Files -> {Absent, Listed, Later, Taken}],
         \A f \in Files : source'[f] = Listed => source[f] = Listed,
         \A e, f \in Group : source'[e] = Later => source'[f] # Listed
  PROVE  /\ Arrived' = Arrived /\ Chained' = Chained /\ Held' = Held /\ Changed \subseteq Changed'
         /\ Versions'
<1>1. Arrived' = Arrived
  BY DEF Arrived, List
<1>2. Chained' = Chained
  BY <1>1 DEF Chained
<1>3. Changed \subseteq Changed'
  BY FilesFacts DEF Changed
<1>4. Held' = Held
  BY DEF Held
<1>5. Versions'
  BY <1>1, <1>3 DEF TransferInv, Versions
<1> QED
  BY <1>1, <1>2, <1>3, <1>4, <1>5

\* rsync removes a source file that the destination holds: the destination
\* has what was listed, as a later version would mean that the source changed.
LEMMA StepSuccessfulSend ==
  ASSUME TransferInv, successful_send
  PROVE  TransferInv' /\ (M!Next \/ UNCHANGED <<source, dest>>)
<1>1. UNCHANGED <<opt, dest, delayed, gnext, hvars, gl, gcur, snext, work, redo_list, hlink_list,
                  gout, sout, s2r, rout, r2g>>
  BY DEF successful_send, gvars, svars, rvars
<1> DEFINE f == g2s.msgs[1].n
<1>2. g2s.msgs[1] \in Wins(Held) /\ g2s' \in Stream(Asked(Arrived), Wins(Held))
  BY StreamTakeMsg DEF successful_send, TransferInv, GenStreams
<1>3. f \in Held
  BY <1>2 DEF Wins
<1>4. source' = IF source[f] = Listed THEN [source EXCEPT ![f] = Taken] ELSE source
  BY DEF successful_send
<1> HIDE DEF f
<1>5. f \in Files /\ dest[f] \in {Listed, Later} /\ source \in [Files -> {Absent, Listed, Later, Taken}]
  BY <1>3 DEF Held, TransferInv, Versions
<1>6. source[f] = Listed => dest[f] = Listed
  BY <1>5 DEF TransferInv, Versions, Changed
<1>7. M!Next \/ UNCHANGED <<source, dest>>
  <2>1. CASE source[f] = Listed
    <3>1. M!Remove(f)
      BY <1>1, <1>4, <1>5, <1>6, <2>1 DEF M!Remove, M!Listed, M!Later, M!Taken, Listed, Taken
    <3> QED
      BY <1>5, <3>1 DEF M!Next
  <2>2. CASE source[f] # Listed
    BY <1>1, <1>4, <2>2
  <2> QED
    BY <2>1, <2>2
<1>8. /\ source' \in [Files -> {Absent, Listed, Later, Taken}]
      /\ \A e \in Files : source'[e] = Listed => source[e] = Listed
      /\ \A e \in Files : source'[e] = Later => source[e] = Later
  BY <1>4, <1>5 DEF Absent, Listed, Later, Taken
<1>9. \A d, e \in Group : source'[d] = Later => source'[e] # Listed
  BY <1>8, FilesFacts DEF TransferInv, Versions
<1>10. Arrived' = Arrived /\ Chained' = Chained /\ Held' = Held /\ Changed \subseteq Changed' /\ Versions'
  BY <1>1, <1>8, <1>9, SourceFrame
<1>11. SndStreams(sout', s2r', Arrived', Changed')
  BY <1>1, <1>10, CarriesGrow DEF TransferInv
<1>12. GenStreams(gout', g2s', Arrived', Held')
  BY <1>1, <1>2, <1>10 DEF TransferInv, GenStreams
<1> QED
  BY <1>1, <1>7, <1>10, <1>11, <1>12, LinksFrame DEF TransferInv, Numbers

\* Somebody changes the source: all names of a file change together.
LEMMA StepEditSource ==
  ASSUME TransferInv, ~ReplacedLinks, EditSource
  PROVE  TransferInv' /\ M!Next
<1>1. UNCHANGED <<opt, dest, delayed, gnext, hvars, gl, gcur, snext, work, redo_list, hlink_list,
                  gout, g2s, sout, s2r, rout, r2g>>
  BY DEF EditSource, gvars, svars, rvars
<1>2. PICK f \in Files, v \in {Absent, Later} :
        /\ ~Gone(f)
        /\ source' = [x \in Files |-> IF x = f \/ (v = Later /\ SameInode(x, f) /\ source[x] = Listed)
                                      THEN v ELSE source[x]]
  BY DEF EditSource
<1>3. source \in [Files -> {Absent, Listed, Later, Taken}] /\ source[f] \in {Listed, Later}
  BY <1>2 DEF TransferInv, Versions, Gone
<1>4. /\ source' \in [Files -> {Absent, Listed, Later, Taken}]
      /\ \A e \in Files : source'[e] = Listed => source[e] = Listed
      /\ \A e \in Files : source'[e] = source[e] \/ (source[e] \in {Listed, Later} /\ source'[e] \in {Absent, Later})
  BY <1>2, <1>3 DEF Absent, Listed, Later, Taken
<1>5. \A d, e \in Group : source'[d] = Later => source'[e] # Listed
  <2> SUFFICES ASSUME NEW d \in Group, NEW e \in Group, source'[d] = Later, source'[e] = Listed
               PROVE  FALSE
    OBVIOUS
  <2>1. d \in Files /\ e \in Files /\ source[e] = Listed
    BY <1>4, FilesFacts
  <2>2. source[d] # Later
    BY <2>1 DEF TransferInv, Versions
  <2>3. v = Later /\ (d = f \/ SameInode(d, f))
    BY <1>2, <2>1, <2>2
  <2>4. f \in Group
    BY <2>3 DEF SameInode
  <2>5. SameInode(e, f)
    BY <2>4 DEF SameInode
  <2> QED
    BY <1>2, <2>1, <2>3, <2>5 DEF Listed, Later
<1>6. M!Edit
  BY <1>1, <1>4 DEF M!Edit, M!Absent, M!Listed, M!Later, M!Taken, Absent, Listed, Later, Taken
<1>7. Arrived' = Arrived /\ Chained' = Chained /\ Held' = Held /\ Changed \subseteq Changed' /\ Versions'
  BY <1>1, <1>4, <1>5, SourceFrame
<1>8. SndStreams(sout', s2r', Arrived', Changed')
  BY <1>1, <1>7, CarriesGrow DEF TransferInv
<1> QED
  BY <1>1, <1>6, <1>7, <1>8, LinksFrame DEF TransferInv, Numbers, M!Next

\* The receiver stores a version that the sender read.
LEMMA StepRecvFile ==
  ASSUME TransferInv, recv_file
  PROVE  TransferInv' /\ (M!Next \/ UNCHANGED <<source, dest>>)
<1>1. UNCHANGED <<opt, source, gnext, hvars, gl, gcur, snext, work, redo_list, hlink_list,
                  gout, g2s, sout, r2g>>
  BY DEF recv_file, gvars, svars
<1> DEFINE x == s2r.data[1].x
           f == x.n
           v == x.v
<1>2. x \in Sent(Arrived, Changed) /\ s2r' \in Stream(Sent(Arrived, Changed), Notes) /\ x.kind = "file"
  BY StreamTake DEF recv_file, HasData, TransferInv, SndStreams
<1>3. f \in Arrived /\ f \in Files /\ (v = Listed \/ (v = Later /\ f \in Changed))
  BY <1>2 DEF Sent, Plain, Arrived
<1>4. \/ /\ UNCHANGED <<dest, delayed>>
         /\ rout' \in {rout, ReportFor(f, 0), ReportFor(f, -1)}
      \/ /\ UNCHANGED dest /\ delayed' = [delayed EXCEPT ![f] = v]
         /\ rout' = ReportFor(f, 2)
      \/ /\ UNCHANGED delayed /\ dest' = [dest EXCEPT ![f] = v]
         /\ rout' = ReportFor(f, 1)
  BY DEF recv_file
<1> HIDE DEF x, f, v
<1>5. dest \in [Files -> Absent..Newer] /\ delayed \in [Files -> {Absent, Listed, Later}]
  BY DEF TransferInv, Versions
<1>6. /\ dest' \in [Files -> Absent..Newer]
      /\ \A e \in Files : dest'[e] = dest[e] \/ dest'[e] = Listed \/ (dest'[e] = Later /\ e \in Changed)
  BY <1>3, <1>4, <1>5 DEF Absent, Listed, Later, Newer
<1>7. /\ delayed' \in [Files -> {Absent, Listed, Later}]
      /\ \A e \in Files : \/ delayed'[e] = delayed[e]
                          \/ e \in Arrived /\ (delayed'[e] = Listed \/ (delayed'[e] = Later /\ e \in Changed))
  BY <1>3, <1>4, <1>5
<1>8. /\ Arrived' = Arrived /\ Chained' = Chained /\ Held \subseteq Held' /\ Changed' = Changed
      /\ Versions' /\ M!Next
  BY <1>1, <1>6, <1>7, DestFrame
<1> DEFINE S == Out(Plain, Reports(Arrived, Held'))
<1>9. rout' \in Seq(S)
  <2>1. rout \in Seq(S)
    BY <1>8, CarriesGrow DEF TransferInv, RcvStreams
  <2>2. MsgInt("MSG_NO_SEND", f) \in S /\ MsgInt("MSG_REDO", f) \in S
    BY <1>3 DEF MsgInt, Out, Reports, Notes
  <2>3. dest' = [dest EXCEPT ![f] = v] => MsgInt("MSG_SUCCESS", f) \in S
    <3>1. ASSUME dest' = [dest EXCEPT ![f] = v]
          PROVE  MsgInt("MSG_SUCCESS", f) \in S
      <4>1. f \in Arrived \cap Held'
        BY <1>3, <1>5, <3>1 DEF Held
      <4>2. [kind |-> "MSG_SUCCESS", n |-> f] \in Reports(Arrived, Held')
        BY <4>1 DEF Reports, Wins
      <4> QED
        BY <4>2 DEF MsgInt, Out
    <3> QED
      BY <3>1
  <2> HIDE DEF S
  <2>4. <<>> \in Seq(S) /\ \A y \in S : <<y>> \in Seq(S)
    OBVIOUS
  <2>5. /\ ReportFor(f, 0) \in Seq(S) /\ ReportFor(f, -1) \in Seq(S) /\ ReportFor(f, 2) \in Seq(S)
        /\ dest' = [dest EXCEPT ![f] = v] => ReportFor(f, 1) \in Seq(S)
    BY <2>2, <2>3, <2>4 DEF ReportFor
  <2> QED
    BY <1>4, <2>1, <2>5
<1>10. RcvStreams(rout', r2g', Arrived', Held')
  <2>1. RcvStreams(rout, r2g, Arrived, Held')
    BY <1>8, CarriesGrow DEF TransferInv
  <2> QED
    BY <1>1, <1>8, <1>9, <2>1 DEF RcvStreams
<1>11. GenStreams(gout', g2s', Arrived', Held') /\ Known(work', redo_list', hlink_list', Arrived', Held')
  BY <1>1, <1>8, CarriesGrow, KnownGrows DEF TransferInv
<1>12. SndStreams(sout', s2r', Arrived', Changed')
  BY <1>1, <1>2, <1>8 DEF SndStreams, TransferInv
<1> QED
  BY <1>1, <1>8, <1>10, <1>11, <1>12, LinksFrame DEF TransferInv, Numbers

\* A delayed update puts a version in place that the sender read.
LEMMA StepDelayedUpdates ==
  ASSUME TransferInv, handle_delayed_updates
  PROVE  TransferInv' /\ (M!Next \/ UNCHANGED <<source, dest>>)
<1>1. UNCHANGED <<opt, source, gnext, hvars, gl, gcur, snext, work, redo_list, hlink_list,
                  gout, g2s, sout, s2r, r2g>>
  BY DEF handle_delayed_updates, gvars, svars
<1>2. dest \in [Files -> Absent..Newer] /\ delayed \in [Files -> {Absent, Listed, Later}]
  BY DEF TransferInv, Versions
<1>3. CASE UNCHANGED <<dest, delayed>> /\ rout' = <<Done>>
  <2>1. rout' \in Seq(Out(Plain, Reports(Arrived, Held)))
    <3> DEFINE S == Out(Plain, Reports(Arrived, Held))
    <3>1. Done \in S
      BY Items
    <3> HIDE DEF S
    <3>2. rout' \in Seq(S)
      BY <1>3, <3>1
    <3> QED
      BY <3>2 DEF S
  <2>2. RcvStreams(rout', r2g', Arrived, Held)
    BY <1>1, <2>1 DEF RcvStreams, TransferInv
  <2> QED
    BY <1>1, <1>3, <2>2, Frame, LinksFrame DEF TransferInv, Numbers
<1>4. ASSUME NEW f \in Files, delayed[f] # Absent, dest' = [dest EXCEPT ![f] = delayed[f]],
             delayed' = [delayed EXCEPT ![f] = Absent],
             rout' = <<MsgInt("MSG_SUCCESS", f)>> \/ rout' = <<>>
      PROVE  TransferInv' /\ (M!Next \/ UNCHANGED <<source, dest>>)
  <2>1. f \in Arrived /\ (delayed[f] = Listed \/ (delayed[f] = Later /\ f \in Changed))
    BY <1>2, <1>4 DEF TransferInv, Versions
  <2>2. /\ dest' \in [Files -> Absent..Newer]
        /\ \A e \in Files : dest'[e] = dest[e] \/ dest'[e] = Listed \/ (dest'[e] = Later /\ e \in Changed)
    BY <1>2, <1>4, <2>1 DEF Absent, Listed, Later, Newer
  <2>3. /\ delayed' \in [Files -> {Absent, Listed, Later}]
        /\ \A e \in Files : delayed'[e] = delayed[e] \/ delayed'[e] = Absent
    BY <1>2, <1>4
  <2>4. /\ Arrived' = Arrived /\ Chained' = Chained /\ Held \subseteq Held' /\ Changed' = Changed
        /\ Versions' /\ M!Next
    BY <1>1, <2>2, <2>3, DestFrame
  <2>5. rout' \in Seq(Out(Plain, Reports(Arrived, Held')))
    <3> DEFINE S == Out(Plain, Reports(Arrived, Held'))
    <3>1. f \in Arrived \cap Held'
      BY <1>2, <1>4, <2>1 DEF Held
    <3>2. [kind |-> "MSG_SUCCESS", n |-> f] \in Reports(Arrived, Held')
      BY <3>1 DEF Reports, Wins
    <3>3. MsgInt("MSG_SUCCESS", f) \in S
      BY <3>2 DEF MsgInt, Out
    <3> HIDE DEF S
    <3>4. rout' \in Seq(S)
      BY <1>4, <3>3, SeqShort
    <3> QED
      BY <3>4 DEF S
  <2>6. RcvStreams(rout', r2g', Arrived', Held')
    <3>1. RcvStreams(rout, r2g, Arrived, Held')
      BY <2>4, CarriesGrow DEF TransferInv
    <3> QED
      BY <1>1, <2>4, <2>5, <3>1 DEF RcvStreams
  <2>7. GenStreams(gout', g2s', Arrived', Held') /\ Known(work', redo_list', hlink_list', Arrived', Held')
    BY <1>1, <2>4, CarriesGrow, KnownGrows DEF TransferInv
  <2> QED
    BY <1>1, <2>4, <2>6, <2>7, LinksFrame DEF TransferInv, Numbers
<1> QED
  BY <1>3, <1>4 DEF handle_delayed_updates

\* A new file list: its links join the chain, and none of them is done.
LEMMA StepWaitForReceiver ==
  ASSUME TransferInv, wait_for_receiver
  PROVE  TransferInv' /\ UNCHANGED <<source, dest>>
<1>1. UNCHANGED <<opt, source, dest, delayed, hdone, gcur, snext, work, redo_list, hlink_list,
                  gout, g2s, sout, s2r, rout>>
  BY DEF wait_for_receiver, svars, rvars
<1>2. r2g' \in Stream(Plain, Reports(Arrived, Held))
  BY StreamTake DEF wait_for_receiver, HasData, TransferInv, RcvStreams
<1>3. RcvStreams(rout', r2g', Arrived, Held)
  BY <1>1, <1>2 DEF TransferInv, RcvStreams
<1>4. CASE UNCHANGED <<gnext, gl, hprev, hfirst, hlast, prior_hlinks>>
  <2>1. UNCHANGED hvars
    BY <1>4 DEF wait_for_receiver, hvars
  <2> QED
    BY <1>1, <1>3, <1>4, <2>1, Frame, LinksFrame DEF TransferInv, Numbers
<1> DEFINE h0 == [prev |-> hprev, first |-> hfirst, last |-> hlast, prior |-> prior_hlinks]
           h == match_gnums(h0, gl, gnext)
<1>5. CASE gl' = Append(gl, gnext) /\ gnext' = gnext + 1 /\ hprev' = h.prev /\ prior_hlinks' = h.prior
  <2>1. gnext \in Nat \ {0} /\ gl \in Seq({l \in Int : l < gnext}) /\ gcur \in Int /\ gcur < gnext /\ snext \in Nat
    BY DEF TransferInv, Numbers
  <2>2. gl' \in Seq({l \in Int : l < gnext'})
    <3>1. {l \in Int : l < gnext} \subseteq {l \in Int : l < gnext'} /\ gnext \in {l \in Int : l < gnext'}
      BY <1>5, <2>1
    <3> DEFINE S == {l \in Int : l < gnext'}
    <3>2. gl \in Seq(S) /\ gnext \in S
      BY <2>1, <3>1, SeqGrows
    <3> HIDE DEF S
    <3>3. Append(gl, gnext) \in Seq(S)
      BY <3>2, SeqParts
    <3> QED
      BY <1>5, <3>3 DEF S
  <2>3. Numbers'
    BY <1>1, <1>5, <2>1, <2>2 DEF Numbers
  <2>4. Arrived' = {f \in Files : List(f) < gnext + 1}
    BY <1>1, <1>5 DEF Arrived, List
  <2>5. Arrived \subseteq Arrived'
    BY <2>1, <2>4, FilesFacts DEF Arrived
  <2>6. Held' = Held /\ Changed' = Changed
    BY <1>1 DEF Held, Changed
  <2>7. Versions'
    BY <1>1, <2>5, <2>6 DEF TransferInv, Versions
  <2> DEFINE ms == HardLinked(gnext)
             old == IF prior_hlinks.kind = "open" /\ Alive(gl, prior_hlinks.n) THEN prior_hlinks.n ELSE 0
  <2>8. ms \subseteq Chained' /\ ms \cap Arrived = {} /\ ms \subseteq Files
    BY <2>1, <2>4, FilesFacts DEF HardLinked, MembersOf, Linked, Chained, Arrived
  <2>9. Chained \subseteq Chained'
    BY <2>5 DEF Chained
  <2>10. old \in Chained' \cup {0}
    BY <2>9 DEF TransferInv, Links
  <2>11. ASSUME ms = {} PROVE Links'
    <3>1. hprev' = hprev /\ prior_hlinks' = prior_hlinks
      BY <1>5, <2>11 DEF match_gnums
    <3> QED
      BY <1>1, <2>6, <2>9, <3>1 DEF TransferInv, Links
  <2>12. ASSUME ms # {} PROVE Links'
    <3>1. /\ h.prev = [f \in Files |-> IF f \notin ms THEN hprev[f]
                                       ELSE IF Before(ms, f) = {} THEN old ELSE Highest(Before(ms, f))]
          /\ h.prior = IF prior_hlinks.kind = "named" THEN prior_hlinks ELSE [kind |-> "open", n |-> Highest(ms)]
      BY <2>12 DEF match_gnums
    <3> HIDE DEF ms, old, h
    <3>2. Highest(ms) \in ms
      BY <2>8, <2>12, HighestIn
    <3>3. \A f \in Files : Before(ms, f) # {} => Highest(Before(ms, f)) \in ms
      <4>1. \A f \in Files : Before(ms, f) \in SUBSET ms
        BY DEF Before
      <4> QED
        BY <2>8, <4>1, HighestIn
    <3>4. hprev \in [Files -> Chained \cup {0}]
      BY DEF TransferInv, Links
    <3>5. hprev' \in [Files -> Chained' \cup {0}]
      BY <1>5, <2>8, <2>9, <2>10, <3>1, <3>3, <3>4
    <3>6. hdone \subseteq Chained \cap Held /\ hdone \subseteq Files
      BY FilesFacts DEF TransferInv, Links, Chained
    <3>7. \A f \in hdone : hprev'[f] \in hdone \cup {0}
      <4>1. \A f \in hdone : f \notin ms
        BY <2>8, <3>6 DEF Chained
      <4>2. \A f \in hdone : hprev'[f] = hprev[f]
        BY <1>5, <3>1, <3>6, <4>1
      <4> QED
        BY <4>2 DEF TransferInv, Links
    <3>8. prior_hlinks' \in [kind : {"none"}, n : {0}] \cup [kind : {"open"}, n : Chained'] \cup [kind : {"named"}, n : hdone]
      <4>1. CASE prior_hlinks.kind = "named"
        BY <1>5, <2>9, <3>1, <4>1 DEF TransferInv, Links
      <4>2. CASE prior_hlinks.kind # "named"
        BY <1>5, <2>8, <3>1, <3>2, <4>2
      <4> QED
        BY <4>1, <4>2
    <3> QED
      BY <1>1, <2>6, <2>9, <3>5, <3>6, <3>7, <3>8 DEF Links
  <2>13. Links'
    BY <2>11, <2>12
  <2>14. /\ GenStreams(gout', g2s', Arrived', Held') /\ SndStreams(sout', s2r', Arrived', Changed')
         /\ RcvStreams(rout', r2g', Arrived', Held') /\ Known(work', redo_list', hlink_list', Arrived', Held')
    BY <1>1, <1>3, <2>5, <2>6, CarriesGrow, KnownGrows DEF TransferInv
  <2> QED
    BY <1>1, <2>3, <2>7, <2>13, <2>14 DEF TransferInv
<1> QED
  BY <1>4, <1>5 DEF wait_for_receiver
----------------------------------------------------------------------------
(* Hard links                                                               *)

\* The chain leads from a link to links, and from one that is done only to
\* links that are done; check_prior keeps it so.
LEMMA PriorFacts ==
  ASSUME TransferInv, NEW f \in Files
  PROVE  /\ Prior(f) \in Chained \cup {0}
         /\ f \in hdone => Prior(f) \in hdone \cup {0}
         /\ check_prior(f).kind = "file" => check_prior(f).n = Prior(f) /\ Prior(f) # 0
         /\ check_prior(f).kind = "name" => check_prior(f).n \in hdone
         /\ check_prior(f).kind \in {"file", "name", "none"}
         /\ f \in hdone => check_prior(f).n \in hdone \cup {0}
<1>1. /\ hprev \in [Files -> Chained \cup {0}] /\ Chained \in SUBSET Files /\ hdone \in SUBSET Files
      /\ \A e \in hdone : hprev[e] \in hdone \cup {0}
  BY FilesFacts DEF TransferInv, Links, Chained
<1>2. Prior(f) \in Behind(hprev, f) \cup {0}
  BY PriorType
<1>3. Behind(hprev, f) \subseteq Chained
  BY <1>1, BehindClosed
<1>4. f \in hdone => Behind(hprev, f) \subseteq hdone
  BY <1>1, BehindClosed
<1>5. prior_hlinks.kind = "named" => prior_hlinks.n \in hdone
  BY DEF TransferInv, Links
<1>6. \/ Prior(f) # 0 /\ check_prior(f).kind = "file" /\ check_prior(f).n = Prior(f)
      \/ prior_hlinks.kind = "named" /\ check_prior(f).kind = "name" /\ check_prior(f).n = prior_hlinks.n
      \/ check_prior(f).kind = "none" /\ check_prior(f).n = 0
  BY DEF check_prior, PriorLink
<1> QED
  BY <1>2, <1>3, <1>4, <1>5, <1>6

\* What check_prior leaves in F_HL_PREV keeps to that, too.
LEMMA HoppedLinks ==
  ASSUME TransferInv, NEW f \in Files
  PROVE  Hopped(f) \in [Files -> Chained \cup {0}] /\ \A e \in hdone : Hopped(f)[e] \in hdone \cup {0}
<1>1. hprev \in [Files -> Chained \cup {0}] /\ hdone \subseteq Files /\ \A e \in hdone : hprev[e] \in hdone \cup {0}
  BY FilesFacts DEF TransferInv, Links, Chained
<1>2. Prior(f) \in Chained \cup {0} /\ (f \in hdone => Prior(f) \in hdone \cup {0})
  BY PriorFacts
<1> QED
  BY <1>1, <1>2 DEF Hopped

\* A chain that keeps to that is enough for the links.
LEMMA LinksKept ==
  ASSUME TransferInv, UNCHANGED <<hdone, prior_hlinks>>, Chained' = Chained, Held \subseteq Held',
         hprev' \in [Files -> Chained \cup {0}], \A e \in hdone : hprev'[e] \in hdone \cup {0}
  PROVE  Links'
  BY DEF TransferInv, Links

\* finish_hard_link: the files that waited get the version of f.
LEMMA FinishLinks ==
  ASSUME TransferInv, UNCHANGED <<opt, source, gnext, delayed>>, NEW f \in Chained \cap Held, NEW ip,
         NEW hp \in [Files -> Chained \cup {0}], \A e \in hdone : hp[e] \in hdone \cup {0},
         finish_hard_link(f, hp, ip)
  PROVE  /\ Arrived' = Arrived /\ Chained' = Chained /\ Held \subseteq Held' /\ Changed' = Changed
         /\ Versions' /\ M!Next /\ Links' /\ Waiting(hp, f) \in Seq(Held')
<1> DEFINE W == Behind(hp, f)
<1>1. /\ hdone' = hdone \cup {f} \cup W
      /\ hprev' = [x \in Files |-> IF x = f THEN 0 ELSE IF x \in W THEN f ELSE hp[x]]
      /\ dest' = [x \in Files |-> IF x \in W THEN dest[f] ELSE dest[x]]
      /\ prior_hlinks' = [kind |-> "named", n |-> f] \/ prior_hlinks' = prior_hlinks
  BY DEF finish_hard_link
<1>2. Chained \in SUBSET Files /\ hdone \subseteq Chained \cap Held /\ f \in Files /\ f \in Group
  BY FilesFacts DEF TransferInv, Links, Chained
<1>3. W \subseteq Chained
  BY <1>2, BehindClosed
<1>4. Waiting(hp, f) \in Seq(W)
  BY WaitingType
<1> HIDE DEF W
<1>5. dest \in [Files -> Absent..Newer] /\ dest[f] \in {Listed, Later} /\ (dest[f] = Later => f \in Changed)
  BY <1>2 DEF TransferInv, Versions, Held
<1>6. dest[f] = Later => \A w \in W : w \in Changed
  BY <1>2, <1>3, <1>5 DEF Changed, Chained
<1>7. dest' \in [Files -> Absent..Newer]
  BY <1>1, <1>2, <1>5
<1>8. \A e \in Files : dest'[e] = dest[e] \/ dest'[e] = Listed \/ (dest'[e] = Later /\ e \in Changed)
  BY <1>1, <1>5, <1>6
<1>9. /\ Arrived' = Arrived /\ Chained' = Chained /\ Held \subseteq Held' /\ Changed' = Changed
      /\ Versions' /\ M!Next
  <2>1. delayed' \in [Files -> {Absent, Listed, Later}] /\ \A e \in Files : delayed'[e] = delayed[e]
    BY DEF TransferInv, Versions
  <2> QED
    BY <1>7, <1>8, <2>1, DestFrame
<1>10. W \subseteq Held'
  BY <1>1, <1>2, <1>3, <1>5 DEF Held
<1>11. Links'
  <2>1. hprev' \in [Files -> Chained' \cup {0}]
    BY <1>1, <1>9
  <2>2. hdone' \subseteq Chained' \cap Held'
    BY <1>1, <1>2, <1>3, <1>9, <1>10
  <2>3. \A e \in hdone' : hprev'[e] \in hdone' \cup {0}
    BY <1>1, <1>2, <1>3
  <2>4. prior_hlinks' \in [kind : {"none"}, n : {0}] \cup [kind : {"open"}, n : Chained'] \cup [kind : {"named"}, n : hdone']
    <3>1. CASE prior_hlinks' = prior_hlinks
      BY <1>1, <1>9, <3>1 DEF TransferInv, Links
    <3>2. CASE prior_hlinks' = [kind |-> "named", n |-> f]
      BY <1>1, <3>2
    <3> QED
      BY <1>1, <3>1, <3>2
  <2> QED
    BY <2>1, <2>2, <2>3, <2>4 DEF Links
<1> QED
  BY <1>4, <1>9, <1>10, <1>11, SeqGrows

\* handle_skipped_hlink: the link that is processed in place of f is in the
\* chain.
LEMMA SkippedLink ==
  ASSUME TransferInv, UNCHANGED <<opt, source, gnext, delayed>>, NEW f \in Files, NEW ip,
         NEW rest \in Seq([f : Arrived, redo : BOOLEAN]), handle_skipped_hlink(f, rest, ip)
  PROVE  UNCHANGED dest /\ Links' /\ work' \in Seq([f : Arrived, redo : BOOLEAN])
<1> DEFINE p == Replaces(f)
           S == [f : Arrived, redo : BOOLEAN]
<1>1. /\ UNCHANGED <<dest, hdone, prior_hlinks>> /\ (hprev' = Hopped(f) \/ hprev' = hprev)
      /\ work' = IF p = 0 THEN rest ELSE <<[f |-> p, redo |-> FALSE]>> \o rest
  BY DEF handle_skipped_hlink
<1>2. p # 0 => p \in Chained
  BY PriorFacts DEF Replaces
<1>3. p # 0 => [f |-> p, redo |-> FALSE] \in S
  BY <1>2 DEF Chained
<1>4. work' \in Seq(S)
  <2> HIDE DEF p, S
  <2> QED
    BY <1>1, <1>3, SeqShort, SeqJoins DEF S
<1>5. Chained' = Chained /\ Held' = Held
  BY <1>1, Frame
<1>6. hprev' \in [Files -> Chained \cup {0}] /\ \A e \in hdone : hprev'[e] \in hdone \cup {0}
  BY <1>1, HoppedLinks DEF TransferInv, Links
<1> QED
  BY <1>1, <1>4, <1>5, <1>6, LinksKept

\* check_for_finished_files for a hard link.
LEMMA StepFinishedHlink ==
  ASSUME TransferInv, finished_hlink
  PROVE  TransferInv' /\ (M!Next \/ UNCHANGED <<source, dest>>)
<1>1. UNCHANGED <<opt, source, delayed, gnext, gl, gcur, snext, redo_list, g2s, sout, s2r, rout, r2g>>
  BY DEF finished_hlink, svars, rvars
<1> DEFINE h == hlink_list[1]
           ip == [in_progress EXCEPT ![List(h.n)] = @ - 1]
<1>2. /\ h \in ToLink(Arrived, Held) /\ hlink_list' \in Seq(ToLink(Arrived, Held))
      /\ work \in Seq([f : Arrived, redo : BOOLEAN]) /\ redo_list \in Seq(Arrived)
  BY SeqParts DEF TransferInv, Known, finished_hlink, HlinkTurn
<1>3. IF h.failed THEN handle_skipped_hlink(h.n, work, ip) /\ gout' = <<>>
      ELSE finish_hard_link(h.n, hprev, ip) /\ gout' = Succeeded(Waiting(hprev, h.n)) /\ UNCHANGED work
  BY DEF finished_hlink
<1> HIDE DEF h, ip
<1>4. CASE h.failed
  <2>1. h.n \in Files
    BY <1>2, <1>4, FilesFacts DEF ToLink
  <2>2. UNCHANGED dest /\ Links' /\ work' \in Seq([f : Arrived, redo : BOOLEAN])
    BY <1>1, <1>2, <1>3, <1>4, <2>1, SkippedLink
  <2>3. Known(work', redo_list', hlink_list', Arrived, Held)
    BY <1>1, <1>2, <2>2 DEF Known
  <2>4. GenStreams(gout', g2s', Arrived, Held)
    BY <1>1, <1>3, <1>4, SeqShort DEF TransferInv, GenStreams
  <2> QED
    BY <1>1, <2>2, <2>3, <2>4, Frame DEF TransferInv, Numbers
<1>5. CASE ~h.failed
  <2>1. h.n \in Chained \cap Held
    BY <1>2, <1>5 DEF ToLink, Chained
  <2>2. hprev \in [Files -> Chained \cup {0}] /\ \A e \in hdone : hprev[e] \in hdone \cup {0}
    BY DEF TransferInv, Links
  <2>3. finish_hard_link(h.n, hprev, ip) /\ gout' = Succeeded(Waiting(hprev, h.n)) /\ UNCHANGED work
    BY <1>3, <1>5
  <2>4. /\ Arrived' = Arrived /\ Chained' = Chained /\ Held \subseteq Held' /\ Changed' = Changed
        /\ Versions' /\ M!Next /\ Links' /\ Waiting(hprev, h.n) \in Seq(Held')
    BY <1>1, <2>1, <2>2, <2>3, FinishLinks
  <2>5. Known(work', redo_list', hlink_list', Arrived', Held')
    <3>1. Known(work', redo_list', hlink_list', Arrived, Held)
      BY <1>1, <1>2, <2>3 DEF Known
    <3> QED
      BY <2>4, <3>1, KnownGrows
  <2>6. GenStreams(gout', g2s', Arrived', Held')
    <3>1. gout' \in Seq(Out(Asked(Arrived), Wins(Held')))
      BY <2>3, <2>4, SucceededType
    <3>2. GenStreams(gout, g2s, Arrived, Held')
      BY <2>4, CarriesGrow DEF TransferInv
    <3> QED
      BY <1>1, <2>4, <3>1, <3>2 DEF GenStreams
  <2>7. RcvStreams(rout', r2g', Arrived', Held') /\ SndStreams(sout', s2r', Arrived', Changed')
    BY <1>1, <2>4, CarriesGrow DEF TransferInv
  <2> QED
    BY <1>1, <2>4, <2>5, <2>6, <2>7 DEF TransferInv, Numbers
<1> QED
  BY <1>4, <1>5

\* hard_link_check: a file waits for a link that is not done, and is linked
\* to one that is.
LEMMA LinkToFacts ==
  ASSUME TransferInv, NEW f \in Arrived
  PROVE  /\ LinkTo(f).kind \in {"process", "wait", "link"}
         /\ LinkTo(f).kind = "wait" => f \in Chained \ hdone /\ LinkTo(f).n \in Chained \ hdone
         /\ LinkTo(f).kind = "link" => f \in Chained /\ LinkTo(f).n \in hdone \cup {0}
<1> DEFINE p == check_prior(f)
<1>1. f \in Files /\ hdone \subseteq Files
  BY FilesFacts DEF Arrived, TransferInv, Links, Chained
<1>2. Linked(f) => f \in Chained
  BY DEF Linked, Chained
<1>3. /\ Prior(f) \in Chained \cup {0}
      /\ f \in hdone => Prior(f) \in hdone \cup {0}
      /\ p.kind = "file" => p.n = Prior(f) /\ Prior(f) # 0
      /\ p.kind = "name" => p.n \in hdone
      /\ p.kind \in {"file", "name", "none"}
  BY <1>1, PriorFacts
<1>4. \A e \in hdone : check_prior(e).n \in hdone \cup {0}
  BY <1>1, PriorFacts
<1> HIDE DEF p
<1>5. LinkTo(f) = LinkVia(f, p)
  BY DEF LinkTo, p
<1>6. \/ LinkTo(f).kind = "process"
      \/ LinkTo(f).kind = "wait" /\ Linked(f) /\ p.kind = "file" /\ p.n \notin hdone /\ LinkTo(f).n = p.n
      \/ LinkTo(f).kind = "link" /\ Linked(f) /\ LinkTo(f).n = p.n /\ p.kind = "name"
      \/ LinkTo(f).kind = "link" /\ Linked(f) /\ LinkTo(f).n = p.n /\ p.n \in hdone
      \/ LinkTo(f).kind = "link" /\ Linked(f) /\ LinkTo(f).n = check_prior(p.n).n /\ p.n \in hdone
  BY <1>3, <1>5 DEF LinkVia
<1> QED
  BY <1>2, <1>3, <1>4, <1>6

\* What recv_generator does with the file w.f, case by case.
LEMMA RecvCases ==
  ASSUME recv_generator
  PROVE  LET w == work[1]
             f == w.f
             rest == Tail(work)
             to == LinkTo(f)
             hp == IF Linked(f) /\ f \notin hfirst THEN Hopped(f) ELSE hprev
         IN \/ /\ to.kind = "wait"
               /\ hprev' = [hprev EXCEPT ![f] = hprev[to.n], ![to.n] = f]
               /\ work' = rest /\ gout' = <<>> /\ UNCHANGED <<hdone, prior_hlinks, dest>>
            \/ /\ to.kind = "link" /\ to.n = 0
               /\ work' = rest /\ gout' = <<>> /\ UNCHANGED <<hprev, hdone, prior_hlinks, dest>>
            \/ /\ to.kind = "link" /\ to.n # 0
               /\ dest' = [dest EXCEPT ![f] = dest[to.n]]
               /\ hdone' = hdone \cup {f} /\ hprev' = [hprev EXCEPT ![f] = to.n]
               /\ work' = rest /\ gout' = Succeeded(<<f>>) /\ UNCHANGED prior_hlinks
            \/ /\ handle_skipped_hlink(f, rest, in_progress) /\ gout' = <<>>
            \/ /\ dest[f] = Listed /\ Linked(f) /\ finish_hard_link(f, hp, in_progress)
               /\ gout' = Succeeded(Waiting(hp, f)) \o Succeeded(<<f>>) /\ work' = rest
            \/ /\ dest[f] = Listed /\ gout' = <<>> \o Succeeded(<<f>>)
               /\ work' = rest /\ UNCHANGED <<hprev, hdone, prior_hlinks, dest>>
            \/ /\ hprev' \in {hp, hprev} /\ gout' \in {<<>>, <<D("request", f, 0)>>}
               /\ work' = rest /\ UNCHANGED <<hdone, prior_hlinks, dest>>
<1> DEFINE w == work[1]
           f == w.f
           to == LinkTo(f)
<1>1. CASE to.kind = "wait"
  BY <1>1 DEF recv_generator
<1>2. CASE to.kind = "link"
  BY <1>2 DEF recv_generator
<1>3. CASE to.kind = "process" /\ ~w.redo /\ dest[f] = Newer
  BY <1>3 DEF recv_generator, Wanted, hvars, Newer, Listed
<1>4. CASE to.kind = "process" /\ ~w.redo /\ dest[f] = Listed
  BY <1>4 DEF recv_generator, Wanted, hvars, Newer, Listed
<1>5. CASE Wanted(w) /\ Postponed(w)
  BY <1>5 DEF recv_generator, Wanted, Newer, Listed
<1>6. CASE /\ to.kind \notin {"wait", "link"} /\ ~(Wanted(w) /\ Postponed(w))
           /\ ~(to.kind = "process" /\ ~w.redo /\ dest[f] \in {Newer, Listed})
  BY <1>6 DEF recv_generator
<1> QED
  BY <1>1, <1>2, <1>3, <1>4, <1>5, <1>6

\* recv_generator, whatever it does with the file.
LEMMA StepRecvGenerator ==
  ASSUME TransferInv, recv_generator
  PROVE  TransferInv' /\ (M!Next \/ UNCHANGED <<source, dest>>)
<1>1. UNCHANGED <<opt, source, delayed, gnext, gl, gcur, snext, redo_list, hlink_list,
                  g2s, sout, s2r, rout, r2g>>
  BY DEF recv_generator, svars, rvars
<1> DEFINE S == [f : Arrived, redo : BOOLEAN]
           w == work[1]
           f == w.f
           rest == Tail(work)
           to == LinkTo(f)
           hp == IF Linked(f) /\ f \notin hfirst THEN Hopped(f) ELSE hprev
           G(H) == Seq(Out(Asked(Arrived), Wins(H)))
<1>2. w \in S /\ rest \in Seq(S)
  BY SeqParts DEF TransferInv, Known, recv_generator
<1>3. f \in Arrived /\ f \in Files
  BY <1>2 DEF Arrived
<1>4. \/ /\ to.kind = "wait"
         /\ hprev' = [hprev EXCEPT ![f] = hprev[to.n], ![to.n] = f]
         /\ work' = rest /\ gout' = <<>> /\ UNCHANGED <<hdone, prior_hlinks, dest>>
      \/ /\ to.kind = "link" /\ to.n = 0
         /\ work' = rest /\ gout' = <<>> /\ UNCHANGED <<hprev, hdone, prior_hlinks, dest>>
      \/ /\ to.kind = "link" /\ to.n # 0
         /\ dest' = [dest EXCEPT ![f] = dest[to.n]]
         /\ hdone' = hdone \cup {f} /\ hprev' = [hprev EXCEPT ![f] = to.n]
         /\ work' = rest /\ gout' = Succeeded(<<f>>) /\ UNCHANGED prior_hlinks
      \/ /\ handle_skipped_hlink(f, rest, in_progress) /\ gout' = <<>>
      \/ /\ dest[f] = Listed /\ Linked(f) /\ finish_hard_link(f, hp, in_progress)
         /\ gout' = Succeeded(Waiting(hp, f)) \o Succeeded(<<f>>) /\ work' = rest
      \/ /\ dest[f] = Listed /\ gout' = <<>> \o Succeeded(<<f>>)
         /\ work' = rest /\ UNCHANGED <<hprev, hdone, prior_hlinks, dest>>
      \/ /\ hprev' \in {hp, hprev} /\ gout' \in {<<>>, <<D("request", f, 0)>>}
         /\ work' = rest /\ UNCHANGED <<hdone, prior_hlinks, dest>>
  BY RecvCases
<1>5. /\ to.kind \in {"process", "wait", "link"}
      /\ to.kind = "wait" => f \in Chained \ hdone /\ to.n \in Chained \ hdone
      /\ to.kind = "link" => f \in Chained /\ to.n \in hdone \cup {0}
  BY <1>3, LinkToFacts
<1>6. hp \in [Files -> Chained \cup {0}] /\ \A e \in hdone : hp[e] \in hdone \cup {0}
  BY <1>3, HoppedLinks DEF TransferInv, Links
<1>7. /\ hprev \in [Files -> Chained \cup {0}] /\ \A e \in hdone : hprev[e] \in hdone \cup {0}
      /\ hdone \subseteq Chained \cap Held /\ Chained \subseteq Files
  BY FilesFacts DEF TransferInv, Links, Chained
<1>8. <<>> \in G(Held) /\ <<D("request", f, 0)>> \in G(Held)
  <2>1. D("request", f, 0) \in Out(Asked(Arrived), Wins(Held))
    BY <1>3, Items
  <2> QED
    BY <2>1, SeqShort
<1>9. ASSUME NEW H, f \in H PROVE Succeeded(<<f>>) \in G(H)
  <2>1. <<f>> \in Seq(H)
    BY <1>9
  <2> QED
    BY <2>1, SucceededType
\* What is to be shown where the destination stays and where it grows.
<1>10. ASSUME UNCHANGED dest, Links', work' \in Seq(S), gout' \in G(Held)
       PROVE  TransferInv' /\ UNCHANGED <<source, dest>>
  <2>1. Arrived' = Arrived /\ Chained' = Chained /\ Held' = Held /\ Changed' = Changed /\ Versions'
    BY <1>1, <1>10, Frame
  <2>2. Known(work', redo_list', hlink_list', Arrived, Held) /\ GenStreams(gout', g2s', Arrived, Held)
    BY <1>1, <1>10 DEF TransferInv, Known, GenStreams
  <2> QED
    BY <1>1, <1>10, <2>1, <2>2 DEF TransferInv, Numbers
<1>11. ASSUME Arrived' = Arrived, Held \subseteq Held', Changed' = Changed, Versions', Links',
              work' = rest, gout' \in G(Held')
       PROVE  TransferInv'
  <2>1. Known(work', redo_list', hlink_list', Arrived', Held')
    <3>1. Known(work', redo_list', hlink_list', Arrived, Held)
      BY <1>1, <1>2, <1>11 DEF TransferInv, Known
    <3> QED
      BY <1>11, <3>1, KnownGrows
  <2>2. GenStreams(gout', g2s', Arrived', Held')
    <3>1. GenStreams(gout, g2s, Arrived, Held')
      BY <1>11, CarriesGrow DEF TransferInv
    <3> QED
      BY <1>1, <1>11, <3>1 DEF GenStreams
  <2>3. RcvStreams(rout', r2g', Arrived', Held') /\ SndStreams(sout', s2r', Arrived', Changed')
    BY <1>1, <1>11, CarriesGrow DEF TransferInv
  <2> QED
    BY <1>1, <1>11, <2>1, <2>2, <2>3 DEF TransferInv, Numbers
<1> HIDE DEF S, w, f, rest, to, hp, G
\* hard_link_check: wait
<1>12. CASE /\ to.kind = "wait"
            /\ hprev' = [hprev EXCEPT ![f] = hprev[to.n], ![to.n] = f]
            /\ work' = rest /\ gout' = <<>> /\ UNCHANGED <<hdone, prior_hlinks, dest>>
  <2>1. Chained' = Chained /\ Held' = Held
    BY <1>1, <1>12, Frame
  <2>2. hprev' \in [Files -> Chained \cup {0}] /\ \A e \in hdone : hprev'[e] \in hdone \cup {0}
    BY <1>3, <1>5, <1>7, <1>12
  <2>3. Links'
    BY <1>12, <2>1, <2>2, LinksKept
  <2> QED
    BY <1>2, <1>8, <1>10, <1>12, <2>3
\* a failed assertion
<1>13. CASE /\ to.kind = "link" /\ to.n = 0
            /\ work' = rest /\ gout' = <<>> /\ UNCHANGED <<hprev, hdone, prior_hlinks, dest>>
  <2>1. Chained' = Chained /\ Held' = Held
    BY <1>1, <1>13, Frame
  <2>2. Links'
    BY <1>7, <1>13, <2>1, LinksKept
  <2> QED
    BY <1>2, <1>8, <1>10, <1>13, <2>2
\* the file is linked to one that is done
<1>14. CASE /\ to.kind = "link" /\ to.n # 0
            /\ dest' = [dest EXCEPT ![f] = dest[to.n]]
            /\ hdone' = hdone \cup {f} /\ hprev' = [hprev EXCEPT ![f] = to.n]
            /\ work' = rest /\ gout' = Succeeded(<<f>>) /\ UNCHANGED prior_hlinks
  <2>1. f \in Chained /\ to.n \in hdone
    BY <1>5, <1>14
  <2>2. dest \in [Files -> Absent..Newer] /\ dest[to.n] \in {Listed, Later} /\ (dest[to.n] = Later => to.n \in Changed)
    BY <1>7, <2>1 DEF TransferInv, Versions, Held
  <2>3. dest[to.n] = Later => f \in Changed
    BY <1>3, <1>7, <2>1, <2>2 DEF Changed, Chained
  <2>4. dest' \in [Files -> Absent..Newer]
    BY <1>7, <1>14, <2>1, <2>2
  <2>5. \A e \in Files : dest'[e] = dest[e] \/ dest'[e] = Listed \/ (dest'[e] = Later /\ e \in Changed)
    BY <1>14, <2>2, <2>3
  <2>6. /\ Arrived' = Arrived /\ Chained' = Chained /\ Held \subseteq Held' /\ Changed' = Changed
        /\ Versions' /\ M!Next
    <3>1. delayed' \in [Files -> {Absent, Listed, Later}] /\ \A e \in Files : delayed'[e] = delayed[e]
      BY <1>1 DEF TransferInv, Versions
    <3> QED
      BY <1>1, <2>4, <2>5, <3>1, DestFrame
  <2>7. f \in Held'
    BY <1>3, <1>14, <2>2 DEF Held
  <2>8. Links'
    <3>1. hprev' \in [Files -> Chained' \cup {0}] /\ \A e \in hdone' : hprev'[e] \in hdone' \cup {0}
      BY <1>3, <1>7, <1>14, <2>1, <2>6
    <3>2. hdone' \subseteq Chained' \cap Held'
      BY <1>7, <1>14, <2>1, <2>6, <2>7
    <3>3. prior_hlinks' \in [kind : {"none"}, n : {0}] \cup [kind : {"open"}, n : Chained'] \cup [kind : {"named"}, n : hdone']
      BY <1>14, <2>6 DEF TransferInv, Links
    <3> QED
      BY <3>1, <3>2, <3>3 DEF Links
  <2>9. gout' \in G(Held')
    BY <1>9, <1>14, <2>7
  <2> QED
    BY <1>11, <1>14, <2>6, <2>8, <2>9
\* --update keeps the file
<1>15. CASE handle_skipped_hlink(f, rest, in_progress) /\ gout' = <<>>
  <2>1. UNCHANGED dest /\ Links' /\ work' \in Seq(S)
    BY <1>1, <1>2, <1>3, <1>15, SkippedLink DEF S
  <2> QED
    BY <1>8, <1>10, <1>15, <2>1
\* the file is there, and so are those that waited for it
<1>16. CASE /\ dest[f] = Listed /\ Linked(f) /\ finish_hard_link(f, hp, in_progress)
            /\ gout' = Succeeded(Waiting(hp, f)) \o Succeeded(<<f>>) /\ work' = rest
  <2>1. f \in Chained \cap Held
    BY <1>3, <1>16 DEF Linked, Chained, Held
  <2>2. /\ Arrived' = Arrived /\ Chained' = Chained /\ Held \subseteq Held' /\ Changed' = Changed
        /\ Versions' /\ M!Next /\ Links' /\ Waiting(hp, f) \in Seq(Held')
    BY <1>1, <1>6, <1>16, <2>1, FinishLinks
  <2>3. Succeeded(Waiting(hp, f)) \in G(Held')
    BY <2>2, SucceededType DEF G
  <2>4. Succeeded(<<f>>) \in G(Held')
    BY <1>9, <2>1, <2>2
  <2>5. gout' \in G(Held')
    BY <1>16, <2>3, <2>4, SeqJoins DEF G
  <2> QED
    BY <1>11, <1>16, <2>2, <2>5
<1>17. CASE /\ dest[f] = Listed /\ gout' = <<>> \o Succeeded(<<f>>)
            /\ work' = rest /\ UNCHANGED <<hprev, hdone, prior_hlinks, dest>>
  <2>1. Chained' = Chained /\ Held' = Held
    BY <1>1, <1>17, Frame
  <2>2. Links'
    BY <1>7, <1>17, <2>1, LinksKept
  <2>3. f \in Held
    BY <1>3, <1>17 DEF Held
  <2>4. gout' \in G(Held)
    BY <1>8, <1>9, <1>17, <2>3, SeqJoins DEF G
  <2> QED
    BY <1>2, <1>10, <1>17, <2>2, <2>4
\* the file is requested, or is to wait for the last of its links
<1>18. CASE /\ hprev' \in {hp, hprev} /\ gout' \in {<<>>, <<D("request", f, 0)>>}
            /\ work' = rest /\ UNCHANGED <<hdone, prior_hlinks, dest>>
  <2>1. Chained' = Chained /\ Held' = Held
    BY <1>1, <1>18, Frame
  <2>2. Links'
    BY <1>6, <1>7, <1>18, <2>1, LinksKept
  <2> QED
    BY <1>2, <1>8, <1>10, <1>18, <2>2
<1> QED
  BY <1>4, <1>12, <1>13, <1>14, <1>15, <1>16, <1>17, <1>18
----------------------------------------------------------------------------
(* The whole                                                                *)

\* The transfer starts as Mirror does.
LEMMA TransferInit ==
  ASSUME Init
  PROVE  TransferInv /\ M!Init
<1> DEFINE ms == HardLinked(1)
           h == match_gnums(NoLinks, <<1>>, 1)
<1>1. /\ gnext = 2 /\ gl = <<1>> /\ gcur = 1 /\ snext = 2 /\ work = <<>> /\ redo_list = <<>> /\ hlink_list = <<>>
      /\ gout = <<>> /\ sout = <<>> /\ rout = <<>> /\ g2s = Empty /\ s2r = Empty /\ r2g = Empty
      /\ source = [f \in Files |-> Listed] /\ delayed = [f \in Files |-> Absent]
      /\ dest \in [Files -> Present \cup PresentLinked] /\ hdone = {}
      /\ hprev = h.prev /\ prior_hlinks = h.prior
  BY DEF Init
<1>2. dest \in [Files -> {Absent, Listed, Old, Newer}]
  BY <1>1, PipelineAssumption DEF Absent, Listed, Old, Newer
<1>3. Versions
  <2>1. dest \in [Files -> Absent..Newer] /\ \A f \in Files : dest[f] # Later
    BY <1>2 DEF Absent, Listed, Later, Old, Newer
  <2>2. \A f \in Files : source[f] = Listed /\ delayed[f] = Absent
    BY <1>1
  <2>3. \A e \in Group : source[e] # Later
    BY <2>2, FilesFacts DEF Listed, Later
  <2> QED
    BY <1>1, <2>1, <2>2, <2>3 DEF Versions, Absent, Later
<1>4. Numbers
  BY <1>1 DEF Numbers
<1>5. Empty \in Stream(Asked(Arrived), Wins(Held)) /\ Empty \in Stream(Sent(Arrived, Changed), Notes)
      /\ Empty \in Stream(Plain, Reports(Arrived, Held))
  BY SeqShort DEF Empty, Stream
<1>6. /\ GenStreams(gout, g2s, Arrived, Held) /\ SndStreams(sout, s2r, Arrived, Changed)
      /\ RcvStreams(rout, r2g, Arrived, Held) /\ Known(work, redo_list, hlink_list, Arrived, Held)
  BY <1>1, <1>5, SeqShort DEF GenStreams, SndStreams, RcvStreams, Known
<1>7. ms \subseteq Chained /\ ms \in SUBSET Files
  BY <1>1 DEF HardLinked, MembersOf, Linked, Chained, Arrived
<1>8. Links
  <2>1. CASE ms = {}
    <3>1. h = NoLinks
      BY <2>1 DEF match_gnums
    <3>2. hprev = [f \in Files |-> 0] /\ prior_hlinks = [kind |-> "none", n |-> 0]
      BY <1>1, <3>1 DEF NoLinks
    <3> QED
      BY <1>1, <3>2 DEF Links
  <2>2. CASE ms # {}
    <3>1. /\ h.prev = [f \in Files |-> IF f \notin ms THEN 0
                                       ELSE IF Before(ms, f) = {} THEN 0 ELSE Highest(Before(ms, f))]
          /\ h.prior = [kind |-> "open", n |-> Highest(ms)]
      BY <2>2 DEF match_gnums, NoLinks
    <3> HIDE DEF ms, h
    <3>2. Highest(ms) \in Chained
      BY <1>7, <2>2, HighestIn
    <3>3. \A f \in Files : Before(ms, f) # {} => Highest(Before(ms, f)) \in Chained
      <4>1. \A f \in Files : Before(ms, f) \in SUBSET ms
        BY DEF Before
      <4> QED
        BY <1>7, <4>1, HighestIn
    <3>4. hprev \in [Files -> Chained \cup {0}]
      BY <1>1, <3>1, <3>3
    <3>5. prior_hlinks \in [kind : {"open"}, n : Chained]
      BY <1>1, <3>1, <3>2
    <3> QED
      BY <1>1, <3>4, <3>5 DEF Links
  <2> QED
    BY <2>1, <2>2
<1>9. M!Init
  BY <1>1, <1>2 DEF M!Init, M!Listed, M!Absent, M!Old, M!Newer, Absent, Listed, Old, Newer
<1> QED
  BY <1>3, <1>4, <1>6, <1>8, <1>9 DEF TransferInv

\* Every step keeps TransferInv, and is a step of Mirror or leaves its files alone.
LEMMA TransferStep ==
  ASSUME ~ReplacedLinks, TransferInv, [Next]_vars
  PROVE  TransferInv' /\ [M!Next]_<<source, dest>>
<1>1. CASE Generator
  BY <1>1, StepGenerateFile, StepListEnds, StepRecvGenerator, StepFinishedHlink, StepFinishedRedo,
     StepFinishedList, StepGenerateFiles, StepGenWrite, StepWaitForReceiver, StepGotStatus DEF Generator
<1>2. CASE Sender
  BY <1>2, StepSendExtraFileList, StepSndDone, StepSendFile, StepSuccessfulSend, StepSndWrite DEF Sender
<1>3. CASE Receiver
  BY <1>3, StepRcvFlist, StepRcvDone, StepDelayedUpdates, StepRecvFile, StepRcvMsg, StepRcvWrite DEF Receiver
<1>4. CASE EditSource
  BY <1>4, StepEditSource
<1>5. CASE UNCHANGED vars
  <2>1. UNCHANGED <<opt, source, dest, delayed, gnext, hvars, gl, gcur, snext, work, redo_list, hlink_list,
                    gout, g2s, sout, s2r, rout, r2g>>
    BY <1>5 DEF vars, gvars, svars, rvars
  <2> QED
    BY <2>1, Frame, LinksFrame DEF TransferInv, Numbers
<1> QED
  BY <1>1, <1>2, <1>3, <1>4, <1>5 DEF Next, Finished

\* The hard links, the versions and the streams stay as TransferInv says: in
\* particular a MSG_SUCCESS is only ever on its way for a file that the
\* destination holds, and whatever is later than the list has a source that
\* changed.
THEOREM TransferInvariant ==
  ASSUME ~ReplacedLinks
  PROVE  Spec => []TransferInv
<1>1. Init => TransferInv
  BY TransferInit
<1>2. TransferInv /\ [Next]_vars => TransferInv'
  BY TransferStep
<1> QED
  BY <1>1, <1>2, PTL DEF Spec

\* The transfer implements Mirror: the destination only takes versions of its
\* source, and --remove-source-files removes a source file only while the
\* destination holds that version, whatever the order in which the three
\* processes and somebody who edits the source take their steps.
THEOREM TransferImplementsMirror ==
  ASSUME ~ReplacedLinks
  PROVE  Spec => Refinement
<1>1. Init => M!Init
  BY TransferInit
<1>2. TransferInv /\ [Next]_vars => [M!Next]_<<source, dest>>
  BY TransferStep
<1>3. Spec => []TransferInv
  BY TransferInvariant
<1> QED
  BY <1>1, <1>2, <1>3, PTL DEF Spec, Refinement, M!Spec
=============================================================================
