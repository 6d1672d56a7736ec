---------------------------- MODULE Service_proofs ----------------------------
(***************************************************************************)
(* The pid file admits one daemon, for every number of processes that try  *)
(* to become one, however they interleave, end and are killed; and the     *)
(* connections of a daemon are guarded, for every number of them.          *)
(***************************************************************************)
EXTENDS Service, TLAPS, FiniteSetTheorems, WellFoundedInduction

\* Where create_pid_file and the end of a daemon can be, and what there is.
PidPlaces == {"off", "lstat", "unlink", "open", "lock", "verify", "write", "up", "leaving", "failed"}
Owners == [1 .. MaxInode -> Daemons \union {"none"}]
PidRecord ==
  [first : {-1, 0, 1}, path : Int, next : Int, owner : Owners, text : Owners,
   pc : [Daemons -> PidPlaces], ino : [Daemons -> Int]]

\* A process that has opened the pid file knows an inode that exists; the lock
\* on it is held from the check of the name to the end; until the name is
\* removed it leads to that inode.
PidInvOf(path, next, owner, text, pc, ino) ==
  /\ path \in 0 .. next - 1 /\ next \in 2 .. MaxInode + 1
  /\ \A d \in Daemons :
       /\ pc[d] # "unlink"
       /\ pc[d] \in {"lock", "verify", "write", "up", "leaving"} => ino[d] \in 1 .. next - 1
       /\ pc[d] \in {"verify", "write", "up", "leaving"} => owner[ino[d]] = d
       /\ pc[d] \in {"write", "up"} => path = ino[d]
       /\ pc[d] = "up" => text[ino[d]] = d
PidInv ==
  /\ pid \in PidRecord
  /\ pid.first # OtherFile => PidInvOf(pid.path, pid.next, pid.owner, pid.text, pid.pc, pid.ino)

\* There is room for at least the first pid file and one more.
LEMMA InodeBound == MaxInode \in Nat /\ MaxInode >= 2
  BY DaemonAssumption, FS_CardinalityType DEF MaxInode

\* A daemon that starts opens, locks or replaces the pid file.
LEMMA PidStartInv ==
  ASSUME NEW f \in {0, 1, OtherFile}, pid = PidStart(f) \/ pid = NoDaemon
  PROVE  PidInv
<1>1. MaxInode \in Nat /\ MaxInode >= 2
  BY InodeBound
<1>2. CASE pid = PidStart(f)
  BY <1>1, <1>2 DEF PidStart, PidInv, PidInvOf, PidRecord, Owners, PidPlaces, OtherFile
<1>3. CASE pid = NoDaemon
  <2>1. PidStart(0) \in PidRecord
    BY <1>1 DEF PidStart, PidRecord, Owners, PidPlaces
  <2>2. pid \in PidRecord /\ pid.pc = [d \in Daemons |-> "off"] /\ pid.path = 0 /\ pid.next = 2
    <3>1. [d \in Daemons |-> "off"] \in [Daemons -> PidPlaces]
      BY DEF PidPlaces
    <3>2. PidStart(0).path = 0 /\ PidStart(0).next = 2
      BY DEF PidStart
    <3> QED
      BY <1>3, <2>1, <3>1, <3>2 DEF NoDaemon, PidRecord
  <2> QED
    BY <1>1, <2>2 DEF PidInv, PidInvOf, OtherFile
<1> QED
  BY <1>2, <1>3

\* What a process that gives up or ends changes: its place, and its locks.
LEMMA PidFailInv ==
  ASSUME PidInv, NEW d \in Daemons, pid' = PidFail(d)
  PROVE  PidInv'
<1> DEFINE owner == [i \in 1 .. MaxInode |-> IF pid.owner[i] = d THEN "none" ELSE pid.owner[i]]
           pc == [pid.pc EXCEPT ![d] = "failed"]
<1>1. pid \in PidRecord /\ DOMAIN pid.owner = 1 .. MaxInode
  BY DEF PidInv, PidRecord, Owners
<1>2. owner \in Owners /\ pc \in [Daemons -> PidPlaces]
  BY <1>1 DEF PidRecord, Owners, PidPlaces
<1>3. pid' = [pid EXCEPT !.pc = pc, !.owner = owner]
  BY <1>1 DEF PidFail
<1> HIDE DEF owner, pc
<1>4. /\ pid' \in PidRecord
      /\ pid'.first = pid.first /\ pid'.path = pid.path /\ pid'.next = pid.next
      /\ pid'.text = pid.text /\ pid'.ino = pid.ino /\ pid'.pc = pc /\ pid'.owner = owner
  BY <1>1, <1>2, <1>3 DEF PidRecord
<1>5. ASSUME pid.first # OtherFile
      PROVE  PidInvOf(pid.path, pid.next, owner, pid.text, pc, pid.ino)
  <2>1. PidInvOf(pid.path, pid.next, pid.owner, pid.text, pid.pc, pid.ino)
    BY <1>5 DEF PidInv
  <2>2. pid.pc \in [Daemons -> PidPlaces] /\ pid.next \in Int
    BY <1>1 DEF PidRecord
  <2> QED
    BY <2>1, <2>2, InodeBound DEF PidInvOf, owner, pc
<1> QED
  BY <1>4, <1>5 DEF PidInv

\* Every step of the service keeps PidInv.
LEMMA PidStep ==
  ASSUME PidInv, PidNext
  PROVE  PidInv'
<1>1. pid \in PidRecord /\ pid.owner \in Owners /\ pid.text \in Owners /\ pid.path \in Int
      /\ pid.next \in Int /\ pid.pc \in [Daemons -> PidPlaces] /\ pid.ino \in [Daemons -> Int]
  BY DEF PidInv, PidRecord
<1>2. pid.first # OtherFile => PidInvOf(pid.path, pid.next, pid.owner, pid.text, pid.pc, pid.ino)
  BY DEF PidInv
<1>3. PICK d \in Daemons : \/ PidLstat(d) \/ PidUnlink(d) \/ PidOpen(d) \/ PidLock(d) \/ PidVerify(d)
                           \/ PidWrite(d) \/ PidRemove(d) \/ PidExit(d) \/ PidKilled(d)
  BY DEF PidNext
<1>4. CASE pid' = PidFail(d)
  BY <1>4, PidFailInv
<1>5. CASE PidLstat(d)
  <2> DEFINE pc1 == [pid.pc EXCEPT ![d] = IF pid.path = OtherFile THEN "unlink" ELSE "open"]
  <2>1. pc1 \in [Daemons -> PidPlaces]
    BY <1>1, <1>5 DEF PidLstat, PidRecord, Owners, PidPlaces
  <2>2. pid' = [pid EXCEPT !.pc = pc1]
    BY <1>1, <1>5 DEF PidLstat, OtherFile
  <2>3. pid.first # OtherFile => PidInvOf(pid.path, pid.next, pid.owner, pid.text, pc1, pid.ino)
    BY <1>1, <1>2, <1>5, InodeBound, DaemonAssumption DEF PidInvOf, PidRecord, Owners, PidLstat, OtherFile
  <2> HIDE DEF pc1
  <2>4. /\ pid' \in PidRecord
        /\ pid'.path = pid.path /\ pid'.next = pid.next /\ pid'.owner = pid.owner /\ pid'.text = pid.text /\ pid'.pc = pc1 /\ pid'.ino = pid.ino /\ pid'.first = pid.first
    BY <1>1, <2>1, <2>2 DEF PidRecord
  <2> QED
    BY <2>3, <2>4 DEF PidInv
<1>6. CASE PidUnlink(d) /\ pid' # PidFail(d)
  <2> DEFINE path1 == 0
             pc1 == [pid.pc EXCEPT ![d] = "open"]
  <2>1. path1 \in Int /\ pc1 \in [Daemons -> PidPlaces]
    BY <1>1, <1>6 DEF PidUnlink, PidRecord, Owners, PidPlaces
  <2>2. pid' = [pid EXCEPT !.path = path1, !.pc = pc1]
    BY <1>1, <1>6 DEF PidUnlink, OtherFile
  <2>3. pid.first # OtherFile => PidInvOf(path1, pid.next, pid.owner, pid.text, pc1, pid.ino)
    BY <1>1, <1>2, <1>6, InodeBound, DaemonAssumption DEF PidInvOf, PidRecord, Owners, PidUnlink, OtherFile
  <2> HIDE DEF path1, pc1
  <2>4. /\ pid' \in PidRecord
        /\ pid'.path = path1 /\ pid'.next = pid.next /\ pid'.owner = pid.owner /\ pid'.text = pid.text /\ pid'.pc = pc1 /\ pid'.ino = pid.ino /\ pid'.first = pid.first
    BY <1>1, <2>1, <2>2 DEF PidRecord
  <2> QED
    BY <2>3, <2>4 DEF PidInv
<1>7. CASE PidOpen(d) /\ pid.path # OtherFile /\ pid.path # 0
  <2> DEFINE pc1 == [pid.pc EXCEPT ![d] = "lock"]
             ino1 == [pid.ino EXCEPT ![d] = pid.path]
  <2>1. pc1 \in [Daemons -> PidPlaces] /\ ino1 \in [Daemons -> Int]
    BY <1>1, <1>7 DEF PidOpen, PidRecord, Owners, PidPlaces
  <2>2. pid' = [pid EXCEPT !.pc = pc1, !.ino = ino1]
    BY <1>1, <1>7 DEF PidOpen, OtherFile
  <2>3. pid.first # OtherFile => PidInvOf(pid.path, pid.next, pid.owner, pid.text, pc1, ino1)
    BY <1>1, <1>2, <1>7, InodeBound, DaemonAssumption DEF PidInvOf, PidRecord, Owners, PidOpen, OtherFile
  <2> HIDE DEF pc1, ino1
  <2>4. /\ pid' \in PidRecord
        /\ pid'.path = pid.path /\ pid'.next = pid.next /\ pid'.owner = pid.owner /\ pid'.text = pid.text /\ pid'.pc = pc1 /\ pid'.ino = ino1 /\ pid'.first = pid.first
    BY <1>1, <2>1, <2>2 DEF PidRecord
  <2> QED
    BY <2>3, <2>4 DEF PidInv
<1>8. CASE PidOpen(d) /\ pid.path = 0
  <2> DEFINE path1 == pid.next
             ino1 == [pid.ino EXCEPT ![d] = pid.next]
             next1 == pid.next + 1
             pc1 == [pid.pc EXCEPT ![d] = "lock"]
  <2>1. path1 \in Int /\ ino1 \in [Daemons -> Int] /\ next1 \in Int /\ pc1 \in [Daemons -> PidPlaces]
    BY <1>1, <1>8 DEF PidOpen, PidRecord, Owners, PidPlaces
  <2>2. pid' = [pid EXCEPT !.path = path1, !.ino = ino1, !.next = next1, !.pc = pc1]
    BY <1>1, <1>8 DEF PidOpen, OtherFile
  <2>3. pid.first # OtherFile => PidInvOf(path1, next1, pid.owner, pid.text, pc1, ino1)
    BY <1>1, <1>2, <1>8, InodeBound, DaemonAssumption DEF PidInvOf, PidRecord, Owners, PidOpen, OtherFile
  <2> HIDE DEF path1, ino1, next1, pc1
  <2>4. /\ pid' \in PidRecord
        /\ pid'.path = path1 /\ pid'.next = next1 /\ pid'.owner = pid.owner /\ pid'.text = pid.text /\ pid'.pc = pc1 /\ pid'.ino = ino1 /\ pid'.first = pid.first
    BY <1>1, <2>1, <2>2 DEF PidRecord
  <2> QED
    BY <2>3, <2>4 DEF PidInv
<1>9. CASE PidLock(d) /\ pid' # PidFail(d)
  <2> DEFINE owner1 == [pid.owner EXCEPT ![pid.ino[d]] = d]
             pc1 == [pid.pc EXCEPT ![d] = "verify"]
  <2>1. owner1 \in Owners /\ pc1 \in [Daemons -> PidPlaces]
    BY <1>1, <1>9 DEF PidLock, PidRecord, Owners, PidPlaces
  <2>2. pid' = [pid EXCEPT !.owner = owner1, !.pc = pc1]
    BY <1>1, <1>9 DEF PidLock, OtherFile
  <2>3. pid.first # OtherFile => PidInvOf(pid.path, pid.next, owner1, pid.text, pc1, pid.ino)
    BY <1>1, <1>2, <1>9, InodeBound, DaemonAssumption DEF PidInvOf, PidRecord, Owners, PidLock, OtherFile
  <2> HIDE DEF owner1, pc1
  <2>4. /\ pid' \in PidRecord
        /\ pid'.path = pid.path /\ pid'.next = pid.next /\ pid'.owner = owner1 /\ pid'.text = pid.text /\ pid'.pc = pc1 /\ pid'.ino = pid.ino /\ pid'.first = pid.first
    BY <1>1, <2>1, <2>2 DEF PidRecord
  <2> QED
    BY <2>3, <2>4 DEF PidInv
<1>10. CASE PidVerify(d) /\ pid' # PidFail(d)
  <2> DEFINE pc1 == [pid.pc EXCEPT ![d] = "write"]
  <2>1. pc1 \in [Daemons -> PidPlaces]
    BY <1>1, <1>10 DEF PidVerify, PidRecord, Owners, PidPlaces
  <2>2. pid' = [pid EXCEPT !.pc = pc1]
    BY <1>1, <1>10 DEF PidVerify, OtherFile
  <2>3. pid.first # OtherFile => PidInvOf(pid.path, pid.next, pid.owner, pid.text, pc1, pid.ino)
    BY <1>1, <1>2, <1>10, InodeBound, DaemonAssumption DEF PidInvOf, PidRecord, Owners, PidVerify, OtherFile
  <2> HIDE DEF pc1
  <2>4. /\ pid' \in PidRecord
        /\ pid'.path = pid.path /\ pid'.next = pid.next /\ pid'.owner = pid.owner /\ pid'.text = pid.text /\ pid'.pc = pc1 /\ pid'.ino = pid.ino /\ pid'.first = pid.first
    BY <1>1, <2>1, <2>2 DEF PidRecord
  <2> QED
    BY <2>3, <2>4 DEF PidInv
<1>11. CASE PidWrite(d)
  <2> DEFINE text1 == [pid.text EXCEPT ![pid.ino[d]] = d]
             pc1 == [pid.pc EXCEPT ![d] = "up"]
  <2>1. text1 \in Owners /\ pc1 \in [Daemons -> PidPlaces]
    BY <1>1, <1>11 DEF PidWrite, PidRecord, Owners, PidPlaces
  <2>2. pid' = [pid EXCEPT !.text = text1, !.pc = pc1]
    BY <1>1, <1>11 DEF PidWrite, OtherFile
  <2>3. pid.first # OtherFile => PidInvOf(pid.path, pid.next, pid.owner, text1, pc1, pid.ino)
    BY <1>1, <1>2, <1>11, InodeBound, DaemonAssumption DEF PidInvOf, PidRecord, Owners, PidWrite, OtherFile
  <2> HIDE DEF text1, pc1
  <2>4. /\ pid' \in PidRecord
        /\ pid'.path = pid.path /\ pid'.next = pid.next /\ pid'.owner = pid.owner /\ pid'.text = text1 /\ pid'.pc = pc1 /\ pid'.ino = pid.ino /\ pid'.first = pid.first
    BY <1>1, <2>1, <2>2 DEF PidRecord
  <2> QED
    BY <2>3, <2>4 DEF PidInv
<1>12. CASE PidRemove(d)
  <2> DEFINE path1 == 0
             pc1 == [pid.pc EXCEPT ![d] = "leaving"]
  <2>1. path1 \in Int /\ pc1 \in [Daemons -> PidPlaces]
    BY <1>1, <1>12 DEF PidRemove, PidRecord, Owners, PidPlaces
  <2>2. pid' = [pid EXCEPT !.path = path1, !.pc = pc1]
    BY <1>1, <1>12 DEF PidRemove, OtherFile
  <2>3. pid.first # OtherFile => PidInvOf(path1, pid.next, pid.owner, pid.text, pc1, pid.ino)
    BY <1>1, <1>2, <1>12, InodeBound, DaemonAssumption DEF PidInvOf, PidRecord, Owners, PidRemove, OtherFile
  <2> HIDE DEF path1, pc1
  <2>4. /\ pid' \in PidRecord
        /\ pid'.path = path1 /\ pid'.next = pid.next /\ pid'.owner = pid.owner /\ pid'.text = pid.text /\ pid'.pc = pc1 /\ pid'.ino = pid.ino /\ pid'.first = pid.first
    BY <1>1, <2>1, <2>2 DEF PidRecord
  <2> QED
    BY <2>3, <2>4 DEF PidInv
<1>13. pid.path # 0 \/ pid.path # OtherFile
  BY DEF OtherFile
<1> QED
  BY <1>3, <1>4, <1>5, <1>6, <1>7, <1>8, <1>9, <1>10, <1>11, <1>12, <1>13 DEF PidOpen, PidExit, PidKilled

\* With PidInv two daemons never serve at the same time.
LEMMA PidGivesOneDaemon == PidInv => OneDaemon
  BY DEF PidInv, PidInvOf, OneDaemon, PidRecord

\* create_pid_file, in every service: at most one of the processes becomes the
\* daemon, and the pid file names it.
THEOREM OnlyOneDaemon == ServiceSpec => []OneDaemon
<1>1. ServiceInit => PidInv
  <2>1. 0 \in {0, 1, OtherFile}
    OBVIOUS
  <2> QED
    BY <2>1, PidStartInv DEF ServiceInit, DaemonIdle, DaemonInit, DaemonStart
<1>2. PidInv /\ [ServiceNext]_<<vars, dvars>> => PidInv'
  <2>1. ASSUME PidInv, UNCHANGED pid
        PROVE  PidInv'
    BY <2>1 DEF PidInv
  <2> QED
    BY <2>1, PidStep DEF ServiceNext, DaemonNext, SockStep, ConfStep, ConnNext, dvars
<1> QED
  BY <1>1, <1>2, PidGivesOneDaemon, PTL DEF ServiceSpec

(***************************************************************************)
(* Connections.  What a server and its client have sent each other decides  *)
(* where they are; that, the hooks, the rights, the user and the place in   *)
(* the lock file are kept record by record.                                 *)
(***************************************************************************)
ConnFields ==
  {"cli", "s", "c", "toS", "toC", "sproto", "cproto", "addr", "host", "ro", "slot", "uid",
   "chrooted", "sanitize", "munge", "early", "pre", "post", "wrote"}

\* The messages of both sides.
Hello == [t |-> "greet", p |-> 31, sub |-> 0]
HelloOf(cli) == [t |-> "greet", p |-> cli.proto, sub |-> cli.sub]
AskOf(cli) == IF cli.mod = "#list" THEN [t |-> "list"] ELSE [t |-> "module", mod |-> cli.mod]
ArgsOf(cli) == [t |-> "args", want |-> cli.want, bad |-> cli.bad]
Ready == [t |-> "ok"]
ChallengeOf(k) == [t |-> "authreqd", ch |-> gen_challenge(k)]
AnswerOf(k, cli) == auth_client(cli.user, cli.pass, gen_challenge(k))

\* Which messages are under way when the server is at s and the client at c.
Talk(k, s, c, toS, toC, cli) ==
  /\ s \in {"off", "none", "header", "greet", "request", "access", "claim", "auth", "answer", "hooks",
            "enter", "args", "recv", "send", "transfer"}
  /\ s = "off" => c = "off"
  /\ s = "none" => c = "greet" /\ toS = <<>> /\ toC = <<>>
  /\ s = "header" => /\ toC = <<>>
                     /\ (c = "greet" /\ toS = <<>>) \/ (c \in {"greeting", "gone"} /\ toS = <<HelloOf(cli)>>)
  /\ s = "greet" =>
       \/ c = "greet" /\ toS = <<>> /\ toC = <<Hello>>
       \/ c = "greeting" /\ toS = <<HelloOf(cli)>> /\ toC = <<Hello>>
       \/ c = "wait" /\ toS = <<HelloOf(cli), AskOf(cli)>> /\ toC = <<>>
       \/ c = "gone" /\ toS \in {<<HelloOf(cli)>>, <<HelloOf(cli), AskOf(cli)>>}
       \/ c = "failed" /\ toS = <<HelloOf(cli)>>
  /\ s = "request" =>
       \/ c = "greeting" /\ toS = <<>> /\ toC = <<Hello>>
       \/ c = "wait" /\ toS = <<AskOf(cli)>> /\ toC = <<>>
       \/ c = "gone" /\ toS \in {<<>>, <<AskOf(cli)>>}
       \/ c = "failed" /\ toS = <<>>
  /\ s \in {"access", "claim", "auth", "hooks", "enter"} =>
       (c = "wait" /\ toS = <<>> /\ toC = <<>>) \/ (c = "gone" /\ toS = <<>>)
  /\ s = "answer" =>
       \/ c = "wait" /\ toS = <<>> /\ toC = <<ChallengeOf(k)>>
       \/ c = "wait" /\ toS = <<AnswerOf(k, cli)>> /\ toC = <<>>
       \/ c = "gone" /\ toS \in {<<>>, <<AnswerOf(k, cli)>>}
  /\ s = "args" =>
       \/ c = "wait" /\ toS = <<>> /\ toC = <<Ready>>
       \/ c = "transfer" /\ toS = <<ArgsOf(cli)>> /\ toC = <<>>
       \/ c = "gone" /\ toS \in {<<>>, <<ArgsOf(cli)>>}
  /\ s \in {"recv", "send", "transfer"} => (c = "transfer" /\ toC = <<>>) \/ c = "gone"

\* The version that each side goes on with.
ServerVersion(cli) == exchange_protocols(31, 0, cli.proto, cli.sub)
ClientVersion(cli) == exchange_protocols(cli.proto, IF cli.sub < 0 THEN 0 ELSE cli.sub, 31, 0)
VersionsKept(s, c, sproto, cproto, cli) ==
  /\ s \in {"request", "access"} \union Inside => sproto = ServerVersion(cli) /\ sproto >= 0
  /\ c \in {"wait", "transfer"} => cproto = ClientVersion(cli)

\* The hooks that ran, by the place of the serving process.
HooksSound(s, early, pre, post, m) ==
  /\ s \notin {"enter", "args", "recv", "send", "transfer", "over"} =>
       early = "none" /\ pre = "none" /\ post = "none"
  /\ s \in {"enter", "args", "recv", "send", "transfer"} =>
       /\ m.early # "fails" /\ post # "ran"
       /\ m.early # "none" => early = "ran"
       /\ m.post => post = "waits"
  /\ s \in {"enter", "args"} => pre = (IF m.pre = "none" THEN "none" ELSE "waits")
  /\ s \in {"recv", "send", "transfer"} => m.pre # "fails" /\ ((pre = "ran") = (m.pre # "none"))
  /\ pre = "ran" /\ m.early # "none" => early = "ran"
  /\ (early = "ran" \/ pre = "ran") /\ m.post => post # "none"
  /\ post = "ran" => s = "over"

\* The rights that the process has given up.
Jailed(s, uid, chrooted, sanitize, munge, m, set) ==
  /\ s \in {"greet", "request", "access", "claim", "auth", "answer", "hooks", "enter"} => chrooted = set.chroot
  /\ s \in {"args", "recv", "send", "transfer"} =>
       /\ uid = m.uid
       /\ m.inner \/ ~chrooted => sanitize
       /\ m.munge = 0 \/ munge \/ (chrooted /\ ~sanitize)

\* Who the client is, and whether it may write.
Allowed(s, ro, wrote, cli, m) ==
  /\ s \in Admitted => (m.auth # <<>> => KnownUser(m, cli)) /\ (~ro => MayWrite(m, cli))
  /\ wrote => MayWrite(m, cli)

\* The place in the lock file.
Waits(s, post) == s \in Inside \ {"claim"} \/ (s = "over" /\ post = "waits")
Placed(s, post, slot, m) ==
  /\ slot \in Int
  /\ Waits(s, post) => m.max = 0 \/ (m.max > 0 /\ slot \in 1 .. m.max)
  /\ slot # 0 => Waits(s, post)

\* The module is one of the configuration as soon as it was asked for.
Found(s, post, cli, mods) == s \in {"access"} \union Inside \/ post # "none" => cli.mod \in DOMAIN mods

ConnSound(k, r, mods, set) ==
  /\ DOMAIN r = ConnFields
  /\ r.cli.proto \in Int /\ r.cli.sub \in Int /\ r.cli.groups \in Seq(STRING)
  /\ r.s # "over" => /\ Talk(k, r.s, r.c, r.toS, r.toC, r.cli)
                     /\ VersionsKept(r.s, r.c, r.sproto, r.cproto, r.cli)
  /\ HooksSound(r.s, r.early, r.pre, r.post, mods[r.cli.mod])
  /\ Jailed(r.s, r.uid, r.chrooted, r.sanitize, r.munge, mods[r.cli.mod], set)
  /\ Allowed(r.s, r.ro, r.wrote, r.cli, mods[r.cli.mod])
  /\ Placed(r.s, r.post, r.slot, mods[r.cli.mod])
  /\ Found(r.s, r.post, r.cli, mods)

\* The configuration is the one of a scenario.
Configured ==
  /\ DOMAIN serving = {"set", "modules", "fails"}
  /\ serving.set.chroot \in BOOLEAN
  /\ \A n \in DOMAIN serving.modules : ModuleType(serving.modules[n])

\* The lock file and the connections name each other.
SlotsSound ==
  /\ DOMAIN slots = 1 .. 1 + Cardinality(Conns)
  /\ \A k \in Conns : conn[k].slot # 0 => conn[k].slot \in DOMAIN slots /\ slots[conn[k].slot] = k
  /\ \A i \in DOMAIN slots : slots[i] # 0 => slots[i] \in Conns /\ conn[slots[i]].slot = i

ConnInv ==
  /\ DOMAIN conn = Conns /\ Configured /\ SlotsSound
  /\ \A k \in Conns : ConnSound(k, conn[k], serving.modules, serving.set)

\* A set of natural numbers that is not empty has a smallest one.
LEMMA Smallest ==
  ASSUME NEW S, S \subseteq Nat, S # {}
  PROVE  \E x \in S : \A y \in S : x <= y
<1>1. IsWellFoundedOn(OpToRel(<, Nat), Nat)
  BY NatLessThanWellFounded
<1>2. PICK x \in S : \A y \in S : ~(<<y, x>> \in OpToRel(<, Nat))
  BY <1>1, WFMin, Zenon
<1>3. ASSUME NEW y \in S
      PROVE  x <= y
  <2>1. x \in Nat /\ y \in Nat /\ ~(<<y, x>> \in OpToRel(<, Nat))
    BY <1>2
  <2> QED
    BY <2>1 DEF OpToRel
<1> QED
  BY <1>2, <1>3

\* exchange_protocols: unless the server refuses, both sides take the same
\* version.
LEMMA VersionsMeet ==
  ASSUME NEW cli, cli.proto \in Int, cli.sub \in Int, ServerVersion(cli) >= 0
  PROVE  ServerVersion(cli) = ClientVersion(cli)
BY DEF ServerVersion, ClientVersion, exchange_protocols

\* The first line for a user or a group, if there is one, counts.
SecretsOf(m, g, n) == {i \in 1 .. Len(m.secrets) : m.secrets[i].group = g /\ m.secrets[i].name = n}
FirstOf(S) == CHOOSE i \in S : \A j \in S : i <= j
LEMMA FirstSecret ==
  ASSUME NEW m, ModuleType(m), NEW g, NEW n, SecretsOf(m, g, n) # {}
  PROVE  /\ FirstOf(SecretsOf(m, g, n)) \in ValidSecrets(m)
         /\ m.secrets[FirstOf(SecretsOf(m, g, n))].group = g
         /\ m.secrets[FirstOf(SecretsOf(m, g, n))].name = n
<1> DEFINE S == SecretsOf(m, g, n)
           f == FirstOf(S)
<1>1. Len(m.secrets) \in Nat
  <2>1. m.secrets \in Seq(SecretLine)
    BY DEF ModuleType
  <2> QED
    BY <2>1
<1>2. S \subseteq Nat
  BY <1>1 DEF SecretsOf
<1>3. f \in S /\ \A j \in S : f <= j
  BY <1>2, Smallest, Zenon DEF FirstOf
<1> HIDE DEF f, S
<1>4. f \in 1 .. Len(m.secrets) /\ m.secrets[f].group = g /\ m.secrets[f].name = n
  BY <1>3, Zenon DEF SecretsOf, S
<1>5. ASSUME NEW j \in 1 .. f - 1, m.secrets[j].group = g /\ m.secrets[j].name = n
      PROVE  FALSE
  <2>1. j \in 1 .. Len(m.secrets) /\ j < f
    <3>1. f \in 1 .. Len(m.secrets)
      BY <1>4
    <3> QED
      BY <1>1, <3>1
  <2>2. j \in S
    BY <2>1, <1>5, Zenon DEF SecretsOf, S
  <2> QED
    BY <1>2, <1>3, <2>1, <2>2
<1> QED
  BY <1>4, <1>5, Zenon DEF ValidSecrets, f, S

\* auth_server: who gets through is known, and with a module that is not read
\* only may write.
LEMMA UserKnown ==
  ASSUME NEW m, ModuleType(m), NEW cli, cli.groups \in Seq(STRING), NEW k, NEW a,
         a = auth_server(m, UserOf(cli), cli.groups, gen_challenge(k), generate_hash(cli.pass, gen_challenge(k))),
         a.ok
  PROVE  KnownUser(m, cli) /\ (~a.ro => MayWrite(m, cli))
<1> DEFINE hits == {i \in 1 .. Len(m.auth) : RuleMatches(m.auth[i], UserOf(cli), cli.groups)}
           at == CHOOSE i \in hits : \A j \in hits : i <= j
           name == m.auth[at].name
           groups == cli.groups
           G == {i \in 1 .. Len(groups) : name \in {groups[i], "*"}}
           gi == CHOOSE i \in 1 .. Len(groups) : /\ name \in {groups[i], "*"}
                                                 /\ \A j \in 1 .. i - 1 : name \notin {groups[j], "*"}
           group == IF m.auth[at].group THEN groups[gi] ELSE ""
           ok == hits # {} /\ m.auth[at].opt # "deny"
                   /\ check_secret(m.secrets, UserOf(cli), group, gen_challenge(k), generate_hash(cli.pass, gen_challenge(k)))
<1>1. /\ a = [ok |-> ok, ro |-> IF ok /\ m.auth[at].opt = "ro" THEN TRUE
                                ELSE IF ok /\ m.auth[at].opt = "rw" THEN FALSE ELSE m.ro]
  BY Zenon DEF auth_server
<1>2. ok
  <2> HIDE DEF ok, at, hits
  <2> QED
    BY <1>1
<1>3. RuleFor(m, cli) = m.auth[at]
  BY <1>2, Zenon DEF RuleFor
<1>4. at \in 1 .. Len(m.auth) /\ RuleMatches(m.auth[at], UserOf(cli), groups)
  <2>1. m.auth \in Seq(AuthRule)
    BY DEF ModuleType
  <2>2. hits \subseteq Nat
    BY <2>1
  <2>4. hits # {}
    BY <1>2, Zenon
  <2> HIDE DEF hits
  <2>3. at \in hits
    BY <2>2, <2>4, Smallest, Zenon
  <2> QED
    BY <2>3, Zenon DEF hits
<1>5. m.auth[at].opt # "deny" /\ m.auth # <<>>
  <2>1. m.auth \in Seq(AuthRule)
    BY DEF ModuleType
  <2>2. m.auth[at].opt # "deny"
    BY <1>2, Zenon
  <2> HIDE DEF at
  <2>3. m.auth # <<>>
    BY <1>4, <2>1
  <2> QED
    BY <2>2, <2>3
<1>6. ~a.ro => MayWrite(m, cli)
  <2>1. m.ro \in BOOLEAN
    BY DEF ModuleType
  <2> HIDE DEF hits, at, ok
  <2>2. a.ro = IF m.auth[at].opt = "ro" THEN TRUE ELSE IF m.auth[at].opt = "rw" THEN FALSE ELSE m.ro
    BY <1>1, <1>2
  <2> QED
    BY <1>3, <1>5, <2>1, <2>2 DEF MayWrite
<1>7. m.auth[at].group => groups[gi] \in ToSet(groups)
  <2>1. ASSUME m.auth[at].group
        PROVE  groups[gi] \in ToSet(groups)
    <3>0. G \subseteq Nat
      <4> HIDE DEF name
      <4> QED
        OBVIOUS
    <3>1. G # {}
      BY <1>4, <2>1, Zenon DEF RuleMatches
    <3>2. PICK i \in G : \A j \in G : i <= j
      BY <3>0, <3>1, Smallest, Zenon
    <3>3. /\ name \in {groups[i], "*"} /\ i \in 1 .. Len(groups)
          /\ \A j \in 1 .. i - 1 : name \notin {groups[j], "*"}
      <4> HIDE DEF name
      <4>1. i \in 1 .. Len(groups) /\ name \in {groups[i], "*"} /\ Len(groups) \in Nat
        BY <3>2
      <4>2. ASSUME NEW j \in 1 .. i - 1, name \in {groups[j], "*"}
            PROVE  FALSE
        <5>1. j \in 1 .. Len(groups) /\ j < i
          BY <4>1
        <5>2. j \in G
          BY <4>2, <5>1, Zenon
        <5> QED
          BY <3>2, <4>1, <5>1, <5>2
      <4> QED
        BY <4>1, <4>2, Zenon
    <3> HIDE DEF name, at
    <3>4. gi \in 1 .. Len(groups)
      BY <3>3, Zenon
    <3> HIDE DEF gi
    <3>5. gi \in DOMAIN groups
      BY <3>4
    <3> QED
      BY <3>5, Zenon DEF ToSet
  <2> QED
    BY <2>1
<1> DEFINE U == SecretsOf(m, FALSE, UserOf(cli))
           W == SecretsOf(m, TRUE, group)
           uf == FirstOf(U)
           wf == FirstOf(W)
           h == generate_hash(cli.pass, gen_challenge(k))
<1>8. \/ U # {} /\ h = generate_hash(m.secrets[uf].pass, gen_challenge(k))
      \/ group # "" /\ W # {} /\ h = generate_hash(m.secrets[wf].pass, gen_challenge(k))
  BY <1>2, Zenon DEF check_secret, SecretsOf, FirstOf
<1>9. CASE U # {} /\ h = generate_hash(m.secrets[uf].pass, gen_challenge(k))
  <2>1. uf \in ValidSecrets(m) /\ m.secrets[uf].group = FALSE /\ m.secrets[uf].name = UserOf(cli)
    <3>1. SecretsOf(m, FALSE, UserOf(cli)) # {}
      BY <1>9
    <3>2. \A g, n : SecretsOf(m, g, n) # {} =>
            /\ FirstOf(SecretsOf(m, g, n)) \in ValidSecrets(m)
            /\ m.secrets[FirstOf(SecretsOf(m, g, n))].group = g
            /\ m.secrets[FirstOf(SecretsOf(m, g, n))].name = n
      BY FirstSecret, Zenon
    <3> QED
      BY <3>1, <3>2
  <2>2. m.secrets[uf].pass = cli.pass
    <3> HIDE DEF uf
    <3> QED
      BY <1>9 DEF generate_hash
  <2> HIDE DEF uf, at
  <2> QED
    BY <1>3, <1>5, <1>6, <2>1, <2>2 DEF KnownUser
<1>10. CASE group # "" /\ W # {} /\ h = generate_hash(m.secrets[wf].pass, gen_challenge(k))
  <2>1. wf \in ValidSecrets(m) /\ m.secrets[wf].group = TRUE /\ m.secrets[wf].name = group
    <3>1. SecretsOf(m, TRUE, group) # {}
      BY <1>10
    <3> HIDE DEF group
    <3>2. \A g, n : SecretsOf(m, g, n) # {} =>
            /\ FirstOf(SecretsOf(m, g, n)) \in ValidSecrets(m)
            /\ m.secrets[FirstOf(SecretsOf(m, g, n))].group = g
            /\ m.secrets[FirstOf(SecretsOf(m, g, n))].name = n
      BY FirstSecret, Zenon
    <3> QED
      BY <3>1, <3>2
  <2>2. m.secrets[wf].pass = cli.pass
    <3> HIDE DEF wf, W, group
    <3> QED
      BY <1>10 DEF generate_hash
  <2>3. group \in ToSet(groups)
    BY <1>7, <1>10, Zenon
  <2> HIDE DEF wf, at, group
  <2> QED
    BY <1>3, <1>5, <1>6, <2>1, <2>2, <2>3 DEF KnownUser
<1> QED
  BY <1>8, <1>9, <1>10

\* How a step of connection k moves its place in the lock file.
SlotMove(k, old, new) ==
  \/ slots' = slots /\ new = old
  \/ new = 0 /\ old # 0 /\ slots' = [slots EXCEPT ![old] = 0]
  \/ old = 0 /\ \E i \in DOMAIN slots : slots[i] = 0 /\ new = i /\ i # 0 /\ slots' = [slots EXCEPT ![i] = k]
ServingKept == serving' = serving \/ serving' = [serving EXCEPT !.fails = @ + 1]

LEMMA SlotsKept ==
  ASSUME DOMAIN conn = Conns, SlotsSound, NEW k \in Conns, NEW r, conn' = [conn EXCEPT ![k] = r],
         SlotMove(k, conn[k].slot, r.slot)
  PROVE  SlotsSound'
<1>1. 0 \notin Conns
  BY DaemonAssumption
<1>2. conn'[k] = r /\ \A j \in Conns : j # k => conn'[j] = conn[j]
  OBVIOUS
<1> DEFINE N == 1 .. 1 + Cardinality(Conns)
<1>3. DOMAIN slots = N
  BY DEF SlotsSound
<1> HIDE DEF N
<1>4. CASE slots' = slots /\ r.slot = conn[k].slot
  <2>1. \A j \in Conns : conn'[j].slot = conn[j].slot
    BY <1>2, <1>4
  <2> QED
    BY <1>4, <2>1 DEF SlotsSound
<1>5. CASE r.slot = 0 /\ conn[k].slot # 0 /\ slots' = [slots EXCEPT ![conn[k].slot] = 0]
  <2>1. conn[k].slot \in N /\ slots[conn[k].slot] = k
    BY <1>3, <1>5 DEF SlotsSound
  <2>2. DOMAIN slots' = N /\ \A i \in N : slots'[i] = IF i = conn[k].slot THEN 0 ELSE slots[i]
    BY <1>3, <1>5
  <2>3. ASSUME NEW j \in Conns, conn'[j].slot # 0
        PROVE  conn'[j].slot \in N /\ slots'[conn'[j].slot] = j
    <3>1. j # k /\ conn'[j] = conn[j]
      BY <1>2, <1>5, <2>3
    <3>2. conn[j].slot \in N /\ slots[conn[j].slot] = j
      BY <1>3, <2>3, <3>1 DEF SlotsSound
    <3> QED
      BY <2>1, <2>2, <3>1, <3>2
  <2>4. ASSUME NEW i \in N, slots'[i] # 0
        PROVE  slots'[i] \in Conns /\ conn'[slots'[i]].slot = i
    <3>1. i # conn[k].slot /\ slots'[i] = slots[i]
      BY <2>2, <2>4
    <3>2. slots[i] \in Conns /\ conn[slots[i]].slot = i
      BY <1>3, <2>4, <3>1 DEF SlotsSound
    <3>3. slots[i] # k
      BY <3>1, <3>2
    <3> QED
      BY <1>2, <3>1, <3>2, <3>3
  <2> QED
    BY <2>2, <2>3, <2>4 DEF SlotsSound, N
<1>6. ASSUME conn[k].slot = 0, NEW i \in DOMAIN slots, slots[i] = 0, r.slot = i, i # 0,
             slots' = [slots EXCEPT ![i] = k]
      PROVE  SlotsSound'
  <2>2. DOMAIN slots' = N /\ \A j \in N : slots'[j] = IF j = i THEN k ELSE slots[j]
    BY <1>3, <1>6
  <2>3. ASSUME NEW j \in Conns, conn'[j].slot # 0
        PROVE  conn'[j].slot \in N /\ slots'[conn'[j].slot] = j
    <3>1. CASE j = k
      BY <1>2, <1>3, <1>6, <2>2, <3>1
    <3>2. CASE j # k
      <4>1. conn'[j] = conn[j]
        BY <1>2, <3>2
      <4>2. conn[j].slot \in N /\ slots[conn[j].slot] = j
        BY <1>3, <2>3, <4>1 DEF SlotsSound
      <4>3. conn[j].slot # i
        BY <1>1, <1>6, <4>2
      <4> QED
        BY <2>2, <4>1, <4>2, <4>3
    <3> QED
      BY <3>1, <3>2
  <2>4. ASSUME NEW j \in N, slots'[j] # 0
        PROVE  slots'[j] \in Conns /\ conn'[slots'[j]].slot = j
    <3>1. CASE j = i
      BY <1>2, <1>6, <2>2, <3>1
    <3>2. CASE j # i
      <4>1. slots'[j] = slots[j]
        BY <2>2, <3>2
      <4>2. slots[j] \in Conns /\ conn[slots[j]].slot = j
        BY <1>3, <2>4, <4>1 DEF SlotsSound
      <4>3. slots[j] # k
        <5>1. j # 0
          BY DEF N
        <5> QED
          BY <1>6, <4>2, <5>1
      <4> QED
        BY <1>2, <4>1, <4>2, <4>3
    <3> QED
      BY <3>1, <3>2
  <2> QED
    BY <2>2, <2>3, <2>4 DEF SlotsSound, N
<1> QED
  BY <1>4, <1>5, <1>6 DEF SlotMove

\* A step of one connection keeps the invariant when it keeps its own part.
LEMMA ConnMoves ==
  ASSUME ConnInv, NEW k \in Conns, NEW r, conn' = [conn EXCEPT ![k] = r], ServingKept,
         ConnSound(k, r, serving.modules, serving.set), SlotMove(k, conn[k].slot, r.slot)
  PROVE  ConnInv'
<1>1. DOMAIN conn = Conns /\ SlotsSound /\ Configured
  BY DEF ConnInv
<1>2. SlotsSound'
  BY <1>1, SlotsKept, Zenon
<1>3. /\ serving'.modules = serving.modules /\ serving'.set = serving.set
      /\ DOMAIN serving' = {"set", "modules", "fails"}
  BY <1>1 DEF ServingKept, Configured
<1>4. DOMAIN conn' = Conns /\ conn'[k] = r /\ \A j \in Conns : j # k => conn'[j] = conn[j]
  BY <1>1
<1>5. \A j \in Conns : ConnSound(j, conn'[j], serving'.modules, serving'.set)
  <2>1. \A j \in Conns : ConnSound(j, conn[j], serving.modules, serving.set)
    BY DEF ConnInv
  <2> QED
    BY <1>3, <1>4, <2>1
<1>6. Configured'
  BY <1>1, <1>3, Zenon DEF Configured
<1> QED
  BY <1>2, <1>4, <1>5, <1>6, Zenon DEF ConnInv

\* Queues of one and two messages.
LEMMA Queues ==
  ASSUME NEW x, NEW y
  PROVE  /\ Head(<<x>>) = x /\ Tail(<<x>>) = <<>> /\ Append(<<>>, x) = <<x>> /\ <<x>> # <<>>
         /\ Append(<<x>>, y) = <<x, y>> /\ Head(<<x, y>>) = x /\ Tail(<<x, y>>) = <<y>>
<1>1. Head(<<x>>) = x /\ Append(<<>>, x) = <<x>> /\ <<x>> # <<>>
  OBVIOUS
<1>2. Tail(<<x>>) = <<>>
  <2>1. <<x>> \in Seq({x}) /\ <<x>> # <<>> /\ Len(<<x>>) = 1
    OBVIOUS
  <2>2. Tail(<<x>>) \in Seq({x}) /\ Len(Tail(<<x>>)) = 0
    BY <2>1
  <2> QED
    BY <2>2
<1>3. Append(<<x>>, y) = <<x, y>>
  <2> DEFINE a == Append(<<x>>, y)
  <2>1. <<x>> \in Seq({x, y}) /\ Len(<<x>>) = 1 /\ <<x>>[1] = x
    OBVIOUS
  <2>2. a \in Seq({x, y}) /\ Len(a) = 2 /\ a[1] = x /\ a[2] = y
    BY <2>1
  <2> HIDE DEF a
  <2>3. a = <<x, y>>
    BY <2>2
  <2> QED
    BY <2>3 DEF a
<1>4. Head(<<x, y>>) = x
  OBVIOUS
<1>5. Tail(<<x, y>>) = <<y>>
  OBVIOUS
<1> QED
  BY <1>1, <1>2, <1>3, <1>4, <1>5, Zenon

\* What a step of the client leaves alone.
ServerKept(r1, r) ==
  /\ DOMAIN r1 = DOMAIN r
  /\ r1.cli = r.cli /\ r1.s = r.s /\ r1.ro = r.ro /\ r1.slot = r.slot /\ r1.uid = r.uid
  /\ r1.chrooted = r.chrooted /\ r1.sanitize = r.sanitize /\ r1.munge = r.munge
  /\ r1.early = r.early /\ r1.pre = r.pre /\ r1.post = r.post /\ r1.wrote = r.wrote /\ r1.sproto = r.sproto

LEMMA ClientMoves ==
  ASSUME NEW k, NEW r, NEW mods, NEW set, ConnSound(k, r, mods, set), NEW r1, ServerKept(r1, r),
         r.s # "over" => Talk(k, r.s, r1.c, r1.toS, r1.toC, r.cli) /\ VersionsKept(r.s, r1.c, r.sproto, r1.cproto, r.cli)
  PROVE  ConnSound(k, r1, mods, set)
BY Zenon DEF ConnSound, ServerKept

LEMMA ClientGreetSound ==
  ASSUME ConnInv, NEW k \in Conns, ClientGreet(k)
  PROVE  ConnInv'
<1> DEFINE r == conn[k]
           r1 == Reply([r EXCEPT !.c = "greeting"], [t |-> "greet", p |-> r.cli.proto, sub |-> r.cli.sub])
<1>1. conn' = [conn EXCEPT ![k] = r1] /\ slots' = slots /\ serving' = serving /\ r.c = "greet" /\ r.s # "none"
  BY DEF ClientGreet, Stay, Set
<1>2. ConnSound(k, r, serving.modules, serving.set) /\ DOMAIN r = ConnFields
  BY DEF ConnInv, ConnSound
<1>3. ServerKept(r1, r) /\ r1.c = "greeting" /\ r1.toS = Append(r.toS, HelloOf(r.cli)) /\ r1.toC = r.toC /\ r1.cproto = r.cproto
  BY <1>2 DEF ServerKept, ConnFields, Reply, HelloOf
<1> HIDE DEF r1, r
<1>4. ASSUME r.s # "over"
      PROVE  Talk(k, r.s, r1.c, r1.toS, r1.toC, r.cli) /\ VersionsKept(r.s, r1.c, r.sproto, r1.cproto, r.cli)
  <2>1. Talk(k, r.s, r.c, r.toS, r.toC, r.cli) /\ VersionsKept(r.s, r.c, r.sproto, r.cproto, r.cli)
    BY <1>2, <1>4 DEF ConnSound
  <2>2. r.toS = <<>> /\ ((r.s = "header" /\ r.toC = <<>>) \/ (r.s = "greet" /\ r.toC = <<Hello>>))
    BY <1>1, <2>1 DEF Talk
  <2>3. r1.toS = <<HelloOf(r.cli)>>
    BY <1>3, <2>2, Queues
  <2> QED
    BY <1>3, <2>1, <2>2, <2>3 DEF Talk, VersionsKept
<1>5. ConnSound(k, r1, serving.modules, serving.set)
  BY <1>2, <1>3, <1>4, ClientMoves, Zenon
<1>6. ServingKept /\ SlotMove(k, conn[k].slot, r1.slot)
  BY <1>1, <1>3 DEF ServingKept, SlotMove, ServerKept, r
<1> QED
  BY <1>1, <1>5, <1>6, ConnMoves, Zenon

\* ClientEof and ClientQuits: the client is gone or has failed.
LEMMA ClientEndsSound ==
  ASSUME ConnInv, NEW k \in Conns, ClientEof(k) \/ ClientQuits(k)
  PROVE  ConnInv'
<1> DEFINE r == conn[k]
<1>0. PICK x \in {"failed", "gone"} : /\ conn' = [conn EXCEPT ![k] = [r EXCEPT !.c = x]] /\ slots' = slots /\ ServingKept
                                      /\ r.c \in {"greeting", "wait", "transfer"} /\ (x = "gone" \/ r.s = "over")
  BY DEF ClientEof, ClientQuits, Stay, Set, ServingKept
<1> DEFINE r1 == [r EXCEPT !.c = x]
<1>2. ConnSound(k, r, serving.modules, serving.set) /\ DOMAIN r = ConnFields
  BY DEF ConnInv, ConnSound
<1>3. ServerKept(r1, r) /\ r1.c = x /\ r1.toS = r.toS /\ r1.toC = r.toC /\ r1.cproto = r.cproto
  BY <1>2 DEF ServerKept, ConnFields
<1>1. conn' = [conn EXCEPT ![k] = r1]
  BY <1>0
<1> HIDE DEF r1, r
<1>4. ASSUME r.s # "over"
      PROVE  Talk(k, r.s, r1.c, r1.toS, r1.toC, r.cli) /\ VersionsKept(r.s, r1.c, r.sproto, r1.cproto, r.cli)
  <2>1. Talk(k, r.s, r.c, r.toS, r.toC, r.cli) /\ VersionsKept(r.s, r.c, r.sproto, r.cproto, r.cli)
    BY <1>2, <1>4 DEF ConnSound
  <2>2. r1.c = "gone" /\ r1.toS = r.toS /\ r1.toC = r.toC /\ r.c \in {"greeting", "wait", "transfer"}
    BY <1>0, <1>3, <1>4
  <2> QED
    BY <1>3, <2>1, <2>2 DEF Talk, VersionsKept
<1>5. ConnSound(k, r1, serving.modules, serving.set)
  BY <1>2, <1>3, <1>4, ClientMoves, Zenon
<1>6. ServingKept /\ SlotMove(k, conn[k].slot, r1.slot)
  BY <1>0, <1>3 DEF SlotMove, ServerKept, r
<1> QED
  BY <1>1, <1>5, <1>6, ConnMoves, Zenon

\* What the client makes of a message.
ReadBy(q, m, p) ==
  CASE m.t = "greet" /\ p < 0 -> [q EXCEPT !.c = "failed"]
    [] m.t = "greet" /\ p >= 0 -> Reply([q EXCEPT !.c = "wait", !.cproto = p],
         IF q.cli.mod = "#list" THEN [t |-> "list"] ELSE [t |-> "module", mod |-> q.cli.mod])
    [] m.t = "authreqd" -> Reply(q, auth_client(q.cli.user, q.cli.pass, m.ch))
    [] m.t = "ok" -> Reply([q EXCEPT !.c = "transfer"],
                           [t |-> "args", want |-> q.cli.want, bad |-> q.cli.bad])
    [] m.t = "exit" -> [q EXCEPT !.c = "listed"]
    [] m.t = "done" -> [q EXCEPT !.c = "done"]
    [] OTHER -> [q EXCEPT !.c = "failed"]

LEMMA ReadByKeeps ==
  ASSUME NEW r, DOMAIN r = ConnFields, NEW q, ServerKept(q, r), NEW m, NEW p
  PROVE  ServerKept(ReadBy(q, m, p), r)
<1>1. DOMAIN q = ConnFields
  BY DEF ServerKept
<1>2. \A x : ServerKept([q EXCEPT !.c = x], r)
  BY <1>1 DEF ServerKept, ConnFields
<1>3. \A x, y, z : ServerKept(Reply([q EXCEPT !.c = x, !.cproto = y], z), r)
  BY <1>1 DEF ServerKept, ConnFields, Reply
<1>4. \A x, z : ServerKept(Reply([q EXCEPT !.c = x], z), r)
  BY <1>1 DEF ServerKept, ConnFields, Reply
<1>5. \A z : ServerKept(Reply(q, z), r)
  BY <1>1 DEF ServerKept, ConnFields, Reply
<1>6. CASE m.t = "greet" /\ p < 0
  BY <1>2, <1>3, <1>6, Zenon DEF ReadBy
<1>7. CASE m.t = "greet" /\ p >= 0 /\ ~(p < 0)
  BY <1>3, <1>7, Zenon DEF ReadBy
<1>8. CASE m.t # "greet" \/ (~(p < 0) /\ ~(p >= 0))
  <2>1. CASE m.t = "authreqd"
    <3>1. ReadBy(q, m, p) = Reply(q, auth_client(q.cli.user, q.cli.pass, m.ch))
      BY <1>8, <2>1 DEF ReadBy
    <3> QED
      BY <1>5, <3>1, Zenon
  <2>2. CASE m.t = "ok"
    <3>1. ReadBy(q, m, p) = Reply([q EXCEPT !.c = "transfer"], [t |-> "args", want |-> q.cli.want, bad |-> q.cli.bad])
      BY <1>8, <2>2 DEF ReadBy
    <3> QED
      BY <1>4, <3>1, Zenon
  <2>3. CASE m.t \notin {"authreqd", "ok"}
    <3>1. \E x : ReadBy(q, m, p) = [q EXCEPT !.c = x]
      BY <1>8, <2>3 DEF ReadBy
    <3> QED
      BY <1>2, <3>1, Zenon
  <2> QED
    BY <2>1, <2>2, <2>3
<1> QED
  BY <1>6, <1>7, <1>8

LEMMA ClientReadsSound ==
  ASSUME ConnInv, NEW k \in Conns, ClientReads(k)
  PROVE  ConnInv'
<1> DEFINE r == conn[k]
           m == Head(r.toC)
           q == [r EXCEPT !.toC = Tail(@)]
           p == exchange_protocols(q.cli.proto, IF q.cli.sub < 0 THEN 0 ELSE q.cli.sub, m.p, m.sub)
           r1 == ReadBy(q, m, p)
<1>1. /\ conn' = [conn EXCEPT ![k] = r1] /\ slots' = slots /\ serving' = serving
      /\ r.c \in {"greeting", "wait", "transfer"} /\ r.toC # <<>>
  BY Zenon DEF ClientReads, Stay, Set, ReadBy
<1>2. ConnSound(k, r, serving.modules, serving.set) /\ DOMAIN r = ConnFields
  BY DEF ConnInv, ConnSound
<1>3. /\ ServerKept(q, r) /\ DOMAIN q = ConnFields
      /\ q.c = r.c /\ q.toS = r.toS /\ q.toC = Tail(r.toC) /\ q.cproto = r.cproto
  BY <1>2 DEF ServerKept, ConnFields
<1> HIDE DEF q
<1>4. ServerKept(r1, r)
  BY <1>2, <1>3, ReadByKeeps, Zenon
<1> HIDE DEF r1, r
<1>5. ASSUME r.s # "over"
      PROVE  Talk(k, r.s, r1.c, r1.toS, r1.toC, r.cli) /\ VersionsKept(r.s, r1.c, r.sproto, r1.cproto, r.cli)
  <2>1. Talk(k, r.s, r.c, r.toS, r.toC, r.cli) /\ VersionsKept(r.s, r.c, r.sproto, r.cproto, r.cli)
        /\ r.cli.proto \in Int /\ r.cli.sub \in Int
    BY <1>2, <1>5 DEF ConnSound
  <2>2. q.cli = r.cli
    BY <1>3 DEF ServerKept
  <2>3. CASE r.c = "greeting"
    <3>1. /\ r.toC = <<Hello>>
          /\ (r.s = "greet" /\ r.toS = <<HelloOf(r.cli)>>) \/ (r.s = "request" /\ r.toS = <<>>)
      BY <1>1, <2>1, <2>3 DEF Talk
    <3>2. m = Hello /\ q.toC = <<>>
      BY <1>3, <2>1, <2>3, <3>1, Queues DEF Talk
    <3>3. p = ClientVersion(r.cli) /\ p \in Int
      BY <2>1, <2>2, <3>2 DEF ClientVersion, Hello, exchange_protocols
    <3>4. CASE p < 0
      <4>1. r1 = [q EXCEPT !.c = "failed"]
        BY <3>2, <3>3, <3>4 DEF ReadBy, r1, Hello
      <4>2. r1.c = "failed" /\ r1.toS = r.toS
        BY <1>3, <4>1 DEF ConnFields
      <4> QED
        BY <2>1, <3>1, <4>2 DEF Talk, VersionsKept
    <3>5. CASE p >= 0
      <4>1. r1 = Reply([q EXCEPT !.c = "wait", !.cproto = p], AskOf(r.cli))
        BY <2>2, <3>2, <3>3, <3>5 DEF ReadBy, r1, Hello, AskOf
      <4>2. r1.c = "wait" /\ r1.toS = Append(r.toS, AskOf(r.cli)) /\ r1.toC = <<>> /\ r1.cproto = p
        BY <1>3, <3>2, <4>1 DEF ConnFields, Reply
      <4>3. \/ r.s = "greet" /\ r1.toS = <<HelloOf(r.cli), AskOf(r.cli)>>
            \/ r.s = "request" /\ r1.toS = <<AskOf(r.cli)>>
        <5>1. /\ Append(<<>>, AskOf(r.cli)) = <<AskOf(r.cli)>>
              /\ Append(<<HelloOf(r.cli)>>, AskOf(r.cli)) = <<HelloOf(r.cli), AskOf(r.cli)>>
          BY Queues, Zenon
        <5> QED
          BY <3>1, <4>2, <5>1, Zenon
      <4> QED
        BY <2>1, <3>3, <4>2, <4>3 DEF Talk, VersionsKept
    <3> QED
      BY <3>3, <3>4, <3>5
  <2>4. CASE r.c = "wait" /\ r.s = "answer"
    <3>1. r.toC = <<ChallengeOf(k)>> /\ r.toS = <<>>
      BY <1>1, <2>1, <2>4 DEF Talk
    <3>2. m = ChallengeOf(k) /\ q.toC = <<>>
      BY <1>3, <3>1, Queues
    <3>3. r1 = Reply(q, AnswerOf(k, r.cli))
      BY <2>2, <3>2 DEF ReadBy, r1, ChallengeOf, AnswerOf
    <3>4. r1.c = "wait" /\ r1.toS = Append(r.toS, AnswerOf(k, r.cli)) /\ r1.toC = <<>> /\ r1.cproto = r.cproto
      BY <1>3, <2>4, <3>2, <3>3 DEF ConnFields, Reply
    <3>5. r1.toS = <<AnswerOf(k, r.cli)>>
      BY <3>1, <3>4, Queues
    <3> QED
      BY <2>1, <2>4, <3>4, <3>5 DEF Talk, VersionsKept
  <2>5. CASE r.c = "wait" /\ r.s # "answer"
    <3>1. r.s = "args" /\ r.toC = <<Ready>> /\ r.toS = <<>>
      BY <1>1, <1>5, <2>1, <2>5 DEF Talk
    <3>2. m = Ready /\ q.toC = <<>>
      BY <1>3, <3>1, Queues
    <3>3. r1 = Reply([q EXCEPT !.c = "transfer"], ArgsOf(r.cli))
      BY <2>2, <3>2 DEF ReadBy, r1, Ready, ArgsOf
    <3>4. r1.c = "transfer" /\ r1.toS = Append(r.toS, ArgsOf(r.cli)) /\ r1.toC = <<>> /\ r1.cproto = r.cproto
      BY <1>3, <3>2, <3>3 DEF ConnFields, Reply
    <3>5. r1.toS = <<ArgsOf(r.cli)>>
      BY <3>1, <3>4, Queues
    <3> QED
      BY <2>1, <2>5, <3>1, <3>4, <3>5 DEF Talk, VersionsKept
  <2>6. r.c # "transfer"
    BY <1>1, <1>5, <2>1 DEF Talk
  <2> QED
    BY <1>1, <2>3, <2>4, <2>5, <2>6
<1>6. ConnSound(k, r1, serving.modules, serving.set)
  BY <1>2, <1>4, <1>5, ClientMoves, Zenon
<1>7. ServingKept /\ SlotMove(k, conn[k].slot, r1.slot)
  BY <1>1, <1>4 DEF ServingKept, SlotMove, ServerKept, r
<1> QED
  BY <1>1, <1>6, <1>7, ConnMoves, Zenon

\* The parts of ConnSound, for a connection at a place that is not the end.
LEMMA ConnParts ==
  ASSUME ConnInv, NEW k \in Conns, conn[k].s # "over"
  PROVE  LET r == conn[k]
             m == serving.modules[r.cli.mod]
         IN /\ DOMAIN r = ConnFields /\ Mod(k) = m
            /\ r.cli.proto \in Int /\ r.cli.sub \in Int /\ r.cli.groups \in Seq(STRING)
            /\ Talk(k, r.s, r.c, r.toS, r.toC, r.cli)
            /\ VersionsKept(r.s, r.c, r.sproto, r.cproto, r.cli)
            /\ HooksSound(r.s, r.early, r.pre, r.post, m)
            /\ Jailed(r.s, r.uid, r.chrooted, r.sanitize, r.munge, m, serving.set)
            /\ Allowed(r.s, r.ro, r.wrote, r.cli, m)
            /\ Placed(r.s, r.post, r.slot, m)
            /\ Found(r.s, r.post, r.cli, serving.modules)
BY Zenon DEF ConnInv, ConnSound, Mod

\* What a record must have for the serving process to end with it.
MayEnd(q, r, mods) ==
  /\ DOMAIN q = ConnFields /\ q.cli = r.cli /\ q.slot = r.slot /\ (q.wrote => r.wrote)
  /\ q.pre = "ran" /\ mods[r.cli.mod].early # "none" => q.early = "ran"
  /\ (q.early = "ran" \/ q.pre = "ran") /\ mods[r.cli.mod].post => q.post # "none"
  /\ q.post # "none" => r.cli.mod \in DOMAIN mods
  /\ q.post # "ran"
  /\ q.post = "waits" => mods[r.cli.mod].max = 0 \/ (mods[r.cli.mod].max > 0 /\ q.slot \in 1 .. mods[r.cli.mod].max)

LEMMA EndSound ==
  ASSUME ConnInv, NEW k \in Conns, NEW q, MayEnd(q, conn[k], serving.modules), End(k, q), ServingKept
  PROVE  ConnInv'
<1> DEFINE r == conn[k]
           r1 == Over(q)
           m == serving.modules[r.cli.mod]
           pre1 == IF q.pre = "waits" THEN "none" ELSE q.pre
           slot1 == IF q.post = "waits" THEN q.slot ELSE 0
<1>1. conn' = [conn EXCEPT ![k] = r1] /\ slots' = Freed(q)
  BY DEF End, Set
<1>2. /\ r.cli.proto \in Int /\ r.cli.sub \in Int /\ r.cli.groups \in Seq(STRING)
      /\ Allowed(r.s, r.ro, r.wrote, r.cli, m) /\ Placed(r.s, r.post, r.slot, m)
  BY DEF ConnInv, ConnSound
<1>3. DOMAIN q = ConnFields /\ q.cli = r.cli /\ q.slot = r.slot
  BY DEF MayEnd
<1>4. /\ DOMAIN r1 = ConnFields /\ r1.s = "over" /\ r1.cli = r.cli /\ r1.slot = slot1 /\ r1.pre = pre1
      /\ r1.early = q.early /\ r1.post = q.post /\ r1.wrote = q.wrote
  BY <1>3 DEF Over, ConnFields
<1> HIDE DEF r1, r, m
<1>5. HooksSound(r1.s, r1.early, r1.pre, r1.post, m)
  BY <1>4 DEF HooksSound, MayEnd, r, m
<1>6. Jailed(r1.s, r1.uid, r1.chrooted, r1.sanitize, r1.munge, m, serving.set)
  BY <1>4 DEF Jailed
<1>7. Allowed(r1.s, r1.ro, r1.wrote, r1.cli, m)
  BY <1>2, <1>4 DEF Allowed, MayEnd, Admitted, r
<1>8. Placed(r1.s, r1.post, r1.slot, m)
  BY <1>2, <1>3, <1>4 DEF Placed, MayEnd, Waits, Inside, r, m
<1>9. Found(r1.s, r1.post, r1.cli, serving.modules)
  BY <1>4 DEF Found, MayEnd, Inside, r
<1>10. ConnSound(k, r1, serving.modules, serving.set)
  BY <1>2, <1>4, <1>5, <1>6, <1>7, <1>8, <1>9, Zenon DEF ConnSound, m
<1>11. SlotMove(k, conn[k].slot, r1.slot)
  <2>1. slots' = IF q.post # "waits" /\ r.slot # 0 THEN [slots EXCEPT ![r.slot] = 0] ELSE slots
    BY <1>1, <1>3 DEF Freed
  <2> QED
    BY <1>3, <1>4, <2>1 DEF SlotMove, r
<1> QED
  BY <1>1, <1>10, <1>11, ConnMoves, Zenon

\* A record that differs from the one of the connection in its messages and
\* its place only.
Same(q, r) ==
  /\ DOMAIN q = ConnFields /\ q.cli = r.cli /\ q.slot = r.slot /\ q.wrote = r.wrote
  /\ q.early = r.early /\ q.pre = r.pre /\ q.post = r.post

LEMMA SameEnds ==
  ASSUME ConnInv, NEW k \in Conns, conn[k].s # "over", NEW q, Same(q, conn[k])
  PROVE  MayEnd(q, conn[k], serving.modules)
<1> DEFINE r == conn[k]
           m == serving.modules[r.cli.mod]
<1>1. /\ HooksSound(r.s, r.early, r.pre, r.post, m) /\ Placed(r.s, r.post, r.slot, m)
      /\ Found(r.s, r.post, r.cli, serving.modules)
  BY ConnParts, Zenon
<1> HIDE DEF r
<1>2. r.s # "over"
  BY DEF r
<1>3. r.post = "waits" => m.max = 0 \/ (m.max > 0 /\ r.slot \in 1 .. m.max)
  <2> HIDE DEF m
  <2> QED
    BY <1>1, <1>2 DEF HooksSound, Placed, Waits, Inside
<1>4. r.post # "ran"
  BY <1>1, <1>2 DEF HooksSound
<1> QED
  BY <1>1, <1>3, <1>4 DEF Same, MayEnd, HooksSound, Found, r

LEMMA TellSame ==
  ASSUME NEW q, NEW r, Same(q, r), NEW x
  PROVE  Same(Tell(q, x), r)
BY DEF Same, Tell, ConnFields

LEMMA EndPlain ==
  ASSUME ConnInv, NEW k \in Conns, conn[k].s # "over", NEW q, Same(q, conn[k]), End(k, q) \/ Refuse(k, q), ServingKept
  PROVE  ConnInv'
<1>1. CASE End(k, q)
  BY <1>1, SameEnds, EndSound, Zenon
<1>2. CASE Refuse(k, q)
  <2>1. Same(Tell(q, [t |-> "error"]), conn[k]) /\ End(k, Tell(q, [t |-> "error"]))
    BY <1>2, TellSame, Zenon DEF Refuse
  <2> QED
    BY <2>1, SameEnds, EndSound, Zenon
<1> QED
  BY <1>1, <1>2

\* The record itself, without its first message, or with another one.
LEMMA SameAs ==
  ASSUME ConnInv, NEW k \in Conns
  PROVE  /\ Same(conn[k], conn[k])
         /\ Same([conn[k] EXCEPT !.toS = Tail(@)], conn[k])
         /\ \A x : Same(Tell(conn[k], x), conn[k])
         /\ \A x : Same(Tell([conn[k] EXCEPT !.toS = Tail(@)], x), conn[k])
<1>1. DOMAIN conn[k] = ConnFields
  BY DEF ConnInv, ConnSound
<1>2. Same(conn[k], conn[k]) /\ Same([conn[k] EXCEPT !.toS = Tail(@)], conn[k])
  BY <1>1 DEF Same, ConnFields
<1> QED
  BY <1>2, TellSame, Zenon

\* start_accept_loop: a process for the connection.
LEMMA AcceptSound ==
  ASSUME ConnInv, NEW k \in Conns, conn[k].s = "none", Stay(k, [conn[k] EXCEPT !.s = "header"]), UNCHANGED serving
  PROVE  ConnInv'
<1> DEFINE r == conn[k]
           m == serving.modules[r.cli.mod]
           r1 == [r EXCEPT !.s = "header"]
<1>0. conn' = [conn EXCEPT ![k] = r1] /\ slots' = slots /\ serving' = serving /\ r.s = "none"
  BY DEF Stay, Set
<1>1. r.s # "over"
  BY <1>0
<1>2. /\ DOMAIN r = ConnFields /\ Mod(k) = m
      /\ r.cli.proto \in Int /\ r.cli.sub \in Int /\ r.cli.groups \in Seq(STRING)
      /\ Talk(k, r.s, r.c, r.toS, r.toC, r.cli)
      /\ VersionsKept(r.s, r.c, r.sproto, r.cproto, r.cli)
      /\ HooksSound(r.s, r.early, r.pre, r.post, m)
      /\ Jailed(r.s, r.uid, r.chrooted, r.sanitize, r.munge, m, serving.set)
      /\ Allowed(r.s, r.ro, r.wrote, r.cli, m)
      /\ Placed(r.s, r.post, r.slot, m)
      /\ Found(r.s, r.post, r.cli, serving.modules)
  BY <1>1, ConnParts, Zenon
<1>3. /\ DOMAIN r1 = ConnFields
      /\ r1.cli = r.cli /\ r1.s = "header" /\ r1.c = r.c /\ r1.toS = r.toS
      /\ r1.toC = r.toC /\ r1.sproto = r.sproto /\ r1.cproto = r.cproto /\ r1.ro = r.ro
      /\ r1.slot = r.slot /\ r1.uid = r.uid /\ r1.chrooted = r.chrooted /\ r1.sanitize = r.sanitize
      /\ r1.munge = r.munge /\ r1.early = r.early /\ r1.pre = r.pre /\ r1.post = r.post
      /\ r1.wrote = r.wrote
  BY <1>2 DEF ConnFields, Tell
<1> HIDE DEF r, m, r1
<1>20. Talk(k, r1.s, r1.c, r1.toS, r1.toC, r1.cli)
  BY <1>0, <1>2, <1>3 DEF Talk
<1>21. VersionsKept(r1.s, r1.c, r1.sproto, r1.cproto, r1.cli)
  BY <1>0, <1>2, <1>3 DEF VersionsKept, Inside
<1>22. HooksSound(r1.s, r1.early, r1.pre, r1.post, m)
  BY <1>0, <1>2, <1>3 DEF HooksSound
<1>23. Jailed(r1.s, r1.uid, r1.chrooted, r1.sanitize, r1.munge, m, serving.set)
  BY <1>0, <1>2, <1>3 DEF Jailed
<1>24. Allowed(r1.s, r1.ro, r1.wrote, r1.cli, m)
  BY <1>0, <1>2, <1>3 DEF Allowed, Admitted
<1>25. Placed(r1.s, r1.post, r1.slot, m)
  BY <1>0, <1>2, <1>3 DEF Placed, Waits, Inside
<1>26. Found(r1.s, r1.post, r1.cli, serving.modules)
  BY <1>0, <1>2, <1>3 DEF Found, Inside
<1>30. ConnSound(k, r1, serving.modules, serving.set)
  BY <1>2, <1>3, <1>20, <1>21, <1>22, <1>23, <1>24, <1>25, <1>26, Zenon DEF ConnSound, m
<1>31. SlotMove(k, conn[k].slot, r1.slot) /\ ServingKept
  BY <1>0, <1>3 DEF SlotMove, ServingKept, r
<1> QED
  BY <1>0, <1>30, <1>31, ConnMoves, Zenon DEF r1

\* No process: the connection is closed.
LEMMA AcceptFails ==
  ASSUME ConnInv, NEW k \in Conns, conn[k].s = "none", Stay(k, [conn[k] EXCEPT !.s = "over"]), ServingKept
  PROVE  ConnInv'
<1> DEFINE r == conn[k]
           m == serving.modules[r.cli.mod]
           r1 == [r EXCEPT !.s = "over"]
<1>0. conn' = [conn EXCEPT ![k] = r1] /\ slots' = slots /\ ServingKept /\ r.s = "none"
  BY DEF Stay, Set
<1>1. r.s # "over"
  BY <1>0
<1>2. /\ DOMAIN r = ConnFields /\ Mod(k) = m
      /\ r.cli.proto \in Int /\ r.cli.sub \in Int /\ r.cli.groups \in Seq(STRING)
      /\ Talk(k, r.s, r.c, r.toS, r.toC, r.cli)
      /\ VersionsKept(r.s, r.c, r.sproto, r.cproto, r.cli)
      /\ HooksSound(r.s, r.early, r.pre, r.post, m)
      /\ Jailed(r.s, r.uid, r.chrooted, r.sanitize, r.munge, m, serving.set)
      /\ Allowed(r.s, r.ro, r.wrote, r.cli, m)
      /\ Placed(r.s, r.post, r.slot, m)
      /\ Found(r.s, r.post, r.cli, serving.modules)
  BY <1>1, ConnParts, Zenon
<1>3. /\ DOMAIN r1 = ConnFields
      /\ r1.cli = r.cli /\ r1.s = "over" /\ r1.c = r.c /\ r1.toS = r.toS
      /\ r1.toC = r.toC /\ r1.sproto = r.sproto /\ r1.cproto = r.cproto /\ r1.ro = r.ro
      /\ r1.slot = r.slot /\ r1.uid = r.uid /\ r1.chrooted = r.chrooted /\ r1.sanitize = r.sanitize
      /\ r1.munge = r.munge /\ r1.early = r.early /\ r1.pre = r.pre /\ r1.post = r.post
      /\ r1.wrote = r.wrote
  BY <1>2 DEF ConnFields, Tell
<1> HIDE DEF r, m, r1
<1>22. HooksSound(r1.s, r1.early, r1.pre, r1.post, m)
  BY <1>0, <1>2, <1>3 DEF HooksSound
<1>23. Jailed(r1.s, r1.uid, r1.chrooted, r1.sanitize, r1.munge, m, serving.set)
  BY <1>0, <1>2, <1>3 DEF Jailed
<1>24. Allowed(r1.s, r1.ro, r1.wrote, r1.cli, m)
  BY <1>0, <1>2, <1>3 DEF Allowed, Admitted
<1>25. Placed(r1.s, r1.post, r1.slot, m)
  BY <1>0, <1>2, <1>3 DEF Placed, Waits, Inside, HooksSound
<1>26. Found(r1.s, r1.post, r1.cli, serving.modules)
  BY <1>0, <1>2, <1>3 DEF Found, Inside
<1>30. ConnSound(k, r1, serving.modules, serving.set)
  BY <1>2, <1>3, <1>22, <1>23, <1>24, <1>25, <1>26, <1>0, Zenon DEF ConnSound, m
<1>31. SlotMove(k, conn[k].slot, r1.slot) /\ ServingKept
  BY <1>0, <1>3 DEF SlotMove, r
<1> QED
  BY <1>0, <1>30, <1>31, ConnMoves, Zenon DEF r1

\* start_daemon, with a header that is right.
LEMMA GreetSound ==
  ASSUME ConnInv, NEW k \in Conns, conn[k].s = "header", NEW a, NEW h, UNCHANGED serving,
         Stay(k, Tell([conn[k] EXCEPT !.s = "greet", !.addr = a, !.chrooted = serving.set.chroot, !.host = h], Hello))
  PROVE  ConnInv'
<1> DEFINE r == conn[k]
           m == serving.modules[r.cli.mod]
           r1 == Tell([r EXCEPT !.s = "greet", !.addr = a, !.chrooted = serving.set.chroot, !.host = h], Hello)
<1>0. conn' = [conn EXCEPT ![k] = r1] /\ slots' = slots /\ serving' = serving /\ r.s = "header"
  BY DEF Stay, Set
<1>1. r.s # "over"
  BY <1>0
<1>2. /\ DOMAIN r = ConnFields /\ Mod(k) = m
      /\ r.cli.proto \in Int /\ r.cli.sub \in Int /\ r.cli.groups \in Seq(STRING)
      /\ Talk(k, r.s, r.c, r.toS, r.toC, r.cli)
      /\ VersionsKept(r.s, r.c, r.sproto, r.cproto, r.cli)
      /\ HooksSound(r.s, r.early, r.pre, r.post, m)
      /\ Jailed(r.s, r.uid, r.chrooted, r.sanitize, r.munge, m, serving.set)
      /\ Allowed(r.s, r.ro, r.wrote, r.cli, m)
      /\ Placed(r.s, r.post, r.slot, m)
      /\ Found(r.s, r.post, r.cli, serving.modules)
  BY <1>1, ConnParts, Zenon
<1>3. /\ DOMAIN r1 = ConnFields
      /\ r1.cli = r.cli /\ r1.s = "greet" /\ r1.c = r.c /\ r1.toS = r.toS
      /\ r1.toC = Append(r.toC, Hello) /\ r1.sproto = r.sproto /\ r1.cproto = r.cproto /\ r1.ro = r.ro
      /\ r1.slot = r.slot /\ r1.uid = r.uid /\ r1.chrooted = serving.set.chroot /\ r1.sanitize = r.sanitize
      /\ r1.munge = r.munge /\ r1.early = r.early /\ r1.pre = r.pre /\ r1.post = r.post
      /\ r1.wrote = r.wrote
  BY <1>2 DEF ConnFields, Tell
<1> HIDE DEF r, m, r1
<1>4. r.toC = <<>> /\ Append(<<>>, Hello) = <<Hello>>
  <2>1. r.toC = <<>>
    BY <1>0, <1>2 DEF Talk
  <2> QED
    BY <2>1, Queues, Zenon
<1>20. Talk(k, r1.s, r1.c, r1.toS, r1.toC, r1.cli)
  BY <1>0, <1>2, <1>3, <1>4 DEF Talk
<1>21. VersionsKept(r1.s, r1.c, r1.sproto, r1.cproto, r1.cli)
  BY <1>0, <1>2, <1>3 DEF VersionsKept, Inside
<1>22. HooksSound(r1.s, r1.early, r1.pre, r1.post, m)
  BY <1>0, <1>2, <1>3 DEF HooksSound
<1>23. Jailed(r1.s, r1.uid, r1.chrooted, r1.sanitize, r1.munge, m, serving.set)
  BY <1>0, <1>2, <1>3 DEF Jailed
<1>24. Allowed(r1.s, r1.ro, r1.wrote, r1.cli, m)
  BY <1>0, <1>2, <1>3 DEF Allowed, Admitted
<1>25. Placed(r1.s, r1.post, r1.slot, m)
  BY <1>0, <1>2, <1>3 DEF Placed, Waits, Inside
<1>26. Found(r1.s, r1.post, r1.cli, serving.modules)
  BY <1>0, <1>2, <1>3 DEF Found, Inside
<1>30. ConnSound(k, r1, serving.modules, serving.set)
  BY <1>2, <1>3, <1>20, <1>21, <1>22, <1>23, <1>24, <1>25, <1>26, Zenon DEF ConnSound, m
<1>31. SlotMove(k, conn[k].slot, r1.slot) /\ ServingKept
  BY <1>0, <1>3 DEF SlotMove, ServingKept, r
<1> QED
  BY <1>0, <1>30, <1>31, ConnMoves, Zenon DEF r1

\* exchange_protocols with a version that is not refused.
LEMMA GreetedSound ==
  ASSUME ConnInv, NEW k \in Conns, conn[k].s = "greet", conn[k].toS # <<>>, UNCHANGED serving, NEW p,
         p = exchange_protocols(31, 0, Head(conn[k].toS).p, Head(conn[k].toS).sub), ~(p < 0),
         Stay(k, [[conn[k] EXCEPT !.toS = Tail(@)] EXCEPT !.s = "request", !.sproto = p])
  PROVE  ConnInv'
<1> DEFINE r == conn[k]
           m == serving.modules[r.cli.mod]
           r1 == [[r EXCEPT !.toS = Tail(@)] EXCEPT !.s = "request", !.sproto = p]
<1>0. conn' = [conn EXCEPT ![k] = r1] /\ slots' = slots /\ serving' = serving /\ r.s = "greet" /\ r.toS # <<>>
      /\ p = exchange_protocols(31, 0, Head(r.toS).p, Head(r.toS).sub) /\ ~(p < 0)
  BY DEF Stay, Set
<1>1. r.s # "over"
  BY <1>0
<1>2. /\ DOMAIN r = ConnFields /\ Mod(k) = m
      /\ r.cli.proto \in Int /\ r.cli.sub \in Int /\ r.cli.groups \in Seq(STRING)
      /\ Talk(k, r.s, r.c, r.toS, r.toC, r.cli)
      /\ VersionsKept(r.s, r.c, r.sproto, r.cproto, r.cli)
      /\ HooksSound(r.s, r.early, r.pre, r.post, m)
      /\ Jailed(r.s, r.uid, r.chrooted, r.sanitize, r.munge, m, serving.set)
      /\ Allowed(r.s, r.ro, r.wrote, r.cli, m)
      /\ Placed(r.s, r.post, r.slot, m)
      /\ Found(r.s, r.post, r.cli, serving.modules)
  BY <1>1, ConnParts, Zenon
<1>3. /\ DOMAIN r1 = ConnFields
      /\ r1.cli = r.cli /\ r1.s = "request" /\ r1.c = r.c /\ r1.toS = Tail(r.toS)
      /\ r1.toC = r.toC /\ r1.sproto = p /\ r1.cproto = r.cproto /\ r1.ro = r.ro
      /\ r1.slot = r.slot /\ r1.uid = r.uid /\ r1.chrooted = r.chrooted /\ r1.sanitize = r.sanitize
      /\ r1.munge = r.munge /\ r1.early = r.early /\ r1.pre = r.pre /\ r1.post = r.post
      /\ r1.wrote = r.wrote
  BY <1>2 DEF ConnFields, Tell
<1> HIDE DEF r, m, r1
<1>4. /\ Head(<<HelloOf(r.cli)>>) = HelloOf(r.cli) /\ Tail(<<HelloOf(r.cli)>>) = <<>>
      /\ Head(<<HelloOf(r.cli), AskOf(r.cli)>>) = HelloOf(r.cli) /\ Tail(<<HelloOf(r.cli), AskOf(r.cli)>>) = <<AskOf(r.cli)>>
  BY Queues, Zenon
<1>5. \/ r.c = "greeting" /\ r.toS = <<HelloOf(r.cli)>> /\ r.toC = <<Hello>>
      \/ r.c = "wait" /\ r.toS = <<HelloOf(r.cli), AskOf(r.cli)>> /\ r.toC = <<>>
      \/ r.c = "gone" /\ r.toS \in {<<HelloOf(r.cli)>>, <<HelloOf(r.cli), AskOf(r.cli)>>}
      \/ r.c = "failed" /\ r.toS = <<HelloOf(r.cli)>>
  BY <1>0, <1>2 DEF Talk
<1>6. Head(r.toS) = HelloOf(r.cli)
  BY <1>4, <1>5, Zenon
<1>7. p = ServerVersion(r.cli) /\ p >= 0
  <2>1. p = exchange_protocols(31, 0, r.cli.proto, r.cli.sub)
    BY <1>0, <1>6 DEF HelloOf
  <2> QED
    BY <1>0, <1>2, <2>1 DEF ServerVersion, exchange_protocols
<1>8. \/ r.c = "greeting" /\ r1.toS = <<>> /\ r.toC = <<Hello>>
      \/ r.c = "wait" /\ r1.toS = <<AskOf(r.cli)>> /\ r.toC = <<>>
      \/ r.c = "gone" /\ (r1.toS = <<>> \/ r1.toS = <<AskOf(r.cli)>>)
      \/ r.c = "failed" /\ r1.toS = <<>>
  BY <1>3, <1>4, <1>5, Zenon
<1>20. Talk(k, r1.s, r1.c, r1.toS, r1.toC, r1.cli)
  BY <1>3, <1>8 DEF Talk
<1>21. VersionsKept(r1.s, r1.c, r1.sproto, r1.cproto, r1.cli)
  BY <1>0, <1>2, <1>3, <1>7 DEF VersionsKept, Inside
<1>22. HooksSound(r1.s, r1.early, r1.pre, r1.post, m)
  BY <1>0, <1>2, <1>3 DEF HooksSound
<1>23. Jailed(r1.s, r1.uid, r1.chrooted, r1.sanitize, r1.munge, m, serving.set)
  BY <1>0, <1>2, <1>3 DEF Jailed
<1>24. Allowed(r1.s, r1.ro, r1.wrote, r1.cli, m)
  BY <1>0, <1>2, <1>3 DEF Allowed, Admitted
<1>25. Placed(r1.s, r1.post, r1.slot, m)
  BY <1>0, <1>2, <1>3 DEF Placed, Waits, Inside
<1>26. Found(r1.s, r1.post, r1.cli, serving.modules)
  BY <1>0, <1>2, <1>3 DEF Found, Inside
<1>30. ConnSound(k, r1, serving.modules, serving.set)
  BY <1>2, <1>3, <1>20, <1>21, <1>22, <1>23, <1>24, <1>25, <1>26, Zenon DEF ConnSound, m
<1>31. SlotMove(k, conn[k].slot, r1.slot) /\ ServingKept
  BY <1>0, <1>3 DEF SlotMove, ServingKept, r
<1> QED
  BY <1>0, <1>30, <1>31, ConnMoves, Zenon DEF r1

\* rsync_module is called with a module that there is.
LEMMA RequestSound ==
  ASSUME ConnInv, NEW k \in Conns, conn[k].s = "request", conn[k].toS # <<>>, UNCHANGED serving,
         Head(conn[k].toS).t # "list", Head(conn[k].toS).mod \in DOMAIN serving.modules,
         Stay(k, [[conn[k] EXCEPT !.toS = Tail(@)] EXCEPT !.s = "access"])
  PROVE  ConnInv'
<1> DEFINE r == conn[k]
           m == serving.modules[r.cli.mod]
           r1 == [[r EXCEPT !.toS = Tail(@)] EXCEPT !.s = "access"]
<1>0. conn' = [conn EXCEPT ![k] = r1] /\ slots' = slots /\ serving' = serving /\ r.s = "request" /\ r.toS # <<>>
      /\ Head(r.toS).t # "list" /\ Head(r.toS).mod \in DOMAIN serving.modules
  BY DEF Stay, Set
<1>1. r.s # "over"
  BY <1>0
<1>2. /\ DOMAIN r = ConnFields /\ Mod(k) = m
      /\ r.cli.proto \in Int /\ r.cli.sub \in Int /\ r.cli.groups \in Seq(STRING)
      /\ Talk(k, r.s, r.c, r.toS, r.toC, r.cli)
      /\ VersionsKept(r.s, r.c, r.sproto, r.cproto, r.cli)
      /\ HooksSound(r.s, r.early, r.pre, r.post, m)
      /\ Jailed(r.s, r.uid, r.chrooted, r.sanitize, r.munge, m, serving.set)
      /\ Allowed(r.s, r.ro, r.wrote, r.cli, m)
      /\ Placed(r.s, r.post, r.slot, m)
      /\ Found(r.s, r.post, r.cli, serving.modules)
  BY <1>1, ConnParts, Zenon
<1>3. /\ DOMAIN r1 = ConnFields
      /\ r1.cli = r.cli /\ r1.s = "access" /\ r1.c = r.c /\ r1.toS = Tail(r.toS)
      /\ r1.toC = r.toC /\ r1.sproto = r.sproto /\ r1.cproto = r.cproto /\ r1.ro = r.ro
      /\ r1.slot = r.slot /\ r1.uid = r.uid /\ r1.chrooted = r.chrooted /\ r1.sanitize = r.sanitize
      /\ r1.munge = r.munge /\ r1.early = r.early /\ r1.pre = r.pre /\ r1.post = r.post
      /\ r1.wrote = r.wrote
  BY <1>2 DEF ConnFields, Tell
<1> HIDE DEF r, m, r1
<1>4. r.toS = <<AskOf(r.cli)>> /\ ((r.c = "wait" /\ r.toC = <<>>) \/ r.c = "gone")
  BY <1>0, <1>2 DEF Talk
<1>5. Head(r.toS) = AskOf(r.cli) /\ Tail(r.toS) = <<>>
  BY <1>4, Queues, Zenon
<1>6. r.cli.mod \in DOMAIN serving.modules
  <2>1. r.cli.mod # "#list"
    BY <1>0, <1>5 DEF AskOf
  <2> QED
    BY <1>0, <1>5, <2>1 DEF AskOf
<1>20. Talk(k, r1.s, r1.c, r1.toS, r1.toC, r1.cli)
  BY <1>3, <1>4, <1>5 DEF Talk
<1>21. VersionsKept(r1.s, r1.c, r1.sproto, r1.cproto, r1.cli)
  BY <1>0, <1>2, <1>3 DEF VersionsKept, Inside
<1>22. HooksSound(r1.s, r1.early, r1.pre, r1.post, m)
  BY <1>0, <1>2, <1>3 DEF HooksSound
<1>23. Jailed(r1.s, r1.uid, r1.chrooted, r1.sanitize, r1.munge, m, serving.set)
  BY <1>0, <1>2, <1>3 DEF Jailed
<1>24. Allowed(r1.s, r1.ro, r1.wrote, r1.cli, m)
  BY <1>0, <1>2, <1>3 DEF Allowed, Admitted
<1>25. Placed(r1.s, r1.post, r1.slot, m)
  BY <1>0, <1>2, <1>3 DEF Placed, Waits, Inside
<1>26. Found(r1.s, r1.post, r1.cli, serving.modules)
  BY <1>3, <1>6 DEF Found
<1>30. ConnSound(k, r1, serving.modules, serving.set)
  BY <1>2, <1>3, <1>20, <1>21, <1>22, <1>23, <1>24, <1>25, <1>26, Zenon DEF ConnSound, m
<1>31. SlotMove(k, conn[k].slot, r1.slot) /\ ServingKept
  BY <1>0, <1>3 DEF SlotMove, ServingKept, r
<1> QED
  BY <1>0, <1>30, <1>31, ConnMoves, Zenon DEF r1

\* allow_access lets the host in.
LEMMA AccessSound ==
  ASSUME ConnInv, NEW k \in Conns, conn[k].s = "access", UNCHANGED serving, Stay(k, [conn[k] EXCEPT !.s = "claim"])
  PROVE  ConnInv'
<1> DEFINE r == conn[k]
           m == serving.modules[r.cli.mod]
           r1 == [r EXCEPT !.s = "claim"]
<1>0. conn' = [conn EXCEPT ![k] = r1] /\ slots' = slots /\ serving' = serving /\ r.s = "access"
  BY DEF Stay, Set
<1>1. r.s # "over"
  BY <1>0
<1>2. /\ DOMAIN r = ConnFields /\ Mod(k) = m
      /\ r.cli.proto \in Int /\ r.cli.sub \in Int /\ r.cli.groups \in Seq(STRING)
      /\ Talk(k, r.s, r.c, r.toS, r.toC, r.cli)
      /\ VersionsKept(r.s, r.c, r.sproto, r.cproto, r.cli)
      /\ HooksSound(r.s, r.early, r.pre, r.post, m)
      /\ Jailed(r.s, r.uid, r.chrooted, r.sanitize, r.munge, m, serving.set)
      /\ Allowed(r.s, r.ro, r.wrote, r.cli, m)
      /\ Placed(r.s, r.post, r.slot, m)
      /\ Found(r.s, r.post, r.cli, serving.modules)
  BY <1>1, ConnParts, Zenon
<1>3. /\ DOMAIN r1 = ConnFields
      /\ r1.cli = r.cli /\ r1.s = "claim" /\ r1.c = r.c /\ r1.toS = r.toS
      /\ r1.toC = r.toC /\ r1.sproto = r.sproto /\ r1.cproto = r.cproto /\ r1.ro = r.ro
      /\ r1.slot = r.slot /\ r1.uid = r.uid /\ r1.chrooted = r.chrooted /\ r1.sanitize = r.sanitize
      /\ r1.munge = r.munge /\ r1.early = r.early /\ r1.pre = r.pre /\ r1.post = r.post
      /\ r1.wrote = r.wrote
  BY <1>2 DEF ConnFields, Tell
<1> HIDE DEF r, m, r1
<1>20. Talk(k, r1.s, r1.c, r1.toS, r1.toC, r1.cli)
  BY <1>0, <1>2, <1>3 DEF Talk
<1>21. VersionsKept(r1.s, r1.c, r1.sproto, r1.cproto, r1.cli)
  BY <1>0, <1>2, <1>3 DEF VersionsKept, Inside
<1>22. HooksSound(r1.s, r1.early, r1.pre, r1.post, m)
  BY <1>0, <1>2, <1>3 DEF HooksSound
<1>23. Jailed(r1.s, r1.uid, r1.chrooted, r1.sanitize, r1.munge, m, serving.set)
  BY <1>0, <1>2, <1>3 DEF Jailed
<1>24. Allowed(r1.s, r1.ro, r1.wrote, r1.cli, m)
  BY <1>0, <1>2, <1>3 DEF Allowed, Admitted
<1>25. Placed(r1.s, r1.post, r1.slot, m)
  BY <1>0, <1>2, <1>3 DEF Placed, Waits, Inside
<1>26. Found(r1.s, r1.post, r1.cli, serving.modules)
  BY <1>0, <1>2, <1>3 DEF Found, Inside
<1>30. ConnSound(k, r1, serving.modules, serving.set)
  BY <1>2, <1>3, <1>20, <1>21, <1>22, <1>23, <1>24, <1>25, <1>26, Zenon DEF ConnSound, m
<1>31. SlotMove(k, conn[k].slot, r1.slot) /\ ServingKept
  BY <1>0, <1>3 DEF SlotMove, ServingKept, r
<1> QED
  BY <1>0, <1>30, <1>31, ConnMoves, Zenon DEF r1

\* The module of a connection that has one is as it should be.
LEMMA ModuleKnown ==
  ASSUME ConnInv, NEW k \in Conns, conn[k].s \in {"access"} \union Inside
  PROVE  ModuleType(serving.modules[conn[k].cli.mod])
BY Zenon DEF ConnInv, ConnSound, Found, Configured

\* There are more places in the lock file than connections: the first one that
\* is free below any limit exists.
LEMMA FreePlace ==
  ASSUME ConnInv, NEW max \in Int, NEW i \in claim_connection(max), \A x \in claim_connection(max) : i <= x
  PROVE  i \in DOMAIN slots /\ slots[i] = 0 /\ i # 0 /\ i \in 1 .. max
<1> DEFINE N == Cardinality(Conns)
           S == 1 .. N + 1
<1>1. N \in Nat /\ IsFiniteSet(Conns)
  BY DaemonAssumption, FS_CardinalityType
<1>2. DOMAIN slots = S /\ \A x \in S : slots[x] # 0 => slots[x] \in Conns /\ conn[slots[x]].slot = x
  <2>1. SlotsSound
    BY DEF ConnInv
  <2>2. S = 1 .. 1 + N
    BY <1>1
  <2> HIDE DEF S, N
  <2> QED
    BY <2>1, <2>2, Zenon DEF SlotsSound, N
<1>3. i \in 1 .. max /\ slots[i] = 0 /\ i # 0
  BY DEF claim_connection
<1>4. ASSUME i \notin S
      PROVE  FALSE
  <2>1. \A x \in S : x \in 1 .. max /\ x < i
    BY <1>1, <1>3, <1>4
  <2>2. \A x \in S : slots[x] # 0
    <3>1. ASSUME NEW x \in S, slots[x] = 0
          PROVE  FALSE
      <4>1. x \in claim_connection(max)
        BY <2>1, <3>1, Zenon DEF claim_connection
      <4> QED
        BY <1>1, <1>3, <2>1, <4>1
    <3> QED
      BY <3>1
  <2>3. \A x \in S : slots[x] \in Conns /\ conn[slots[x]].slot = x
    BY <1>2, <2>2, Zenon
  <2> DEFINE f == [x \in S |-> slots[x]]
  <2>4. IsFiniteSet(S) /\ Cardinality(S) = N + 1
    <3>1. N + 1 \in Int /\ 1 \in Int
      BY <1>1
    <3> HIDE DEF N
    <3>2. /\ IsFiniteSet(1 .. (N + 1))
          /\ Cardinality(1 .. (N + 1)) = IF 1 > (N + 1) THEN 0 ELSE (N + 1) - 1 + 1
      BY <3>1, FS_Interval, Zenon
    <3> QED
      BY <1>1, <3>2
  <2> HIDE DEF S
  <2>5. f \in [S -> Conns]
    BY <2>3
  <2>6. Cardinality(Conns) < Cardinality(S)
    BY <1>1, <2>4
  <2> HIDE DEF N, f
  <2>7. \E x, y \in S : x # y /\ f[x] = f[y]
    BY <1>1, <2>4, <2>5, <2>6, FS_PigeonHole
  <2> QED
    BY <2>3, <2>7 DEF f
<1> QED
  BY <1>2, <1>3, <1>4

\* A module without a limit.
LEMMA ClaimFree ==
  ASSUME ConnInv, NEW k \in Conns, conn[k].s = "claim", Mod(k).max = 0, UNCHANGED serving, Stay(k, [conn[k] EXCEPT !.s = "auth"])
  PROVE  ConnInv'
<1> DEFINE r == conn[k]
           m == serving.modules[r.cli.mod]
           r1 == [r EXCEPT !.s = "auth"]
<1>0. conn' = [conn EXCEPT ![k] = r1] /\ slots' = slots /\ serving' = serving /\ r.s = "claim" /\ m.max = 0
  BY Zenon DEF Stay, Set, Mod
<1>1. r.s # "over"
  BY <1>0
<1>2. /\ DOMAIN r = ConnFields /\ Mod(k) = m
      /\ r.cli.proto \in Int /\ r.cli.sub \in Int /\ r.cli.groups \in Seq(STRING)
      /\ Talk(k, r.s, r.c, r.toS, r.toC, r.cli)
      /\ VersionsKept(r.s, r.c, r.sproto, r.cproto, r.cli)
      /\ HooksSound(r.s, r.early, r.pre, r.post, m)
      /\ Jailed(r.s, r.uid, r.chrooted, r.sanitize, r.munge, m, serving.set)
      /\ Allowed(r.s, r.ro, r.wrote, r.cli, m)
      /\ Placed(r.s, r.post, r.slot, m)
      /\ Found(r.s, r.post, r.cli, serving.modules)
  BY <1>1, ConnParts, Zenon
<1>3. /\ DOMAIN r1 = ConnFields
      /\ r1.cli = r.cli /\ r1.s = "auth" /\ r1.c = r.c /\ r1.toS = r.toS
      /\ r1.toC = r.toC /\ r1.sproto = r.sproto /\ r1.cproto = r.cproto /\ r1.ro = r.ro
      /\ r1.slot = r.slot /\ r1.uid = r.uid /\ r1.chrooted = r.chrooted /\ r1.sanitize = r.sanitize
      /\ r1.munge = r.munge /\ r1.early = r.early /\ r1.pre = r.pre /\ r1.post = r.post
      /\ r1.wrote = r.wrote
  BY <1>2 DEF ConnFields, Tell
<1> HIDE DEF r, m, r1
<1>20. Talk(k, r1.s, r1.c, r1.toS, r1.toC, r1.cli)
  BY <1>0, <1>2, <1>3 DEF Talk
<1>21. VersionsKept(r1.s, r1.c, r1.sproto, r1.cproto, r1.cli)
  BY <1>0, <1>2, <1>3 DEF VersionsKept, Inside
<1>22. HooksSound(r1.s, r1.early, r1.pre, r1.post, m)
  BY <1>0, <1>2, <1>3 DEF HooksSound
<1>23. Jailed(r1.s, r1.uid, r1.chrooted, r1.sanitize, r1.munge, m, serving.set)
  BY <1>0, <1>2, <1>3 DEF Jailed
<1>24. Allowed(r1.s, r1.ro, r1.wrote, r1.cli, m)
  BY <1>0, <1>2, <1>3 DEF Allowed, Admitted
<1>25. Placed(r1.s, r1.post, r1.slot, m)
  BY <1>0, <1>2, <1>3 DEF Placed, Waits, Inside
<1>26. Found(r1.s, r1.post, r1.cli, serving.modules)
  BY <1>0, <1>2, <1>3 DEF Found, Inside
<1>30. ConnSound(k, r1, serving.modules, serving.set)
  BY <1>2, <1>3, <1>20, <1>21, <1>22, <1>23, <1>24, <1>25, <1>26, Zenon DEF ConnSound, m
<1>31. SlotMove(k, conn[k].slot, r1.slot) /\ ServingKept
  BY <1>0, <1>3 DEF SlotMove, ServingKept, r
<1> QED
  BY <1>0, <1>30, <1>31, ConnMoves, Zenon DEF r1

\* claim_connection takes a place.
LEMMA ClaimSound ==
  ASSUME ConnInv, NEW k \in Conns, conn[k].s = "claim", UNCHANGED serving, NEW i \in claim_connection(Mod(k).max),
         \A x \in claim_connection(Mod(k).max) : i <= x,
         conn' = [conn EXCEPT ![k] = [conn[k] EXCEPT !.s = "auth", !.slot = i]], slots' = [slots EXCEPT ![i] = k]
  PROVE  ConnInv'
<1> DEFINE r == conn[k]
           m == serving.modules[r.cli.mod]
           r1 == [r EXCEPT !.s = "auth", !.slot = i]
<1>0. conn' = [conn EXCEPT ![k] = r1] /\ slots' = [slots EXCEPT ![i] = k] /\ serving' = serving /\ r.s = "claim"
  BY Zenon
<1>1. r.s # "over"
  BY <1>0
<1>2. /\ DOMAIN r = ConnFields /\ Mod(k) = m
      /\ r.cli.proto \in Int /\ r.cli.sub \in Int /\ r.cli.groups \in Seq(STRING)
      /\ Talk(k, r.s, r.c, r.toS, r.toC, r.cli)
      /\ VersionsKept(r.s, r.c, r.sproto, r.cproto, r.cli)
      /\ HooksSound(r.s, r.early, r.pre, r.post, m)
      /\ Jailed(r.s, r.uid, r.chrooted, r.sanitize, r.munge, m, serving.set)
      /\ Allowed(r.s, r.ro, r.wrote, r.cli, m)
      /\ Placed(r.s, r.post, r.slot, m)
      /\ Found(r.s, r.post, r.cli, serving.modules)
  BY <1>1, ConnParts, Zenon
<1>3. /\ DOMAIN r1 = ConnFields
      /\ r1.cli = r.cli /\ r1.s = "auth" /\ r1.c = r.c /\ r1.toS = r.toS
      /\ r1.toC = r.toC /\ r1.sproto = r.sproto /\ r1.cproto = r.cproto /\ r1.ro = r.ro
      /\ r1.slot = i /\ r1.uid = r.uid /\ r1.chrooted = r.chrooted /\ r1.sanitize = r.sanitize
      /\ r1.munge = r.munge /\ r1.early = r.early /\ r1.pre = r.pre /\ r1.post = r.post
      /\ r1.wrote = r.wrote
  BY <1>2 DEF ConnFields, Tell
<1> HIDE DEF r, m, r1
<1>4. m.max \in Int
  <2>1. conn[k].s \in {"access"} \union Inside
    BY DEF Inside
  <2>2. ModuleType(m)
    BY <2>1, ModuleKnown, Zenon DEF m, r
  <2> QED
    BY <2>2, Zenon DEF ModuleType
<1>5. i \in DOMAIN slots /\ slots[i] = 0 /\ i # 0 /\ i \in 1 .. m.max
  <2>1. i \in claim_connection(m.max) /\ \A x \in claim_connection(m.max) : i <= x
    BY <1>2, Zenon
  <2> QED
    BY <1>4, <2>1, FreePlace, Zenon
<1>6. r.slot = 0
  BY <1>0, <1>2 DEF Placed, Waits, Inside
<1>20. Talk(k, r1.s, r1.c, r1.toS, r1.toC, r1.cli)
  BY <1>0, <1>2, <1>3 DEF Talk
<1>21. VersionsKept(r1.s, r1.c, r1.sproto, r1.cproto, r1.cli)
  BY <1>0, <1>2, <1>3 DEF VersionsKept, Inside
<1>22. HooksSound(r1.s, r1.early, r1.pre, r1.post, m)
  BY <1>0, <1>2, <1>3 DEF HooksSound
<1>23. Jailed(r1.s, r1.uid, r1.chrooted, r1.sanitize, r1.munge, m, serving.set)
  BY <1>0, <1>2, <1>3 DEF Jailed
<1>24. Allowed(r1.s, r1.ro, r1.wrote, r1.cli, m)
  BY <1>0, <1>2, <1>3 DEF Allowed, Admitted
<1>25. Placed(r1.s, r1.post, r1.slot, m)
  BY <1>3, <1>4, <1>5 DEF Placed, Waits, Inside
<1>26. Found(r1.s, r1.post, r1.cli, serving.modules)
  BY <1>0, <1>2, <1>3 DEF Found, Inside
<1>30. ConnSound(k, r1, serving.modules, serving.set)
  BY <1>2, <1>3, <1>20, <1>21, <1>22, <1>23, <1>24, <1>25, <1>26, Zenon DEF ConnSound, m
<1>31. SlotMove(k, conn[k].slot, r1.slot) /\ ServingKept
  BY <1>0, <1>3, <1>5, <1>6 DEF SlotMove, ServingKept, r
<1> QED
  BY <1>0, <1>30, <1>31, ConnMoves, Zenon DEF r1

\* auth_server, in a module without users.
LEMMA ChallengeNone ==
  ASSUME ConnInv, NEW k \in Conns, conn[k].s = "auth", UNCHANGED serving, Mod(k).auth = <<>>,
         Stay(k, [[conn[k] EXCEPT !.ro = Mod(k).ro] EXCEPT !.s = "hooks"])
  PROVE  ConnInv'
<1> DEFINE r == conn[k]
           m == serving.modules[r.cli.mod]
           r1 == [[r EXCEPT !.ro = m.ro] EXCEPT !.s = "hooks"]
<1>0. conn' = [conn EXCEPT ![k] = r1] /\ slots' = slots /\ serving' = serving /\ r.s = "auth" /\ m.auth = <<>>
  BY Zenon DEF Stay, Set, Mod
<1>1. r.s # "over"
  BY <1>0
<1>2. /\ DOMAIN r = ConnFields /\ Mod(k) = m
      /\ r.cli.proto \in Int /\ r.cli.sub \in Int /\ r.cli.groups \in Seq(STRING)
      /\ Talk(k, r.s, r.c, r.toS, r.toC, r.cli)
      /\ VersionsKept(r.s, r.c, r.sproto, r.cproto, r.cli)
      /\ HooksSound(r.s, r.early, r.pre, r.post, m)
      /\ Jailed(r.s, r.uid, r.chrooted, r.sanitize, r.munge, m, serving.set)
      /\ Allowed(r.s, r.ro, r.wrote, r.cli, m)
      /\ Placed(r.s, r.post, r.slot, m)
      /\ Found(r.s, r.post, r.cli, serving.modules)
  BY <1>1, ConnParts, Zenon
<1>3. /\ DOMAIN r1 = ConnFields
      /\ r1.cli = r.cli /\ r1.s = "hooks" /\ r1.c = r.c /\ r1.toS = r.toS
      /\ r1.toC = r.toC /\ r1.sproto = r.sproto /\ r1.cproto = r.cproto /\ r1.ro = m.ro
      /\ r1.slot = r.slot /\ r1.uid = r.uid /\ r1.chrooted = r.chrooted /\ r1.sanitize = r.sanitize
      /\ r1.munge = r.munge /\ r1.early = r.early /\ r1.pre = r.pre /\ r1.post = r.post
      /\ r1.wrote = r.wrote
  BY <1>2 DEF ConnFields, Tell
<1> HIDE DEF r, m, r1
<1>20. Talk(k, r1.s, r1.c, r1.toS, r1.toC, r1.cli)
  BY <1>0, <1>2, <1>3 DEF Talk
<1>21. VersionsKept(r1.s, r1.c, r1.sproto, r1.cproto, r1.cli)
  BY <1>0, <1>2, <1>3 DEF VersionsKept, Inside
<1>22. HooksSound(r1.s, r1.early, r1.pre, r1.post, m)
  BY <1>0, <1>2, <1>3 DEF HooksSound
<1>23. Jailed(r1.s, r1.uid, r1.chrooted, r1.sanitize, r1.munge, m, serving.set)
  BY <1>0, <1>2, <1>3 DEF Jailed
<1>24. Allowed(r1.s, r1.ro, r1.wrote, r1.cli, m)
  BY <1>0, <1>2, <1>3 DEF Allowed, Admitted, MayWrite
<1>25. Placed(r1.s, r1.post, r1.slot, m)
  BY <1>0, <1>2, <1>3 DEF Placed, Waits, Inside
<1>26. Found(r1.s, r1.post, r1.cli, serving.modules)
  BY <1>0, <1>2, <1>3 DEF Found, Inside
<1>30. ConnSound(k, r1, serving.modules, serving.set)
  BY <1>2, <1>3, <1>20, <1>21, <1>22, <1>23, <1>24, <1>25, <1>26, Zenon DEF ConnSound, m
<1>31. SlotMove(k, conn[k].slot, r1.slot) /\ ServingKept
  BY <1>0, <1>3 DEF SlotMove, ServingKept, r
<1> QED
  BY <1>0, <1>30, <1>31, ConnMoves, Zenon DEF r1

\* auth_server sends the challenge.
LEMMA ChallengeSound ==
  ASSUME ConnInv, NEW k \in Conns, conn[k].s = "auth", UNCHANGED serving,
         Stay(k, Tell([[conn[k] EXCEPT !.ro = Mod(k).ro] EXCEPT !.s = "answer"], ChallengeOf(k)))
  PROVE  ConnInv'
<1> DEFINE r == conn[k]
           m == serving.modules[r.cli.mod]
           r1 == Tell([[r EXCEPT !.ro = m.ro] EXCEPT !.s = "answer"], ChallengeOf(k))
<1>0. conn' = [conn EXCEPT ![k] = r1] /\ slots' = slots /\ serving' = serving /\ r.s = "auth"
  BY Zenon DEF Stay, Set, Mod
<1>1. r.s # "over"
  BY <1>0
<1>2. /\ DOMAIN r = ConnFields /\ Mod(k) = m
      /\ r.cli.proto \in Int /\ r.cli.sub \in Int /\ r.cli.groups \in Seq(STRING)
      /\ Talk(k, r.s, r.c, r.toS, r.toC, r.cli)
      /\ VersionsKept(r.s, r.c, r.sproto, r.cproto, r.cli)
      /\ HooksSound(r.s, r.early, r.pre, r.post, m)
      /\ Jailed(r.s, r.uid, r.chrooted, r.sanitize, r.munge, m, serving.set)
      /\ Allowed(r.s, r.ro, r.wrote, r.cli, m)
      /\ Placed(r.s, r.post, r.slot, m)
      /\ Found(r.s, r.post, r.cli, serving.modules)
  BY <1>1, ConnParts, Zenon
<1>3. /\ DOMAIN r1 = ConnFields
      /\ r1.cli = r.cli /\ r1.s = "answer" /\ r1.c = r.c /\ r1.toS = r.toS
      /\ r1.toC = Append(r.toC, ChallengeOf(k)) /\ r1.sproto = r.sproto /\ r1.cproto = r.cproto /\ r1.ro = m.ro
      /\ r1.slot = r.slot /\ r1.uid = r.uid /\ r1.chrooted = r.chrooted /\ r1.sanitize = r.sanitize
      /\ r1.munge = r.munge /\ r1.early = r.early /\ r1.pre = r.pre /\ r1.post = r.post
      /\ r1.wrote = r.wrote
  BY <1>2 DEF ConnFields, Tell
<1> HIDE DEF r, m, r1
<1>4. (r.c = "wait" /\ r.toS = <<>> /\ r1.toC = <<ChallengeOf(k)>>) \/ (r.c = "gone" /\ r.toS = <<>>)
  <2>1. (r.c = "wait" /\ r.toS = <<>> /\ r.toC = <<>>) \/ (r.c = "gone" /\ r.toS = <<>>)
    BY <1>0, <1>2 DEF Talk
  <2>2. Append(<<>>, ChallengeOf(k)) = <<ChallengeOf(k)>>
    BY Queues, Zenon
  <2> QED
    BY <1>3, <2>1, <2>2, Zenon
<1>20. Talk(k, r1.s, r1.c, r1.toS, r1.toC, r1.cli)
  BY <1>3, <1>4 DEF Talk
<1>21. VersionsKept(r1.s, r1.c, r1.sproto, r1.cproto, r1.cli)
  BY <1>0, <1>2, <1>3 DEF VersionsKept, Inside
<1>22. HooksSound(r1.s, r1.early, r1.pre, r1.post, m)
  BY <1>0, <1>2, <1>3 DEF HooksSound
<1>23. Jailed(r1.s, r1.uid, r1.chrooted, r1.sanitize, r1.munge, m, serving.set)
  BY <1>0, <1>2, <1>3 DEF Jailed
<1>24. Allowed(r1.s, r1.ro, r1.wrote, r1.cli, m)
  BY <1>0, <1>2, <1>3 DEF Allowed, Admitted
<1>25. Placed(r1.s, r1.post, r1.slot, m)
  BY <1>0, <1>2, <1>3 DEF Placed, Waits, Inside
<1>26. Found(r1.s, r1.post, r1.cli, serving.modules)
  BY <1>0, <1>2, <1>3 DEF Found, Inside
<1>30. ConnSound(k, r1, serving.modules, serving.set)
  BY <1>2, <1>3, <1>20, <1>21, <1>22, <1>23, <1>24, <1>25, <1>26, Zenon DEF ConnSound, m
<1>31. SlotMove(k, conn[k].slot, r1.slot) /\ ServingKept
  BY <1>0, <1>3 DEF SlotMove, ServingKept, r
<1> QED
  BY <1>0, <1>30, <1>31, ConnMoves, Zenon DEF r1

\* auth_server accepts the answer.
LEMMA AnswerSound ==
  ASSUME ConnInv, NEW k \in Conns, conn[k].s = "answer", conn[k].toS # <<>>, UNCHANGED serving, NEW a, a.ok,
         a = auth_server(Mod(k), Head(conn[k].toS).user, conn[k].cli.groups, gen_challenge(k), Head(conn[k].toS).hash),
         Stay(k, [[conn[k] EXCEPT !.toS = Tail(@)] EXCEPT !.s = "hooks", !.ro = a.ro])
  PROVE  ConnInv'
<1> DEFINE r == conn[k]
           m == serving.modules[r.cli.mod]
           r1 == [[r EXCEPT !.toS = Tail(@)] EXCEPT !.s = "hooks", !.ro = a.ro]
<1>0. conn' = [conn EXCEPT ![k] = r1] /\ slots' = slots /\ serving' = serving /\ r.s = "answer" /\ r.toS # <<>>
      /\ a = auth_server(m, Head(r.toS).user, r.cli.groups, gen_challenge(k), Head(r.toS).hash)
  BY Zenon DEF Stay, Set, Mod
<1>1. r.s # "over"
  BY <1>0
<1>2. /\ DOMAIN r = ConnFields /\ Mod(k) = m
      /\ r.cli.proto \in Int /\ r.cli.sub \in Int /\ r.cli.groups \in Seq(STRING)
      /\ Talk(k, r.s, r.c, r.toS, r.toC, r.cli)
      /\ VersionsKept(r.s, r.c, r.sproto, r.cproto, r.cli)
      /\ HooksSound(r.s, r.early, r.pre, r.post, m)
      /\ Jailed(r.s, r.uid, r.chrooted, r.sanitize, r.munge, m, serving.set)
      /\ Allowed(r.s, r.ro, r.wrote, r.cli, m)
      /\ Placed(r.s, r.post, r.slot, m)
      /\ Found(r.s, r.post, r.cli, serving.modules)
  BY <1>1, ConnParts, Zenon
<1>3. /\ DOMAIN r1 = ConnFields
      /\ r1.cli = r.cli /\ r1.s = "hooks" /\ r1.c = r.c /\ r1.toS = Tail(r.toS)
      /\ r1.toC = r.toC /\ r1.sproto = r.sproto /\ r1.cproto = r.cproto /\ r1.ro = a.ro
      /\ r1.slot = r.slot /\ r1.uid = r.uid /\ r1.chrooted = r.chrooted /\ r1.sanitize = r.sanitize
      /\ r1.munge = r.munge /\ r1.early = r.early /\ r1.pre = r.pre /\ r1.post = r.post
      /\ r1.wrote = r.wrote
  BY <1>2 DEF ConnFields, Tell
<1> HIDE DEF r, m, r1
<1>4. r.toS = <<AnswerOf(k, r.cli)>> /\ ((r.c = "wait" /\ r.toC = <<>>) \/ r.c = "gone")
  BY <1>0, <1>2 DEF Talk
<1>5. Head(r.toS) = AnswerOf(k, r.cli) /\ Tail(r.toS) = <<>>
  BY <1>4, Queues, Zenon
<1>6. Head(r.toS).user = UserOf(r.cli) /\ Head(r.toS).hash = generate_hash(r.cli.pass, gen_challenge(k))
  <2>1. AnswerOf(k, r.cli) = [t |-> "auth", user |-> UserOf(r.cli), hash |-> generate_hash(r.cli.pass, gen_challenge(k))]
    BY Zenon DEF AnswerOf, auth_client, UserOf
  <2> QED
    BY <1>5, <2>1
<1>7. ModuleType(m)
  <2>1. conn[k].s \in {"access"} \union Inside
    BY DEF Inside
  <2> QED
    BY <2>1, ModuleKnown, Zenon DEF m, r
<1>8. KnownUser(m, r.cli) /\ (~a.ro => MayWrite(m, r.cli))
  <2>1. a = auth_server(m, UserOf(r.cli), r.cli.groups, gen_challenge(k), generate_hash(r.cli.pass, gen_challenge(k)))
    BY <1>0, <1>6, Zenon
  <2>2. r.cli.groups \in Seq(STRING)
    BY <1>2
  <2> QED
    BY <1>7, <2>1, <2>2, UserKnown, Zenon
<1>20. Talk(k, r1.s, r1.c, r1.toS, r1.toC, r1.cli)
  BY <1>3, <1>4, <1>5 DEF Talk
<1>21. VersionsKept(r1.s, r1.c, r1.sproto, r1.cproto, r1.cli)
  BY <1>0, <1>2, <1>3 DEF VersionsKept, Inside
<1>22. HooksSound(r1.s, r1.early, r1.pre, r1.post, m)
  BY <1>0, <1>2, <1>3 DEF HooksSound
<1>23. Jailed(r1.s, r1.uid, r1.chrooted, r1.sanitize, r1.munge, m, serving.set)
  BY <1>0, <1>2, <1>3 DEF Jailed
<1>24. Allowed(r1.s, r1.ro, r1.wrote, r1.cli, m)
  BY <1>0, <1>2, <1>3, <1>8 DEF Allowed, Admitted
<1>25. Placed(r1.s, r1.post, r1.slot, m)
  BY <1>0, <1>2, <1>3 DEF Placed, Waits, Inside
<1>26. Found(r1.s, r1.post, r1.cli, serving.modules)
  BY <1>0, <1>2, <1>3 DEF Found, Inside
<1>30. ConnSound(k, r1, serving.modules, serving.set)
  BY <1>2, <1>3, <1>20, <1>21, <1>22, <1>23, <1>24, <1>25, <1>26, Zenon DEF ConnSound, m
<1>31. SlotMove(k, conn[k].slot, r1.slot) /\ ServingKept
  BY <1>0, <1>3 DEF SlotMove, ServingKept, r
<1> QED
  BY <1>0, <1>30, <1>31, ConnMoves, Zenon DEF r1

\* rsync_module has run the early command and started the others.
LEMMA HooksPass ==
  ASSUME ConnInv, NEW k \in Conns, conn[k].s = "hooks", UNCHANGED serving, Mod(k).early # "fails",
         Stay(k, [[[conn[k] EXCEPT !.post = IF Mod(k).post THEN "waits" ELSE @]
                        EXCEPT !.early = IF Mod(k).early = "none" THEN @ ELSE "ran"]
                        EXCEPT !.s = "enter", !.pre = IF Mod(k).pre = "none" THEN @ ELSE "waits"])
  PROVE  ConnInv'
<1> DEFINE r == conn[k]
           m == serving.modules[r.cli.mod]
           r1 == [[[r EXCEPT !.post = IF m.post THEN "waits" ELSE @]
                    EXCEPT !.early = IF m.early = "none" THEN @ ELSE "ran"]
                    EXCEPT !.s = "enter", !.pre = IF m.pre = "none" THEN @ ELSE "waits"]
<1>0. conn' = [conn EXCEPT ![k] = r1] /\ slots' = slots /\ serving' = serving /\ r.s = "hooks" /\ m.early # "fails"
  BY Zenon DEF Stay, Set, Mod
<1>1. r.s # "over"
  BY <1>0
<1>2. /\ DOMAIN r = ConnFields /\ Mod(k) = m
      /\ r.cli.proto \in Int /\ r.cli.sub \in Int /\ r.cli.groups \in Seq(STRING)
      /\ Talk(k, r.s, r.c, r.toS, r.toC, r.cli)
      /\ VersionsKept(r.s, r.c, r.sproto, r.cproto, r.cli)
      /\ HooksSound(r.s, r.early, r.pre, r.post, m)
      /\ Jailed(r.s, r.uid, r.chrooted, r.sanitize, r.munge, m, serving.set)
      /\ Allowed(r.s, r.ro, r.wrote, r.cli, m)
      /\ Placed(r.s, r.post, r.slot, m)
      /\ Found(r.s, r.post, r.cli, serving.modules)
  BY <1>1, ConnParts, Zenon
<1>3. /\ DOMAIN r1 = ConnFields
      /\ r1.cli = r.cli /\ r1.s = "enter" /\ r1.c = r.c /\ r1.toS = r.toS
      /\ r1.toC = r.toC /\ r1.sproto = r.sproto /\ r1.cproto = r.cproto /\ r1.ro = r.ro
      /\ r1.slot = r.slot /\ r1.uid = r.uid /\ r1.chrooted = r.chrooted /\ r1.sanitize = r.sanitize
      /\ r1.munge = r.munge /\ r1.early = (IF m.early = "none" THEN r.early ELSE "ran") /\ r1.pre = (IF m.pre = "none" THEN r.pre ELSE "waits") /\ r1.post = (IF m.post THEN "waits" ELSE r.post)
      /\ r1.wrote = r.wrote
  BY <1>2 DEF ConnFields, Tell
<1> HIDE DEF r, m, r1
<1>20. Talk(k, r1.s, r1.c, r1.toS, r1.toC, r1.cli)
  BY <1>0, <1>2, <1>3 DEF Talk
<1>21. VersionsKept(r1.s, r1.c, r1.sproto, r1.cproto, r1.cli)
  BY <1>0, <1>2, <1>3 DEF VersionsKept, Inside
<1>22. HooksSound(r1.s, r1.early, r1.pre, r1.post, m)
  BY <1>0, <1>2, <1>3 DEF HooksSound
<1>23. Jailed(r1.s, r1.uid, r1.chrooted, r1.sanitize, r1.munge, m, serving.set)
  BY <1>0, <1>2, <1>3 DEF Jailed
<1>24. Allowed(r1.s, r1.ro, r1.wrote, r1.cli, m)
  BY <1>0, <1>2, <1>3 DEF Allowed, Admitted
<1>25. Placed(r1.s, r1.post, r1.slot, m)
  BY <1>0, <1>2, <1>3 DEF Placed, Waits, Inside
<1>26. Found(r1.s, r1.post, r1.cli, serving.modules)
  BY <1>0, <1>2, <1>3 DEF Found, Inside
<1>30. ConnSound(k, r1, serving.modules, serving.set)
  BY <1>2, <1>3, <1>20, <1>21, <1>22, <1>23, <1>24, <1>25, <1>26, Zenon DEF ConnSound, m
<1>31. SlotMove(k, conn[k].slot, r1.slot) /\ ServingKept
  BY <1>0, <1>3 DEF SlotMove, ServingKept, r
<1> QED
  BY <1>0, <1>30, <1>31, ConnMoves, Zenon DEF r1

\* chroot, setgid and setuid have worked.
LEMMA EnterSound ==
  ASSUME ConnInv, NEW k \in Conns, conn[k].s = "enter", UNCHANGED serving,
         Stay(k, Tell([conn[k] EXCEPT !.s = "args", !.chrooted = @ \/ Mod(k).chroot, !.uid = Mod(k).uid,
                               !.sanitize = Sanitize(Mod(k), serving.set), !.munge = munge_symlinks(Mod(k))], Ready))
  PROVE  ConnInv'
<1> DEFINE r == conn[k]
           m == serving.modules[r.cli.mod]
           r1 == Tell([r EXCEPT !.s = "args", !.chrooted = @ \/ m.chroot, !.uid = m.uid,
                         !.sanitize = Sanitize(m, serving.set), !.munge = munge_symlinks(m)], Ready)
<1>0. conn' = [conn EXCEPT ![k] = r1] /\ slots' = slots /\ serving' = serving /\ r.s = "enter"
  BY Zenon DEF Stay, Set, Mod
<1>1. r.s # "over"
  BY <1>0
<1>2. /\ DOMAIN r = ConnFields /\ Mod(k) = m
      /\ r.cli.proto \in Int /\ r.cli.sub \in Int /\ r.cli.groups \in Seq(STRING)
      /\ Talk(k, r.s, r.c, r.toS, r.toC, r.cli)
      /\ VersionsKept(r.s, r.c, r.sproto, r.cproto, r.cli)
      /\ HooksSound(r.s, r.early, r.pre, r.post, m)
      /\ Jailed(r.s, r.uid, r.chrooted, r.sanitize, r.munge, m, serving.set)
      /\ Allowed(r.s, r.ro, r.wrote, r.cli, m)
      /\ Placed(r.s, r.post, r.slot, m)
      /\ Found(r.s, r.post, r.cli, serving.modules)
  BY <1>1, ConnParts, Zenon
<1>3. /\ DOMAIN r1 = ConnFields
      /\ r1.cli = r.cli /\ r1.s = "args" /\ r1.c = r.c /\ r1.toS = r.toS
      /\ r1.toC = Append(r.toC, Ready) /\ r1.sproto = r.sproto /\ r1.cproto = r.cproto /\ r1.ro = r.ro
      /\ r1.slot = r.slot /\ r1.uid = m.uid /\ r1.chrooted = (r.chrooted \/ m.chroot) /\ r1.sanitize = Sanitize(m, serving.set)
      /\ r1.munge = munge_symlinks(m) /\ r1.early = r.early /\ r1.pre = r.pre /\ r1.post = r.post
      /\ r1.wrote = r.wrote
  BY <1>2 DEF ConnFields, Tell
<1> HIDE DEF r, m, r1
<1>4. (r.c = "wait" /\ r.toS = <<>> /\ r1.toC = <<Ready>>) \/ (r.c = "gone" /\ r.toS = <<>>)
  <2>1. (r.c = "wait" /\ r.toS = <<>> /\ r.toC = <<>>) \/ (r.c = "gone" /\ r.toS = <<>>)
    BY <1>0, <1>2 DEF Talk
  <2>2. Append(<<>>, Ready) = <<Ready>>
    BY Queues, Zenon
  <2> QED
    BY <1>3, <2>1, <2>2, Zenon
<1>7. m.munge \in {-1, 0, 1} /\ {m.chroot, m.inner} \subseteq BOOLEAN /\ serving.set.chroot \in BOOLEAN
  <2>1. conn[k].s \in {"access"} \union Inside
    BY DEF Inside
  <2>2. ModuleType(m)
    BY <2>1, ModuleKnown, Zenon DEF m, r
  <2>3. serving.set.chroot \in BOOLEAN
    BY DEF ConnInv, Configured
  <2> QED
    BY <2>2, <2>3 DEF ModuleType
<1>8. r.chrooted = serving.set.chroot
  BY <1>0, <1>2 DEF Jailed
<1>20. Talk(k, r1.s, r1.c, r1.toS, r1.toC, r1.cli)
  BY <1>3, <1>4 DEF Talk
<1>21. VersionsKept(r1.s, r1.c, r1.sproto, r1.cproto, r1.cli)
  BY <1>0, <1>2, <1>3 DEF VersionsKept, Inside
<1>22. HooksSound(r1.s, r1.early, r1.pre, r1.post, m)
  BY <1>0, <1>2, <1>3 DEF HooksSound
<1>23. Jailed(r1.s, r1.uid, r1.chrooted, r1.sanitize, r1.munge, m, serving.set)
  <2>1. r1.uid = m.uid
    BY <1>3
  <2>2. m.inner \/ ~r1.chrooted => r1.sanitize
    <3>1. ASSUME NEW a \in BOOLEAN, NEW b \in BOOLEAN, NEW c \in BOOLEAN
          PROVE  a \/ ~(c \/ b) => a \/ (~b /\ ~c)
      OBVIOUS
    <3> QED
      BY <1>3, <1>7, <1>8, <3>1, Zenon DEF Sanitize
  <2>3. m.munge = 0 \/ r1.munge \/ (r1.chrooted /\ ~r1.sanitize)
    <3>1. CASE m.munge = -1
      <4>1. munge_symlinks(m) = (~m.chroot \/ m.inner)
        BY <3>1 DEF munge_symlinks
      <4> QED
        BY <1>3, <1>7, <1>8, <4>1, Zenon DEF Sanitize
    <3>2. CASE m.munge = 1
      <4>1. munge_symlinks(m) = TRUE
        BY <3>2 DEF munge_symlinks
      <4> QED
        BY <1>3, <4>1
    <3> QED
      BY <1>7, <3>1, <3>2
  <2> QED
    BY <1>3, <2>1, <2>2, <2>3 DEF Jailed
<1>24. Allowed(r1.s, r1.ro, r1.wrote, r1.cli, m)
  BY <1>0, <1>2, <1>3 DEF Allowed, Admitted
<1>25. Placed(r1.s, r1.post, r1.slot, m)
  BY <1>0, <1>2, <1>3 DEF Placed, Waits, Inside
<1>26. Found(r1.s, r1.post, r1.cli, serving.modules)
  BY <1>0, <1>2, <1>3 DEF Found, Inside
<1>30. ConnSound(k, r1, serving.modules, serving.set)
  BY <1>2, <1>3, <1>20, <1>21, <1>22, <1>23, <1>24, <1>25, <1>26, Zenon DEF ConnSound, m
<1>31. SlotMove(k, conn[k].slot, r1.slot) /\ ServingKept
  BY <1>0, <1>3 DEF SlotMove, ServingKept, r
<1> QED
  BY <1>0, <1>30, <1>31, ConnMoves, Zenon DEF r1

\* The arguments are right, and the pre-xfer command succeeds.
LEMMA ArgumentsSound ==
  ASSUME ConnInv, NEW k \in Conns, conn[k].s = "args", conn[k].toS # <<>>, UNCHANGED serving, Mod(k).pre # "fails", NEW x \in {"recv", "send"},
         Stay(k, [[conn[k] EXCEPT !.toS = Tail(@), !.pre = IF @ = "waits" THEN "ran" ELSE @] EXCEPT !.s = x])
  PROVE  ConnInv'
<1> DEFINE r == conn[k]
           m == serving.modules[r.cli.mod]
           r1 == [[r EXCEPT !.toS = Tail(@), !.pre = IF @ = "waits" THEN "ran" ELSE @] EXCEPT !.s = x]
<1>0. conn' = [conn EXCEPT ![k] = r1] /\ slots' = slots /\ serving' = serving /\ r.s = "args" /\ r.toS # <<>> /\ m.pre # "fails"
  BY Zenon DEF Stay, Set, Mod
<1>1. r.s # "over"
  BY <1>0
<1>2. /\ DOMAIN r = ConnFields /\ Mod(k) = m
      /\ r.cli.proto \in Int /\ r.cli.sub \in Int /\ r.cli.groups \in Seq(STRING)
      /\ Talk(k, r.s, r.c, r.toS, r.toC, r.cli)
      /\ VersionsKept(r.s, r.c, r.sproto, r.cproto, r.cli)
      /\ HooksSound(r.s, r.early, r.pre, r.post, m)
      /\ Jailed(r.s, r.uid, r.chrooted, r.sanitize, r.munge, m, serving.set)
      /\ Allowed(r.s, r.ro, r.wrote, r.cli, m)
      /\ Placed(r.s, r.post, r.slot, m)
      /\ Found(r.s, r.post, r.cli, serving.modules)
  BY <1>1, ConnParts, Zenon
<1>3. /\ DOMAIN r1 = ConnFields
      /\ r1.cli = r.cli /\ r1.s = x /\ r1.c = r.c /\ r1.toS = Tail(r.toS)
      /\ r1.toC = r.toC /\ r1.sproto = r.sproto /\ r1.cproto = r.cproto /\ r1.ro = r.ro
      /\ r1.slot = r.slot /\ r1.uid = r.uid /\ r1.chrooted = r.chrooted /\ r1.sanitize = r.sanitize
      /\ r1.munge = r.munge /\ r1.early = r.early /\ r1.pre = (IF r.pre = "waits" THEN "ran" ELSE r.pre) /\ r1.post = r.post
      /\ r1.wrote = r.wrote
  BY <1>2 DEF ConnFields, Tell
<1> HIDE DEF r, m, r1
<1>20. Talk(k, r1.s, r1.c, r1.toS, r1.toC, r1.cli)
  BY <1>0, <1>2, <1>3 DEF Talk
<1>21. VersionsKept(r1.s, r1.c, r1.sproto, r1.cproto, r1.cli)
  BY <1>0, <1>2, <1>3 DEF VersionsKept, Inside
<1>22. HooksSound(r1.s, r1.early, r1.pre, r1.post, m)
  BY <1>0, <1>2, <1>3 DEF HooksSound
<1>23. Jailed(r1.s, r1.uid, r1.chrooted, r1.sanitize, r1.munge, m, serving.set)
  BY <1>0, <1>2, <1>3 DEF Jailed
<1>24. Allowed(r1.s, r1.ro, r1.wrote, r1.cli, m)
  BY <1>0, <1>2, <1>3 DEF Allowed, Admitted
<1>25. Placed(r1.s, r1.post, r1.slot, m)
  BY <1>0, <1>2, <1>3 DEF Placed, Waits, Inside
<1>26. Found(r1.s, r1.post, r1.cli, serving.modules)
  BY <1>0, <1>2, <1>3 DEF Found, Inside
<1>30. ConnSound(k, r1, serving.modules, serving.set)
  BY <1>2, <1>3, <1>20, <1>21, <1>22, <1>23, <1>24, <1>25, <1>26, Zenon DEF ConnSound, m
<1>31. SlotMove(k, conn[k].slot, r1.slot) /\ ServingKept
  BY <1>0, <1>3 DEF SlotMove, ServingKept, r
<1> QED
  BY <1>0, <1>30, <1>31, ConnMoves, Zenon DEF r1

\* start_server: the module allows what is asked for.
LEMMA ServeSound ==
  ASSUME ConnInv, NEW k \in Conns, NEW x \in {"recv", "send"}, conn[k].s = x, UNCHANGED serving, ~(x = "recv" /\ conn[k].ro),
         Stay(k, [conn[k] EXCEPT !.wrote = (x = "recv"), !.s = "transfer"])
  PROVE  ConnInv'
<1> DEFINE r == conn[k]
           m == serving.modules[r.cli.mod]
           r1 == [r EXCEPT !.wrote = (x = "recv"), !.s = "transfer"]
<1>0. conn' = [conn EXCEPT ![k] = r1] /\ slots' = slots /\ serving' = serving /\ r.s \in {"recv", "send"} /\ ~(x = "recv" /\ r.ro) /\ r.s = x
  BY Zenon DEF Stay, Set
<1>1. r.s # "over"
  BY <1>0
<1>2. /\ DOMAIN r = ConnFields /\ Mod(k) = m
      /\ r.cli.proto \in Int /\ r.cli.sub \in Int /\ r.cli.groups \in Seq(STRING)
      /\ Talk(k, r.s, r.c, r.toS, r.toC, r.cli)
      /\ VersionsKept(r.s, r.c, r.sproto, r.cproto, r.cli)
      /\ HooksSound(r.s, r.early, r.pre, r.post, m)
      /\ Jailed(r.s, r.uid, r.chrooted, r.sanitize, r.munge, m, serving.set)
      /\ Allowed(r.s, r.ro, r.wrote, r.cli, m)
      /\ Placed(r.s, r.post, r.slot, m)
      /\ Found(r.s, r.post, r.cli, serving.modules)
  BY <1>1, ConnParts, Zenon
<1>3. /\ DOMAIN r1 = ConnFields
      /\ r1.cli = r.cli /\ r1.s = "transfer" /\ r1.c = r.c /\ r1.toS = r.toS
      /\ r1.toC = r.toC /\ r1.sproto = r.sproto /\ r1.cproto = r.cproto /\ r1.ro = r.ro
      /\ r1.slot = r.slot /\ r1.uid = r.uid /\ r1.chrooted = r.chrooted /\ r1.sanitize = r.sanitize
      /\ r1.munge = r.munge /\ r1.early = r.early /\ r1.pre = r.pre /\ r1.post = r.post
      /\ r1.wrote = (x = "recv")
  BY <1>2 DEF ConnFields, Tell
<1> HIDE DEF r, m, r1
<1>20. Talk(k, r1.s, r1.c, r1.toS, r1.toC, r1.cli)
  BY <1>0, <1>2, <1>3 DEF Talk
<1>21. VersionsKept(r1.s, r1.c, r1.sproto, r1.cproto, r1.cli)
  BY <1>0, <1>2, <1>3 DEF VersionsKept, Inside
<1>22. HooksSound(r1.s, r1.early, r1.pre, r1.post, m)
  BY <1>0, <1>2, <1>3 DEF HooksSound
<1>23. Jailed(r1.s, r1.uid, r1.chrooted, r1.sanitize, r1.munge, m, serving.set)
  BY <1>0, <1>2, <1>3 DEF Jailed
<1>24. Allowed(r1.s, r1.ro, r1.wrote, r1.cli, m)
  BY <1>0, <1>2, <1>3 DEF Allowed, Admitted
<1>25. Placed(r1.s, r1.post, r1.slot, m)
  BY <1>0, <1>2, <1>3 DEF Placed, Waits, Inside
<1>26. Found(r1.s, r1.post, r1.cli, serving.modules)
  BY <1>0, <1>2, <1>3 DEF Found, Inside
<1>30. ConnSound(k, r1, serving.modules, serving.set)
  BY <1>2, <1>3, <1>20, <1>21, <1>22, <1>23, <1>24, <1>25, <1>26, Zenon DEF ConnSound, m
<1>31. SlotMove(k, conn[k].slot, r1.slot) /\ ServingKept
  BY <1>0, <1>3 DEF SlotMove, ServingKept, r
<1> QED
  BY <1>0, <1>30, <1>31, ConnMoves, Zenon DEF r1

\* rsync_module, when the early command fails: the post-xfer command is due.
LEMMA HooksFail ==
  ASSUME ConnInv, NEW k \in Conns, conn[k].s = "hooks", UNCHANGED serving, Mod(k).early = "fails",
         Refuse(k, [[conn[k] EXCEPT !.post = IF Mod(k).post THEN "waits" ELSE @]
                            EXCEPT !.early = IF Mod(k).early = "none" THEN @ ELSE "ran"])
  PROVE  ConnInv'
<1> DEFINE r == conn[k]
           m == serving.modules[r.cli.mod]
           q == Tell([[r EXCEPT !.post = IF m.post THEN "waits" ELSE @]
                              EXCEPT !.early = IF m.early = "none" THEN @ ELSE "ran"], [t |-> "error"])
<1>1. End(k, q) /\ r.s = "hooks" /\ m.early = "fails"
  BY Zenon DEF Refuse, Mod
<1>2. r.s # "over"
  BY <1>1
<1>3. /\ DOMAIN r = ConnFields /\ HooksSound(r.s, r.early, r.pre, r.post, m)
      /\ Placed(r.s, r.post, r.slot, m) /\ Found(r.s, r.post, r.cli, serving.modules)
  BY <1>2, ConnParts, Zenon
<1>4. /\ DOMAIN q = ConnFields /\ q.cli = r.cli /\ q.slot = r.slot /\ q.wrote = r.wrote /\ q.pre = r.pre
      /\ q.post = (IF m.post THEN "waits" ELSE r.post) /\ q.early = (IF m.early = "none" THEN r.early ELSE "ran")
  BY <1>3 DEF ConnFields, Tell
<1> HIDE DEF r, q
<1>5. MayEnd(q, r, serving.modules)
  <2>1. r.cli.mod \in DOMAIN serving.modules
    BY <1>1, <1>3 DEF Found, Inside
  <2> HIDE DEF m
  <2>2. m.max = 0 \/ (m.max > 0 /\ r.slot \in 1 .. m.max)
    BY <1>1, <1>3 DEF Placed, Waits, Inside
  <2>3. r.early = "none" /\ r.pre = "none" /\ r.post = "none"
    BY <1>1, <1>3 DEF HooksSound
  <2>4. /\ DOMAIN q = ConnFields /\ q.cli = r.cli /\ q.slot = r.slot /\ q.wrote = r.wrote
        /\ q.pre = "ran" /\ m.early # "none" => q.early = "ran"
        /\ (q.early = "ran" \/ q.pre = "ran") /\ m.post => q.post # "none"
        /\ q.post # "none" => r.cli.mod \in DOMAIN serving.modules
        /\ q.post # "ran"
        /\ q.post = "waits" => m.max = 0 \/ (m.max > 0 /\ q.slot \in 1 .. m.max)
    BY <1>1, <1>4, <2>1, <2>2, <2>3
  <2> QED
    BY <2>4, Zenon DEF MayEnd, m
<1>6. ServingKept
  BY DEF ServingKept
<1> QED
  BY <1>1, <1>5, <1>6, EndSound, Zenon DEF r

\* The arguments are bad, or the pre-xfer command fails.
LEMMA ArgumentsFail ==
  ASSUME ConnInv, NEW k \in Conns, conn[k].s = "args", UNCHANGED serving,
         Refuse(k, [conn[k] EXCEPT !.toS = Tail(@), !.pre = IF @ = "waits" THEN "ran" ELSE @])
  PROVE  ConnInv'
<1> DEFINE r == conn[k]
           m == serving.modules[r.cli.mod]
           q == Tell([r EXCEPT !.toS = Tail(@), !.pre = IF @ = "waits" THEN "ran" ELSE @], [t |-> "error"])
<1>1. End(k, q) /\ r.s = "args"
  BY Zenon DEF Refuse
<1>2. r.s # "over"
  BY <1>1
<1>3. /\ DOMAIN r = ConnFields /\ HooksSound(r.s, r.early, r.pre, r.post, m)
      /\ Placed(r.s, r.post, r.slot, m) /\ Found(r.s, r.post, r.cli, serving.modules)
  BY <1>2, ConnParts, Zenon
<1>4. /\ DOMAIN q = ConnFields /\ q.cli = r.cli /\ q.slot = r.slot /\ q.wrote = r.wrote
      /\ q.pre = (IF r.pre = "waits" THEN "ran" ELSE r.pre) /\ q.post = r.post /\ q.early = r.early
  BY <1>3 DEF ConnFields, Tell
<1> HIDE DEF r, q
<1>5. MayEnd(q, r, serving.modules)
  <2>1. r.cli.mod \in DOMAIN serving.modules
    BY <1>1, <1>3 DEF Found, Inside
  <2> HIDE DEF m
  <2>2. m.max = 0 \/ (m.max > 0 /\ r.slot \in 1 .. m.max)
    BY <1>1, <1>3 DEF Placed, Waits, Inside
  <2>3. (m.early # "none" => r.early = "ran") /\ (m.post => r.post = "waits") /\ r.post # "ran"
    BY <1>1, <1>3 DEF HooksSound
  <2>4. /\ DOMAIN q = ConnFields /\ q.cli = r.cli /\ q.slot = r.slot /\ q.wrote = r.wrote
        /\ q.pre = "ran" /\ m.early # "none" => q.early = "ran"
        /\ (q.early = "ran" \/ q.pre = "ran") /\ m.post => q.post # "none"
        /\ q.post # "none" => r.cli.mod \in DOMAIN serving.modules
        /\ q.post # "ran"
        /\ q.post = "waits" => m.max = 0 \/ (m.max > 0 /\ q.slot \in 1 .. m.max)
    BY <1>4, <2>1, <2>2, <2>3
  <2> QED
    BY <2>4, Zenon DEF MayEnd, m
<1>6. ServingKept
  BY DEF ServingKept
<1> QED
  BY <1>1, <1>5, <1>6, EndSound, Zenon DEF r

\* The parent runs the post-xfer command and gives the place back.
LEMMA PostXferSound ==
  ASSUME ConnInv, NEW k \in Conns, PostXfer(k)
  PROVE  ConnInv'
<1> DEFINE r == conn[k]
           m == serving.modules[r.cli.mod]
           r1 == [r EXCEPT !.post = "ran", !.slot = 0]
<1>1. /\ r.s = "over" /\ r.post = "waits" /\ conn' = [conn EXCEPT ![k] = r1] /\ ServingKept
      /\ slots' = IF r.slot # 0 THEN [slots EXCEPT ![r.slot] = 0] ELSE slots
  BY Zenon DEF PostXfer, Set, ServingKept
<1>2. /\ DOMAIN r = ConnFields
      /\ r.cli.proto \in Int /\ r.cli.sub \in Int /\ r.cli.groups \in Seq(STRING)
      /\ HooksSound(r.s, r.early, r.pre, r.post, m)
      /\ Allowed(r.s, r.ro, r.wrote, r.cli, m)
      /\ Found(r.s, r.post, r.cli, serving.modules)
  BY Zenon DEF ConnInv, ConnSound
<1>3. /\ DOMAIN r1 = ConnFields /\ r1.cli = r.cli /\ r1.s = r.s /\ r1.slot = 0 /\ r1.early = r.early /\ r1.pre = r.pre
      /\ r1.post = "ran" /\ r1.wrote = r.wrote /\ r1.ro = r.ro
  BY <1>2 DEF ConnFields
<1> HIDE DEF r, m, r1
<1>4. HooksSound(r1.s, r1.early, r1.pre, r1.post, m)
  BY <1>1, <1>2, <1>3 DEF HooksSound
<1>5. Jailed(r1.s, r1.uid, r1.chrooted, r1.sanitize, r1.munge, m, serving.set)
  BY <1>1, <1>3 DEF Jailed
<1>6. Allowed(r1.s, r1.ro, r1.wrote, r1.cli, m)
  BY <1>2, <1>3, Zenon
<1>7. Placed(r1.s, r1.post, r1.slot, m)
  BY <1>1, <1>3 DEF Placed, Waits, Inside
<1>8. Found(r1.s, r1.post, r1.cli, serving.modules)
  BY <1>1, <1>2, <1>3 DEF Found, Inside
<1>9. ConnSound(k, r1, serving.modules, serving.set)
  BY <1>1, <1>2, <1>3, <1>4, <1>5, <1>6, <1>7, <1>8, Zenon DEF ConnSound, m
<1>10. SlotMove(k, conn[k].slot, r1.slot)
  BY <1>1, <1>3 DEF SlotMove, r
<1> QED
  BY <1>1, <1>9, <1>10, ConnMoves, Zenon DEF r1

\* Every step of a connection keeps the invariant.
LEMMA ConnStepSound ==
  ASSUME ConnInv, NEW k \in Conns, ConnStep(k)
  PROVE  ConnInv'
<1> DEFINE r == conn[k]
           q == [r EXCEPT !.toS = Tail(@)]
<1>0. UNCHANGED serving => ServingKept
  BY DEF ServingKept
<1>1. Same(r, r) /\ Same(q, r) /\ (\A x : Same(Tell(r, x), r)) /\ (\A x : Same(Tell(q, x), r))
  BY SameAs, Zenon
<1>2. CASE Accept(k)
  <2>1. r.s = "none"
    BY <1>2 DEF Accept
  <2>2. CASE Stay(k, [r EXCEPT !.s = "header"]) /\ UNCHANGED serving
    BY <2>1, <2>2, AcceptSound, Zenon
  <2>3. CASE serving' = [serving EXCEPT !.fails = @ + 1] /\ Stay(k, [r EXCEPT !.s = "over"])
    BY <2>1, <2>3, AcceptFails, Zenon DEF ServingKept
  <2> QED
    BY <1>2, <2>2, <2>3, Zenon DEF Accept
<1>3. CASE Greet(k)
  <2>1. r.s = "header" /\ UNCHANGED serving /\ r.s # "over"
    BY <1>3 DEF Greet
  <2>2. \/ End(k, r)
        \/ \E a, h : Stay(k, Tell([r EXCEPT !.s = "greet", !.addr = a, !.chrooted = serving.set.chroot, !.host = h], Hello))
    BY <1>3, Zenon DEF Greet, Hello
  <2> QED
    BY <1>0, <1>1, <2>1, <2>2, EndPlain, GreetSound, Zenon
<1>4. CASE Greeted(k)
  <2> DEFINE p0 == exchange_protocols(31, 0, Head(r.toS).p, Head(r.toS).sub)
  <2>1. r.s = "greet" /\ r.toS # <<>> /\ UNCHANGED serving /\ r.s # "over"
    BY <1>4 DEF Greeted
  <2>2. Refuse(k, q) \/ (~(p0 < 0) /\ Stay(k, [q EXCEPT !.s = "request", !.sproto = p0]))
    BY <1>4, Zenon DEF Greeted
  <2> QED
    BY <1>0, <1>1, <2>1, <2>2, EndPlain, GreetedSound, Zenon
<1>5. CASE Request(k)
  <2>1. r.s = "request" /\ r.toS # <<>> /\ UNCHANGED serving /\ r.s # "over"
    BY <1>5 DEF Request
  <2>2. \/ End(k, send_listing(q)) \/ Refuse(k, q)
        \/ Head(r.toS).t # "list" /\ Head(r.toS).mod \in DOMAIN serving.modules /\ Stay(k, [q EXCEPT !.s = "access"])
    BY <1>5, Zenon DEF Request
  <2>3. Same(send_listing(q), r)
    BY <1>1, Zenon DEF send_listing
  <2>4. CASE End(k, send_listing(q)) \/ Refuse(k, q)
    BY <1>0, <1>1, <2>1, <2>3, <2>4, EndPlain, Zenon
  <2>5. CASE Head(r.toS).t # "list" /\ Head(r.toS).mod \in DOMAIN serving.modules /\ Stay(k, [q EXCEPT !.s = "access"])
    BY <2>1, <2>5, RequestSound, Zenon
  <2> QED
    BY <2>2, <2>4, <2>5
<1>6. CASE Access(k)
  <2>1. r.s = "access" /\ UNCHANGED serving /\ r.s # "over"
    BY <1>6 DEF Access
  <2>2. Refuse(k, r) \/ Stay(k, [r EXCEPT !.s = "claim"])
    BY <1>6, Zenon DEF Access
  <2> QED
    BY <1>0, <1>1, <2>1, <2>2, EndPlain, AccessSound, Zenon
<1>7. CASE Claim(k)
  <2> DEFINE free == claim_connection(Mod(k).max)
             i == CHOOSE x \in free : \A y \in free : x <= y
  <2>1. r.s = "claim" /\ UNCHANGED serving /\ r.s # "over"
    BY <1>7 DEF Claim
  <2>2. \/ Mod(k).max = 0 /\ Stay(k, [r EXCEPT !.s = "auth"])
        \/ Refuse(k, r)
        \/ free # {} /\ Set(k, [r EXCEPT !.s = "auth", !.slot = i]) /\ slots' = [slots EXCEPT ![i] = k]
    BY <1>7, Zenon DEF Claim
  <2>3. CASE free # {} /\ Set(k, [r EXCEPT !.s = "auth", !.slot = i]) /\ slots' = [slots EXCEPT ![i] = k]
    <3>1. Mod(k).max \in Int
      <4>1. conn[k].s \in {"access"} \union Inside
        BY <2>1 DEF Inside
      <4>2. ModuleType(Mod(k))
        BY <4>1, ModuleKnown, Zenon DEF Mod
      <4> QED
        BY <4>2, Zenon DEF ModuleType
    <3>2. free \subseteq Nat
      BY <3>1 DEF claim_connection
    <3>3. i \in free /\ \A x \in free : i <= x
      BY <2>3, <3>2, Smallest, Zenon
    <3> HIDE DEF i
    <3> QED
      BY <2>1, <2>3, <3>3, ClaimSound, Zenon DEF Set
  <2>4. CASE Refuse(k, r)
    BY <1>0, <1>1, <2>1, <2>4, EndPlain, Zenon
  <2>5. CASE Mod(k).max = 0 /\ Stay(k, [r EXCEPT !.s = "auth"])
    BY <2>1, <2>5, ClaimFree, Zenon
  <2> QED
    BY <2>2, <2>3, <2>4, <2>5, Zenon
<1>8. CASE Challenge(k)
  <2> DEFINE ro == [r EXCEPT !.ro = Mod(k).ro]
  <2>1. r.s = "auth" /\ UNCHANGED serving
    BY <1>8 DEF Challenge
  <2>2. CASE Mod(k).auth = <<>>
    <3>1. Stay(k, [ro EXCEPT !.s = "hooks"])
      BY <1>8, <2>2, Zenon DEF Challenge
    <3> QED
      BY <2>1, <2>2, <3>1, ChallengeNone, Zenon
  <2>3. CASE Mod(k).auth # <<>>
    <3>1. Stay(k, Tell([ro EXCEPT !.s = "answer"], ChallengeOf(k)))
      BY <1>8, <2>3, Zenon DEF Challenge, ChallengeOf
    <3> QED
      BY <2>1, <3>1, ChallengeSound, Zenon
  <2> QED
    BY <2>2, <2>3
<1>9. CASE Answer(k)
  <2> DEFINE a == auth_server(Mod(k), Head(r.toS).user, q.cli.groups, gen_challenge(k), Head(r.toS).hash)
  <2>1. r.s = "answer" /\ r.toS # <<>> /\ UNCHANGED serving /\ r.s # "over"
    BY <1>9 DEF Answer
  <2>2. Refuse(k, q) \/ (a.ok /\ Stay(k, [q EXCEPT !.s = "hooks", !.ro = a.ro]))
    BY <1>9, Zenon DEF Answer
  <2>3. q.cli = r.cli
    BY <1>1, Zenon DEF Same
  <2>4. a = auth_server(Mod(k), Head(r.toS).user, r.cli.groups, gen_challenge(k), Head(r.toS).hash)
    BY <2>3, Zenon
  <2> HIDE DEF a
  <2>5. CASE Refuse(k, q)
    BY <1>0, <1>1, <2>1, <2>5, EndPlain, Zenon
  <2>6. CASE a.ok /\ Stay(k, [q EXCEPT !.s = "hooks", !.ro = a.ro])
    BY <2>1, <2>4, <2>6, AnswerSound, Zenon
  <2> QED
    BY <2>2, <2>5, <2>6
<1>10. CASE Hooks(k)
  <2> DEFINE e == [[r EXCEPT !.post = IF Mod(k).post THEN "waits" ELSE @]
                          EXCEPT !.early = IF Mod(k).early = "none" THEN @ ELSE "ran"]
  <2>1. r.s = "hooks" /\ UNCHANGED serving /\ r.s # "over"
    BY <1>10 DEF Hooks
  <2>2. \/ Refuse(k, r) \/ (Mod(k).early = "fails" /\ Refuse(k, e))
        \/ Mod(k).early # "fails" /\ Stay(k, [e EXCEPT !.s = "enter", !.pre = IF Mod(k).pre = "none" THEN @ ELSE "waits"])
    BY <1>10, Zenon DEF Hooks
  <2>3. CASE Refuse(k, r)
    BY <1>0, <1>1, <2>1, <2>3, EndPlain, Zenon
  <2>4. CASE Mod(k).early = "fails" /\ Refuse(k, e)
    BY <2>1, <2>4, HooksFail, Zenon
  <2>5. CASE Mod(k).early # "fails" /\ Stay(k, [e EXCEPT !.s = "enter", !.pre = IF Mod(k).pre = "none" THEN @ ELSE "waits"])
    BY <2>1, <2>5, HooksPass, Zenon
  <2> QED
    BY <2>2, <2>3, <2>4, <2>5
<1>11. CASE Enter(k)
  <2>1. r.s = "enter" /\ r.s # "over"
    BY <1>11 DEF Enter
  <2>2. CASE Refuse(k, r) /\ serving' = [serving EXCEPT !.fails = @ + 1]
    BY <1>1, <2>1, <2>2, EndPlain, Zenon DEF ServingKept
  <2>3. CASE /\ UNCHANGED serving
             /\ Stay(k, Tell([r EXCEPT !.s = "args", !.chrooted = @ \/ Mod(k).chroot, !.uid = Mod(k).uid,
                               !.sanitize = Sanitize(Mod(k), serving.set), !.munge = munge_symlinks(Mod(k))], Ready))
    BY <2>1, <2>3, EnterSound, Zenon
  <2> QED
    BY <1>11, <2>2, <2>3, Zenon DEF Enter, Ready
<1>12. CASE Arguments(k)
  <2> DEFINE p == [r EXCEPT !.toS = Tail(@), !.pre = IF @ = "waits" THEN "ran" ELSE @]
  <2>1. r.s = "args" /\ r.toS # <<>> /\ UNCHANGED serving
    BY <1>12 DEF Arguments
  <2>2. Refuse(k, p) \/ (Mod(k).pre # "fails" /\ \E x \in {"recv", "send"} : Stay(k, [p EXCEPT !.s = x]))
    BY <1>12, Zenon DEF Arguments
  <2>3. CASE Refuse(k, p)
    BY <2>1, <2>3, ArgumentsFail, Zenon
  <2>4. CASE Mod(k).pre # "fails" /\ \E x \in {"recv", "send"} : Stay(k, [p EXCEPT !.s = x])
    BY <2>1, <2>4, ArgumentsSound, Zenon
  <2> QED
    BY <2>2, <2>3, <2>4
<1>13. CASE Serve(k)
  <2>1. r.s \in {"recv", "send"} /\ UNCHANGED serving /\ r.s # "over"
    BY <1>13 DEF Serve
  <2>2. Refuse(k, r) \/ (~(r.s = "recv" /\ r.ro) /\ Stay(k, [r EXCEPT !.wrote = (r.s = "recv"), !.s = "transfer"]))
    BY <1>13, Zenon DEF Serve
  <2> QED
    BY <1>0, <1>1, <2>1, <2>2, EndPlain, ServeSound, Zenon
<1>14. CASE Finish(k)
  <2>1. r.s # "over" /\ End(k, Tell(r, [t |-> "done"])) /\ UNCHANGED serving
    BY <1>14, Zenon DEF Finish
  <2> QED
    BY <1>0, <1>1, <2>1, EndPlain, Zenon
<1>15. CASE Hangup(k) \/ Killed(k)
  <2>1. r.s # "over" /\ End(k, r) /\ ServingKept
    BY <1>0, <1>15 DEF Hangup, Killed, ServingKept
  <2> QED
    BY <1>1, <2>1, EndPlain, Zenon
<1> QED
  BY <1>2, <1>3, <1>4, <1>5, <1>6, <1>7, <1>8, <1>9, <1>10, <1>11, <1>12, <1>13, <1>14, <1>15,
     PostXferSound, ClientGreetSound, ClientReadsSound, ClientEndsSound, Zenon DEF ConnStep

\* A connection before it is accepted, or one that is never made.
LEMMA NewConnSound ==
  ASSUME NEW k, NEW cli, NEW mods, NEW set, cli.proto \in Int, cli.sub \in Int, cli.groups \in Seq(STRING),
         NEW r, r = NewConn(cli) \/ r = [NewConn(cli) EXCEPT !.s = "off", !.c = "off"]
  PROVE  ConnSound(k, r, mods, set) /\ r.slot = 0
<1>1. /\ DOMAIN r = ConnFields /\ r.cli = cli /\ r.toS = <<>> /\ r.toC = <<>> /\ r.slot = 0
      /\ r.early = "none" /\ r.pre = "none" /\ r.post = "none" /\ r.wrote = FALSE
      /\ (r.s = "none" /\ r.c = "greet") \/ (r.s = "off" /\ r.c = "off")
  <2>1. /\ DOMAIN NewConn(cli) = ConnFields /\ NewConn(cli).cli = cli /\ NewConn(cli).toS = <<>>
        /\ NewConn(cli).toC = <<>> /\ NewConn(cli).slot = 0 /\ NewConn(cli).early = "none"
        /\ NewConn(cli).pre = "none" /\ NewConn(cli).post = "none" /\ NewConn(cli).wrote = FALSE
        /\ NewConn(cli).s = "none" /\ NewConn(cli).c = "greet"
    BY DEF NewConn, ConnFields
  <2>2. CASE r = NewConn(cli)
    BY <2>1, <2>2
  <2>3. CASE r = [NewConn(cli) EXCEPT !.s = "off", !.c = "off"]
    BY <2>1, <2>3 DEF ConnFields
  <2> QED
    BY <2>2, <2>3
<1>2. Talk(k, r.s, r.c, r.toS, r.toC, r.cli)
  BY <1>1 DEF Talk
<1>3. VersionsKept(r.s, r.c, r.sproto, r.cproto, r.cli)
  BY <1>1 DEF VersionsKept, Inside
<1>4. HooksSound(r.s, r.early, r.pre, r.post, mods[r.cli.mod])
  BY <1>1 DEF HooksSound
<1>5. Jailed(r.s, r.uid, r.chrooted, r.sanitize, r.munge, mods[r.cli.mod], set)
  BY <1>1 DEF Jailed
<1>6. Allowed(r.s, r.ro, r.wrote, r.cli, mods[r.cli.mod])
  BY <1>1 DEF Allowed, Admitted
<1>7. Placed(r.s, r.post, r.slot, mods[r.cli.mod])
  BY <1>1 DEF Placed, Waits, Inside
<1>8. Found(r.s, r.post, r.cli, mods)
  BY <1>1 DEF Found, Inside
<1> QED
  BY <1>1, <1>2, <1>3, <1>4, <1>5, <1>6, <1>7, <1>8, Zenon DEF ConnSound

LEMMA ConnStart ==
  ASSUME NEW sc \in Scenarios, NEW busy \in BOOLEAN, NEW p, NEW c, NEW s, DaemonStart(sc, busy, p, c, s)
  PROVE  ConnInv
<1>1. /\ sc.set.chroot \in BOOLEAN
      /\ \A n \in DOMAIN sc.modules : ModuleType(sc.modules[n])
      /\ \A k \in Conns : sc.clients[k].proto \in Int /\ sc.clients[k].sub \in Int /\ sc.clients[k].groups \in Seq(STRING)
  BY DaemonAssumption, Zenon
<1>2. serving = [set |-> sc.set, modules |-> sc.modules, fails |-> 0]
  BY DEF DaemonStart
<1>3. Configured
  <2>1. DOMAIN serving = {"set", "modules", "fails"} /\ serving.set = sc.set /\ serving.modules = sc.modules
    BY <1>2
  <2> QED
    BY <1>1, <2>1, Zenon DEF Configured
<1>4. /\ DOMAIN conn = Conns
      /\ \A k \in Conns : \/ conn[k] = NewConn(sc.clients[k])
                          \/ conn[k] = [NewConn(sc.clients[k]) EXCEPT !.s = "off", !.c = "off"]
  <2>1. conn = [k \in Conns |-> IF busy /\ sc.clients[k].mod # "off" THEN NewConn(sc.clients[k])
                                ELSE [NewConn(sc.clients[k]) EXCEPT !.s = "off", !.c = "off"]]
    BY DEF DaemonStart
  <2> QED
    BY <2>1, Zenon
<1>5. \A k \in Conns : ConnSound(k, conn[k], serving.modules, serving.set) /\ conn[k].slot = 0
  <2>1. ASSUME NEW k \in Conns
        PROVE  ConnSound(k, conn[k], serving.modules, serving.set) /\ conn[k].slot = 0
    <3> DEFINE cli == sc.clients[k]
               r == conn[k]
    <3>1. cli.proto \in Int /\ cli.sub \in Int /\ cli.groups \in Seq(STRING)
      BY <1>1, Zenon
    <3>2. r = NewConn(cli) \/ r = [NewConn(cli) EXCEPT !.s = "off", !.c = "off"]
      BY <1>4, Zenon
    <3> HIDE DEF cli, r
    <3>3. ConnSound(k, r, serving.modules, serving.set) /\ r.slot = 0
      BY <3>1, <3>2, NewConnSound, Zenon
    <3> QED
      BY <3>3 DEF r
  <2> QED
    BY <2>1
<1>6. slots = [i \in 1 .. 1 + Cardinality(Conns) |-> 0]
  BY DEF DaemonStart
<1>7. SlotsSound
  BY <1>5, <1>6, Zenon DEF SlotsSound
<1> QED
  BY <1>3, <1>4, <1>5, <1>7, Zenon DEF ConnInv

\* The connections that hold places of a module: not more than there are.
LEMMA LimitKept ==
  ASSUME ConnInv
  PROVE  ConnectionLimit
<1>1. ASSUME NEW k \in Counted
      PROVE  /\ k \in Conns /\ Waits(conn[k].s, conn[k].post) /\ Mod(k).max \in Int
             /\ Mod(k).max = 0 \/ (Mod(k).max > 0 /\ conn[k].slot \in 1 .. Mod(k).max)
             /\ conn[k].slot # 0 => slots[conn[k].slot] = k
  <2>1. k \in Conns /\ Waits(conn[k].s, conn[k].post)
    BY Zenon DEF Counted, Waits
  <2>2. /\ Found(conn[k].s, conn[k].post, conn[k].cli, serving.modules)
        /\ Placed(conn[k].s, conn[k].post, conn[k].slot, Mod(k))
    BY <2>1, Zenon DEF ConnInv, ConnSound, Mod
  <2>3. conn[k].cli.mod \in DOMAIN serving.modules
    BY <2>1, <2>2 DEF Waits, Found
  <2>4. ModuleType(Mod(k))
    BY <2>3, Zenon DEF ConnInv, Configured, Mod
  <2>5. Mod(k).max \in Int
    BY <2>4, Zenon DEF ModuleType
  <2>6. conn[k].slot # 0 => slots[conn[k].slot] = k
    BY <2>1, Zenon DEF ConnInv, SlotsSound
  <2> QED
    BY <2>1, <2>2, <2>5, <2>6, Zenon DEF Placed
<1>2. ASSUME NEW k \in Counted, Mod(k).max # 0
      PROVE  Mod(k).max > 0 /\ Cardinality({j \in Counted : Mod(j).max \in 1 .. Mod(k).max}) <= Mod(k).max
  <2> DEFINE M == Mod(k).max
             J == {j \in Counted : Mod(j).max \in 1 .. M}
             f == [j \in J |-> conn[j].slot]
  <2>1. M \in Int /\ M > 0
    BY <1>1, <1>2, Zenon
  <2> HIDE DEF M
  <2>2. ASSUME NEW j \in J
        PROVE  conn[j].slot \in 1 .. M /\ slots[conn[j].slot] = j
    <3>1. j \in Counted /\ Mod(j).max \in 1 .. M
      OBVIOUS
    <3>2. /\ Mod(j).max = 0 \/ (Mod(j).max > 0 /\ conn[j].slot \in 1 .. Mod(j).max)
          /\ conn[j].slot # 0 => slots[conn[j].slot] = j
      BY <1>1, <3>1, Zenon
    <3> QED
      BY <2>1, <3>1, <3>2
  <2>3. J \subseteq Conns
    BY <1>1, Zenon
  <2>4. IsFiniteSet(J)
    BY <2>3, DaemonAssumption, FS_Subset, Zenon
  <2>5. IsFiniteSet(1 .. M) /\ Cardinality(1 .. M) = M
    <3>1. 1 \in Int
      OBVIOUS
    <3>2. IsFiniteSet(1 .. M) /\ Cardinality(1 .. M) = IF 1 > M THEN 0 ELSE M - 1 + 1
      BY <2>1, <3>1, FS_Interval, Zenon
    <3> QED
      BY <2>1, <3>2
  <2> HIDE DEF J
  <2>6. f \in [J -> 1 .. M]
    BY <2>2
  <2>7. \A i, j \in J : f[i] = f[j] => i = j
    BY <2>2
  <2>8. Cardinality(J) <= M
    <3>1. Cardinality(J) \in Nat /\ M \in Nat
      BY <2>1, <2>4, FS_CardinalityType
    <3>2. ASSUME M < Cardinality(J)
          PROVE  FALSE
      <4> HIDE DEF f
      <4>1. Cardinality(1 .. M) < Cardinality(J)
        BY <2>5, <3>2
      <4>2. \E i, j \in J : i # j /\ f[i] = f[j]
        BY <2>4, <2>5, <2>6, <4>1, FS_PigeonHole
      <4> QED
        BY <2>7, <4>2
    <3> QED
      BY <3>1, <3>2
  <2> QED
    BY <2>1, <2>8 DEF M, J
<1>3. ASSUME NEW i \in DOMAIN slots, slots[i] # 0
      PROVE  slots[i] \in Counted /\ conn[slots[i]].slot = i
  <2>1. slots[i] \in Conns /\ conn[slots[i]].slot = i
    BY <1>3, Zenon DEF ConnInv, SlotsSound
  <2>2. i # 0
    BY DEF ConnInv, SlotsSound
  <2>3. Placed(conn[slots[i]].s, conn[slots[i]].post, conn[slots[i]].slot, Mod(slots[i]))
    BY <2>1, Zenon DEF ConnInv, ConnSound, Mod
  <2>4. Waits(conn[slots[i]].s, conn[slots[i]].post)
    BY <2>1, <2>2, <2>3, Zenon DEF Placed
  <2> QED
    BY <2>1, <2>4, Zenon DEF Counted, Waits
<1> QED
  BY <1>2, <1>3, Zenon DEF ConnectionLimit

\* The invariant gives what is asked of every connection.
LEMMA InvGuards ==
  ASSUME ConnInv
  PROVE  /\ OnlyKnownUsers /\ WritersAllowed /\ ConnectionLimit /\ ConfinedBeforeArgs
         /\ HooksInOrder /\ DaemonAnswers /\ ProtocolsAgree
<1>1. ASSUME NEW k \in Conns
      PROVE  /\ conn[k].s # "over" => /\ Talk(k, conn[k].s, conn[k].c, conn[k].toS, conn[k].toC, conn[k].cli)
                                      /\ VersionsKept(conn[k].s, conn[k].c, conn[k].sproto, conn[k].cproto, conn[k].cli)
             /\ conn[k].cli.proto \in Int /\ conn[k].cli.sub \in Int
             /\ HooksSound(conn[k].s, conn[k].early, conn[k].pre, conn[k].post, Mod(k))
             /\ Jailed(conn[k].s, conn[k].uid, conn[k].chrooted, conn[k].sanitize, conn[k].munge, Mod(k), serving.set)
             /\ Allowed(conn[k].s, conn[k].ro, conn[k].wrote, conn[k].cli, Mod(k))
  BY Zenon DEF ConnInv, ConnSound, Mod
<1>2. OnlyKnownUsers /\ WritersAllowed
  BY <1>1, Zenon DEF OnlyKnownUsers, WritersAllowed, Allowed
<1>3. ConfinedBeforeArgs
  BY <1>1, Zenon DEF ConfinedBeforeArgs, Jailed
<1>4. HooksInOrder
  BY <1>1, Zenon DEF HooksInOrder, HooksSound
<1>5. DaemonAnswers
  <2>1. ASSUME NEW k \in Conns,
               conn[k].s \in {"greet", "request", "answer", "args"} /\ conn[k].toS = <<>>,
               conn[k].c \in {"greeting", "wait", "transfer"} /\ conn[k].toC = <<>>
        PROVE  FALSE
    <3>1. Talk(k, conn[k].s, conn[k].c, conn[k].toS, conn[k].toC, conn[k].cli)
      BY <1>1, <2>1
    <3> QED
      BY <2>1, <3>1 DEF Talk
  <2> QED
    BY <2>1, Zenon DEF DaemonAnswers
<1>6. ProtocolsAgree
  <2>1. ASSUME NEW k \in Conns, conn[k].s \in {"request", "access"} \union Inside, conn[k].c \in {"wait", "transfer"}
        PROVE  conn[k].sproto = conn[k].cproto
    <3>1. VersionsKept(conn[k].s, conn[k].c, conn[k].sproto, conn[k].cproto, conn[k].cli)
      BY <1>1, <2>1 DEF Inside
    <3>2. /\ conn[k].sproto = ServerVersion(conn[k].cli) /\ ServerVersion(conn[k].cli) >= 0
          /\ conn[k].cproto = ClientVersion(conn[k].cli)
      BY <2>1, <3>1, Zenon DEF VersionsKept
    <3> QED
      BY <1>1, <3>2, VersionsMeet, Zenon
  <2> QED
    BY <2>1, Zenon DEF ProtocolsAgree
<1> QED
  BY <1>2, <1>3, <1>4, <1>5, <1>6, LimitKept, Zenon

\* The connections of a daemon, for every number of them, every configuration
\* and every order of their steps: users, rights, limit, hooks and versions.
THEOREM ConnectionsSafe == ServiceSpec => []ConnectionsGuarded
<1>1. ServiceInit => ConnInv
  <2>1. AnyScenario \in Scenarios /\ TRUE \in BOOLEAN /\ FALSE \in BOOLEAN
    BY DaemonAssumption DEF AnyScenario
  <2> QED
    BY <2>1, ConnStart, Zenon DEF ServiceInit, DaemonIdle, DaemonInit
<1>2. ConnInv /\ [ServiceNext]_<<vars, dvars>> => ConnInv'
  <2>1. ASSUME ConnInv, UNCHANGED <<conn, slots, serving>>
        PROVE  ConnInv'
    BY <2>1 DEF ConnInv, Configured, SlotsSound
  <2> QED
    BY <2>1, ConnStepSound DEF ServiceNext, DaemonNext, PidNext, SockStep, ConfStep, ConnNext, dvars
<1>3. ConnInv => ConnectionsGuarded
  BY InvGuards, Zenon DEF ConnectionsGuarded
<1> QED
  BY <1>1, <1>2, <1>3, PTL DEF ServiceSpec
===============================================================================
