-------------------------------- MODULE Daemon --------------------------------
(***************************************************************************)
(* The daemon (clientserver.c, socket.c, connection.c): its start with the *)
(* pid file, the processes that serve its connections, from the greeting to *)
(* the transfer, and the client on the other side.  The processes share     *)
(* the lock file that counts the connections.                               *)
(***************************************************************************)
EXTENDS DaemonConf

CONSTANTS
  Daemons,       \* processes that try to become the daemon
  Conns,         \* connections
  Scenarios,     \* [set, modules, clients]: settings of the daemon ([chroot,
                 \* proxy, dns, names]), its modules by name, and the clients
                 \* (one with the module "off" does not connect)
  Configs,       \* configuration files to read
  Addresses,     \* what becomes of the addresses of a host or port, in order
  MaxFail        \* failures of the system that a behaviour has

\* The parameters of a module that the properties below are about.
AuthRule == [group : BOOLEAN, name : STRING, opt : {"", "deny", "ro", "rw"}]
SecretLine == [group : BOOLEAN, name : STRING, pass : STRING]
ModuleType(m) ==
  /\ m.max \in Int /\ m.munge \in {-1, 0, 1}
  /\ {m.chroot, m.inner, m.ro, m.wo, m.post} \subseteq BOOLEAN
  /\ m.auth \in Seq(AuthRule)
  /\ m.secrets \in Seq(SecretLine)

\* The places that are no daemon, and no connection; the values that the
\* parameters of a module have (loadparm.c), and what clients send.
ASSUME DaemonAssumption ==
  /\ IsFiniteSet(Daemons) /\ "none" \notin Daemons
  /\ IsFiniteSet(Conns) /\ 0 \notin Conns
  /\ Scenarios # {}
  /\ \A sc \in Scenarios :
       /\ sc.set.chroot \in BOOLEAN
       /\ \A n \in DOMAIN sc.modules : ModuleType(sc.modules[n])
       /\ \A k \in Conns : sc.clients[k].proto \in Int /\ sc.clients[k].sub \in Int
                         /\ sc.clients[k].groups \in Seq(STRING)

VARIABLES pid, conn, slots, serving, conf, sock
dvars == <<pid, conn, slots, serving, conf, sock>>

(***************************************************************************)
(* create_pid_file and the end of a daemon.  A file is its inode; 0 is no   *)
(* file, and "other" is no regular file.                                    *)
(***************************************************************************)
MaxInode == 2 + 2 * Cardinality(Daemons)   \* bound: files that there can be
PidStart(first) ==
  [first |-> first, path |-> first, next |-> 2, owner |-> [i \in 1 .. MaxInode |-> "none"],
   text |-> [i \in 1 .. MaxInode |-> "none"],
   pc |-> [d \in Daemons |-> "lstat"], ino |-> [d \in Daemons |-> 0]]

OtherFile == -1
PidFail(d) == [pid EXCEPT !.pc[d] = "failed",
                          !.owner = [i \in DOMAIN @ |-> IF @[i] = d THEN "none" ELSE @[i]]]

PidLstat(d) ==
  /\ pid.pc[d] = "lstat"
  /\ pid' = [pid EXCEPT !.pc[d] = IF pid.path = OtherFile THEN "unlink" ELSE "open"]
PidUnlink(d) ==
  /\ pid.pc[d] = "unlink"
  /\ pid' = IF pid.path = 0 THEN PidFail(d) ELSE [pid EXCEPT !.path = 0, !.pc[d] = "open"]
PidOpen(d) ==
  /\ pid.pc[d] = "open" /\ pid.next <= MaxInode
  /\ pid' = IF pid.path = OtherFile THEN PidFail(d)
            ELSE IF pid.path # 0 THEN [pid EXCEPT !.ino[d] = pid.path, !.pc[d] = "lock"]
            ELSE [pid EXCEPT !.path = pid.next, !.ino[d] = pid.next, !.next = @ + 1, !.pc[d] = "lock"]
PidLock(d) ==
  /\ pid.pc[d] = "lock"
  /\ pid' = IF pid.owner[pid.ino[d]] # "none" THEN PidFail(d)
            ELSE [pid EXCEPT !.owner[pid.ino[d]] = d, !.pc[d] = "verify"]

\* Mutant: the file that was opened is not compared with the one that is there.
PidTrust(d) ==
  /\ pid.pc[d] = "verify"
  /\ pid' = [pid EXCEPT !.pc[d] = "write"]

\* The file that was opened must still be the one with that name.
PidVerify(d) ==
  /\ pid.pc[d] = "verify"
  /\ pid' = IF pid.path # pid.ino[d] THEN PidFail(d) ELSE [pid EXCEPT !.pc[d] = "write"]
PidWrite(d) ==
  /\ pid.pc[d] = "write"
  /\ pid' = [pid EXCEPT !.text[pid.ino[d]] = d, !.pc[d] = "up"]

\* exit_cleanup: the name is removed while the process still holds the lock.
PidRemove(d) ==
  /\ pid.pc[d] = "up"
  /\ pid' = [pid EXCEPT !.path = 0, !.pc[d] = "leaving"]
PidExit(d) == pid.pc[d] = "leaving" /\ pid' = PidFail(d)
\* A killed daemon leaves the file.
PidKilled(d) == pid.pc[d] \in {"verify", "write", "up"} /\ pid' = PidFail(d)

PidNext ==
  /\ \E d \in Daemons : \/ PidLstat(d) \/ PidUnlink(d) \/ PidOpen(d) \/ PidLock(d) \/ PidVerify(d)
                        \/ PidWrite(d) \/ PidRemove(d) \/ PidExit(d) \/ PidKilled(d)
  /\ UNCHANGED <<conn, slots, serving, conf, sock>>

(***************************************************************************)
(* Sockets.  An address fails at its socket, at the bind, at the connect or *)
(* in the dialogue with a proxy, or works.                                  *)
(***************************************************************************)
\* The answer of a proxy: a line with a code 2xx, and headers to a blank line.
establish_proxy_connection(a) == a = "proxied"

\* open_socket_out: after a timeout the program ends.
OutStep(st, a) ==
  CASE st.got # 0 \/ st.dead -> st
    [] a = "nosocket" -> [st EXCEPT !.at = @ + 1]
    [] a = "timeout" -> [st EXCEPT !.at = @ + 1, !.open = @ \union {st.at}, !.dead = TRUE]
    [] a = "ok" \/ establish_proxy_connection(a) ->
         [st EXCEPT !.at = @ + 1, !.open = @ \union {st.at}, !.got = st.at]
    [] OTHER -> [st EXCEPT !.at = @ + 1]
open_socket_out(addrs) == FoldLeft(OutStep, [at |-> 1, got |-> 0, open |-> {}, dead |-> FALSE], addrs)

\* open_socket_in: the sockets that are bound; without one the daemon ends.
open_socket_in(addrs) == {i \in 1 .. Len(addrs) : addrs[i] \notin {"nosocket", "nobind"}}

\* start_accept_loop: all of them must listen, or the daemon ends.
start_accept_loop(addrs) ==
  LET bound == open_socket_in(addrs)
  IN IF \E i \in bound : addrs[i] = "nolisten" THEN {} ELSE bound

SockStep ==
  /\ sock.n = 0
  /\ \E a \in Addresses :
       LET o == open_socket_out(a)
       IN sock' = [n |-> 1, addrs |-> a, out |-> o, listen |-> start_accept_loop(a)]
  /\ UNCHANGED <<pid, conn, slots, serving, conf>>

(***************************************************************************)
(* The configuration file is read, by the daemon for its global parameters  *)
(* and for each connection in full.                                         *)
(***************************************************************************)
ConfStep ==
  /\ conf.n = 0
  /\ \E c \in Configs : conf' = [n |-> 1, lines |-> c, full |-> lp_load(c, FALSE), main |-> lp_load(c, TRUE)]
  /\ UNCHANGED <<pid, conn, slots, serving, sock>>

(***************************************************************************)
(* Connections.  s and c are the places of server and client; toS and toC   *)
(* the messages between them.                                               *)
(***************************************************************************)
NewConn(cli) ==
  [cli |-> cli, s |-> "none", c |-> "greet", toS |-> <<>>, toC |-> <<>>, sproto |-> 31, cproto |-> cli.proto,
   addr |-> <<>>, host |-> "", ro |-> TRUE, slot |-> 0, uid |-> "root", chrooted |-> FALSE, sanitize |-> FALSE,
   munge |-> FALSE, early |-> "none", pre |-> "none", post |-> "none", wrote |-> FALSE]

Mod(k) == serving.modules[conn[k].cli.mod]
Set(k, r) == conn' = [conn EXCEPT ![k] = r]
Tell(r, m) == [r EXCEPT !.toC = Append(@, m)]
Reply(r, m) == [r EXCEPT !.toS = Append(@, m)]

\* The serving process ends.  With a post-xfer command its parent holds the
\* slot and goes on, else the slot is free.  A pre-xfer command that was not
\* told the request sees the end of the pipe, and does not run.
Over(r) == [r EXCEPT !.s = "over", !.slot = IF r.post = "waits" THEN @ ELSE 0,
                     !.pre = IF @ = "waits" THEN "none" ELSE @]
Freed(r) == IF r.post # "waits" /\ r.slot # 0 THEN [slots EXCEPT ![r.slot] = 0] ELSE slots
End(k, r) == Set(k, Over(r)) /\ slots' = Freed(r)
Refuse(k, r) == End(k, Tell(r, [t |-> "error"]))
Stay(k, r) == Set(k, r) /\ UNCHANGED slots

\* exchange_protocols; the version of a test build has a sub-version.
exchange_protocols(my, mysub, remote, rsub) ==
  LET rs == IF rsub < 0 THEN 0 ELSE rsub
  IN IF rsub < 0 /\ remote = 30 THEN -1
     ELSE IF my > remote THEN IF rs # 0 THEN remote - 1 ELSE remote
     ELSE IF my = remote THEN IF rs # mysub THEN my - 1 ELSE my
     ELSE IF mysub # 0 THEN my - 1 ELSE my

\* start_accept_loop: a process for the connection, or none if fork fails.
Accept(k) ==
  /\ conn[k].s = "none"
  /\ \/ Stay(k, [conn[k] EXCEPT !.s = "header"]) /\ UNCHANGED serving
     \/ /\ serving.fails < MaxFail /\ serving' = [serving EXCEPT !.fails = @ + 1]
        /\ Stay(k, [conn[k] EXCEPT !.s = "over"])

\* start_daemon: configuration, proxy header, chroot of the daemon, address
\* and name of the client; then the greeting.
Greet(k) ==
  /\ conn[k].s = "header"
  /\ LET r == conn[k]
         h == IF serving.set.proxy THEN read_proxy_protocol_header(r.cli.header) ELSE [ok |-> TRUE, addr |-> <<>>]
         addr == client_addr(h.addr, r.cli.peer)
         q == [r EXCEPT !.s = "greet", !.addr = addr, !.chrooted = serving.set.chroot,
                        !.host = client_name(addr, serving.set.dns, serving.set.names)]
     IN IF h.ok THEN Stay(k, Tell(q, [t |-> "greet", p |-> 31, sub |-> 0])) ELSE End(k, r)
  /\ UNCHANGED serving

Greeted(k) ==
  /\ conn[k].s = "greet" /\ conn[k].toS # <<>>
  /\ LET m == Head(conn[k].toS)
         r == [conn[k] EXCEPT !.toS = Tail(@)]
         p == exchange_protocols(31, 0, m.p, m.sub)
     IN IF m.t # "greet" THEN Refuse(k, r)
        ELSE IF p < 0 THEN Refuse(k, r) ELSE Stay(k, [r EXCEPT !.s = "request", !.sproto = p])
  /\ UNCHANGED serving

send_listing(r) == IF r.sproto >= 25 THEN Tell(r, [t |-> "exit"]) ELSE r

\* A list of the modules ends the connection; older clients see its end.
Request(k) ==
  /\ conn[k].s = "request" /\ conn[k].toS # <<>>
  /\ LET m == Head(conn[k].toS)
         r == [conn[k] EXCEPT !.toS = Tail(@)]
     IN IF m.t = "list" THEN End(k, send_listing(r))
        ELSE IF m.mod \notin DOMAIN serving.modules THEN Refuse(k, r)
        ELSE Stay(k, [r EXCEPT !.s = "access"])
  /\ UNCHANGED serving

Access(k) ==
  /\ conn[k].s = "access"
  /\ IF allow_access(Mod(k), conn[k].addr, conn[k].host, serving.set.dns)
     THEN Stay(k, [conn[k] EXCEPT !.s = "claim"]) ELSE Refuse(k, conn[k])
  /\ UNCHANGED serving

\* Mutant: the slots are counted from 0 to the limit.
ClaimOneMore(max_connections) == {i \in 1 .. max_connections + 1 : slots[i] = 0}

\* the places in the lock file that can be locked
claim_connection(max_connections) == {i \in 1 .. max_connections : slots[i] = 0}

\* The first place in the lock file that is free, or a refusal.
Claim(k) ==
  /\ conn[k].s = "claim"
  /\ LET r == conn[k]
         free == claim_connection(Mod(k).max)
         i == CHOOSE x \in free : \A y \in free : x <= y
     IN IF Mod(k).max = 0 THEN Stay(k, [r EXCEPT !.s = "auth"])
        ELSE IF free = {} THEN Refuse(k, r)
        ELSE Set(k, [r EXCEPT !.s = "auth", !.slot = i]) /\ slots' = [slots EXCEPT ![i] = k]
  /\ UNCHANGED serving

Challenge(k) ==
  /\ conn[k].s = "auth"
  /\ LET r == [conn[k] EXCEPT !.ro = Mod(k).ro]
     IN Stay(k, IF Mod(k).auth = <<>> THEN [r EXCEPT !.s = "hooks"]
                ELSE Tell([r EXCEPT !.s = "answer"], [t |-> "authreqd", ch |-> gen_challenge(k)]))
  /\ UNCHANGED serving

Answer(k) ==
  /\ conn[k].s = "answer" /\ conn[k].toS # <<>>
  /\ LET m == Head(conn[k].toS)
         r == [conn[k] EXCEPT !.toS = Tail(@)]
         a == auth_server(Mod(k), m.user, r.cli.groups, gen_challenge(k), m.hash)
     IN IF a.ok THEN Stay(k, [r EXCEPT !.s = "hooks", !.ro = a.ro]) ELSE Refuse(k, r)
  /\ UNCHANGED serving

\* rsync_module: uid, gid and path are looked up, and may be wrong; then the
\* parent for the post-xfer command, the early command to its end, and the
\* pre-xfer command, which waits for the request.
Hooks(k) ==
  /\ conn[k].s = "hooks"
  /\ LET r == conn[k]
         m == Mod(k)
         p == [r EXCEPT !.post = IF m.post THEN "waits" ELSE @]
         e == [p EXCEPT !.early = IF m.early = "none" THEN @ ELSE "ran"]
     IN IF ~m.valid THEN Refuse(k, r)
        ELSE IF m.early = "fails" THEN Refuse(k, e)
        ELSE Stay(k, [e EXCEPT !.s = "enter", !.pre = IF m.pre = "none" THEN @ ELSE "waits"])
  /\ UNCHANGED serving

\* Whether paths are to be made safe: the module is below the root directory.
\* m.inner: the path has a part behind "/./", or is not "/" without chroot.
Sanitize(m, set) == m.inner \/ (~m.chroot /\ ~set.chroot)

\* Symbolic links are munged as the module says, or where they can lead out
\* of it (m.munge is -1 if it says nothing).
munge_symlinks(m) == IF m.munge >= 0 THEN m.munge = 1 ELSE ~m.chroot \/ m.inner

\* chroot, chdir, setgid and setuid, and the word that the client may go on.
Enter(k) ==
  /\ conn[k].s = "enter"
  /\ LET r == conn[k]
         m == Mod(k)
     IN \/ Stay(k, Tell([r EXCEPT !.s = "args", !.chrooted = @ \/ m.chroot, !.uid = m.uid,
                                  !.sanitize = Sanitize(m, serving.set), !.munge = munge_symlinks(m)], [t |-> "ok"])) /\ UNCHANGED serving
        \/ /\ serving.fails < MaxFail /\ serving' = [serving EXCEPT !.fails = @ + 1]
           /\ Refuse(k, r)

\* read_args and parse_arguments; then the pre-xfer command gets the request,
\* and its end is waited for.
Arguments(k) ==
  /\ conn[k].s = "args" /\ conn[k].toS # <<>>
  /\ LET m == Head(conn[k].toS)
         r == [conn[k] EXCEPT !.toS = Tail(@), !.pre = IF @ = "waits" THEN "ran" ELSE @]
     IN IF m.bad \/ Mod(k).pre = "fails" THEN Refuse(k, r)
        ELSE Stay(k, [r EXCEPT !.s = IF m.want = "write" THEN "recv" ELSE "send"])
  /\ UNCHANGED serving

\* start_server: do_server_recv and do_server_sender refuse what the module
\* does not allow.
Serve(k) ==
  /\ conn[k].s \in {"recv", "send"}
  /\ LET r == conn[k]
     IN IF (r.s = "recv" /\ r.ro) \/ (r.s = "send" /\ Mod(k).wo) THEN Refuse(k, r)
        ELSE Stay(k, [r EXCEPT !.wrote = r.s = "recv", !.s = "transfer"])
  /\ UNCHANGED serving

Finish(k) == conn[k].s = "transfer" /\ End(k, Tell(conn[k], [t |-> "done"])) /\ UNCHANGED serving

\* The client is gone, or the serving process is killed.
Hangup(k) ==
  /\ conn[k].s \in {"greet", "request", "answer", "args", "transfer"} /\ conn[k].toS = <<>>
  /\ conn[k].c \in {"failed", "listed", "gone"}
  /\ End(k, conn[k]) /\ UNCHANGED serving
Killed(k) ==
  /\ conn[k].s \notin {"none", "over", "post"} /\ serving.fails < MaxFail
  /\ serving' = [serving EXCEPT !.fails = @ + 1] /\ End(k, conn[k])

\* The parent saw the end of the serving process: the post-xfer command runs.
PostXfer(k) ==
  /\ conn[k].s = "over" /\ conn[k].post = "waits"
  /\ Set(k, [conn[k] EXCEPT !.post = "ran", !.slot = 0])
  /\ slots' = IF conn[k].slot # 0 THEN [slots EXCEPT ![conn[k].slot] = 0] ELSE slots
  /\ UNCHANGED serving

\* start_inband_exchange: the greeting and the name of the module.
ClientGreet(k) ==
  /\ conn[k].c = "greet" /\ conn[k].s # "none"
  /\ Stay(k, Reply([conn[k] EXCEPT !.c = "greeting"], [t |-> "greet", p |-> conn[k].cli.proto, sub |-> conn[k].cli.sub]))
  /\ UNCHANGED serving

\* What the server says decides the next step; an error line is the end.
ClientReads(k) ==
  /\ conn[k].c \in {"greeting", "wait", "transfer"} /\ conn[k].toC # <<>>
  /\ LET m == Head(conn[k].toC)
         r == [conn[k] EXCEPT !.toC = Tail(@)]
         p == exchange_protocols(r.cli.proto, IF r.cli.sub < 0 THEN 0 ELSE r.cli.sub, m.p, m.sub)
     IN Stay(k, CASE m.t = "greet" /\ p < 0 -> [r EXCEPT !.c = "failed"]
                  [] m.t = "greet" /\ p >= 0 -> Reply([r EXCEPT !.c = "wait", !.cproto = p],
                       IF r.cli.mod = "#list" THEN [t |-> "list"] ELSE [t |-> "module", mod |-> r.cli.mod])
                  [] m.t = "authreqd" -> Reply(r, auth_client(r.cli.user, r.cli.pass, m.ch))
                  [] m.t = "ok" -> Reply([r EXCEPT !.c = "transfer"],
                                         [t |-> "args", want |-> r.cli.want, bad |-> r.cli.bad])
                  [] m.t = "exit" -> [r EXCEPT !.c = "listed"]
                  [] m.t = "done" -> [r EXCEPT !.c = "done"]
                  [] OTHER -> [r EXCEPT !.c = "failed"])
  /\ UNCHANGED serving

\* The end of the connection, or the user's interrupt.
ClientEof(k) ==
  /\ conn[k].c \in {"greeting", "wait", "transfer"} /\ conn[k].toC = <<>> /\ conn[k].s = "over"
  /\ Stay(k, [conn[k] EXCEPT !.c = "failed"]) /\ UNCHANGED serving
ClientQuits(k) ==
  /\ conn[k].c \in {"greeting", "wait", "transfer"} /\ serving.fails < MaxFail
  /\ Stay(k, [conn[k] EXCEPT !.c = "gone"]) /\ serving' = [serving EXCEPT !.fails = @ + 1]

ConnStep(k) ==
  \/ Accept(k) \/ Greet(k) \/ Greeted(k) \/ Request(k) \/ Access(k) \/ Claim(k) \/ Challenge(k) \/ Answer(k)
  \/ Hooks(k) \/ Enter(k) \/ Arguments(k) \/ Serve(k) \/ Finish(k) \/ Hangup(k) \/ Killed(k) \/ PostXfer(k)
  \/ ClientGreet(k) \/ ClientReads(k) \/ ClientEof(k) \/ ClientQuits(k)
ConnNext == (\E k \in Conns : ConnStep(k)) /\ UNCHANGED <<pid, conf, sock>>

(***************************************************************************)
(* One of the parts is at work, the others are idle.                        *)
(***************************************************************************)
DaemonStart(sc, busy, p, confs, socks) ==
  /\ pid = p
  /\ conn = [k \in Conns |-> IF busy /\ sc.clients[k].mod # "off" THEN NewConn(sc.clients[k])
                             ELSE [NewConn(sc.clients[k]) EXCEPT !.s = "off", !.c = "off"]]
  /\ slots = [i \in 1 .. 1 + Cardinality(Conns) |-> 0]
  /\ serving = [set |-> sc.set, modules |-> sc.modules, fails |-> 0]
  /\ conf = [n |-> confs, lines |-> <<>>, full |-> ConfStart, main |-> ConfStart]
  /\ sock = [n |-> socks, addrs |-> <<>>, out |-> open_socket_out(<<>>), listen |-> {}]
NoDaemon == [PidStart(0) EXCEPT !.pc = [d \in Daemons |-> "off"]]
AnyScenario == CHOOSE sc \in Scenarios : TRUE

DaemonIdle == DaemonStart(AnyScenario, FALSE, NoDaemon, 1, 1)
DaemonInit ==
  \/ \E f \in {0, 1, OtherFile} : DaemonStart(AnyScenario, FALSE, PidStart(f), 1, 1)
  \/ DaemonStart(AnyScenario, FALSE, NoDaemon, 0, 1)
  \/ DaemonStart(AnyScenario, FALSE, NoDaemon, 1, 0)
  \/ \E sc \in Scenarios : DaemonStart(sc, TRUE, NoDaemon, 1, 1)

DaemonNext == PidNext \/ SockStep \/ ConfStep \/ ConnNext

(***************************************************************************)
(* Properties                                                               *)
(***************************************************************************)
\* create_pid_file: of the processes that try to become the daemon at the
\* same time, or while another one ends or was killed, at most one gets
\* through, and the pid file names it as long as it is up.  (A path that is
\* no regular file at the start is removed by name, and then two can.)
OneDaemon ==
  pid.first # OtherFile =>
    /\ \A d, e \in Daemons : pid.pc[d] \in {"write", "up"} /\ pid.pc[e] \in {"write", "up"} => d = e
    /\ \A d \in Daemons : pid.pc[d] = "up" => pid.path = pid.ino[d] /\ pid.text[pid.path] = d

\* open_socket_out takes the first address that works and leaves no other
\* socket open; the daemon listens on every address that can be bound or,
\* when one of those fails, ends.
SocketsAccounted ==
  LET works == {i \in 1 .. Len(sock.addrs) : sock.addrs[i] \in {"ok", "proxied"}}
      dead == {i \in 1 .. Len(sock.addrs) : sock.addrs[i] = "timeout"}
      usable == {i \in 1 .. Len(sock.addrs) : sock.addrs[i] \notin {"nosocket", "nobind", "nolisten"}}
  IN /\ sock.out.got # 0 => sock.out.open = {sock.out.got} /\ \A i \in works \union dead : sock.out.got <= i
     /\ sock.out.got = 0 /\ ~sock.out.dead => works \union dead = {} /\ sock.out.open = {}
     /\ sock.listen # {} => sock.listen = usable

\* The lines of the files in the place of a directive that merges them, and a
\* header of the global section in the place of one that includes them.
Merged(lines) ==
  FlattenSeq([i \in 1 .. Len(lines) |->
    IF lines[i].k = "merge" THEN FlattenSeq(lines[i].v) ELSE <<lines[i]>>])
WithoutIncludes(lines) ==
  [i \in 1 .. Len(lines) |->
    IF lines[i].k = "include" /\ lines[i].v # <<>> THEN [k |-> "sec", n |-> "global", v |-> 0] ELSE lines[i]]

\* &merge reads a file as if its lines stood there; &include leaves neither
\* parameters nor defaults behind: the global parameters, and the modules of
\* the including file, are what they are without it.  Modules that are not
\* in an included file keep every default that was set above them.
ConfigIncludes ==
  LET m == lp_load(Merged(conf.lines), FALSE)
      w == lp_load(WithoutIncludes(conf.lines), FALSE)
  IN /\ conf.full.ret = m.ret /\ conf.full.vars = m.vars /\ conf.full.secs = m.secs
     /\ lp_load(Merged(conf.lines), TRUE).vars = conf.main.vars
     /\ conf.full.ret = 1 =>
          /\ conf.full.vars = w.vars /\ conf.full.stack = <<>>
          /\ \A i \in 1 .. Len(w.secs) : SectionNamed(conf.full.secs, w.secs[i].name) # 0

\* The number that the first n bits of an address stand for.
Prefix(addr, n) == [i \in 0 .. n - 1 |-> Bit(addr[1 + i \div 8], i % 8)]
InNet(addr, tok) ==
  /\ tok.k = "addr" /\ Len(tok.addr) = Len(addr) /\ tok.bits <= 8 * Len(addr)
  /\ LET n == IF tok.bits < 0 THEN 8 * Len(addr) ELSE tok.bits
     IN Prefix(addr, n) = Prefix(tok.addr, n)
Trusted(addr, tok, m, set) ==
  \/ InNet(addr, tok)
  \/ /\ tok.k = "host"
     /\ \/ tok.name = "*"
        \/ /\ addr \in DOMAIN set.names /\ set.names[addr] = tok.name
           /\ tok.name \in DOMAIN set.dns /\ addr \in set.dns[tok.name]
        \/ m.forward /\ tok.name \in DOMAIN set.dns /\ addr \in set.dns[tok.name]
Listed(addr, list, m, set) == \E i \in 1 .. Len(list) : Trusted(addr, list[i], m, set)

Inside == {"claim", "auth", "answer", "hooks", "enter", "args", "recv", "send", "transfer"}
\* A connection gets past the check of its host only from an address that the
\* module allows: behind a proxy the address that the proxy gives, with the
\* name that the address has in both directions, and with every bit of the
\* network prefix equal.
OnlyAllowedHosts ==
  \A k \in Conns : conn[k].s \in Inside =>
    LET m == Mod(k)
        h == conn[k].cli.header
        addr == IF serving.set.proxy /\ h.src # <<>> /\ h.cmd = "proxy" THEN h.src ELSE conn[k].cli.peer
    IN IF m.allow # <<>> /\ Listed(addr, m.allow, m, serving.set) THEN TRUE
       ELSE /\ m.allow = <<>> \/ m.deny # <<>>
            /\ ~Listed(addr, m.deny, m, serving.set)

Admitted == {"hooks", "enter", "args", "recv", "send", "transfer"}
\* The rule of the module m for the client: the first that names it.  (A client
\* that gives no name is "nobody".)
UserOf(cli) == IF cli.user = "" THEN "nobody" ELSE cli.user
RuleFor(m, cli) ==
  LET hits == {i \in 1 .. Len(m.auth) : RuleMatches(m.auth[i], UserOf(cli), cli.groups)}
  IN IF hits = {} THEN [opt |-> "deny"] ELSE m.auth[CHOOSE i \in hits : \A j \in hits : i <= j]
\* The lines of the secrets file that count: the first of a user or a group.
ValidSecrets(m) ==
  {i \in 1 .. Len(m.secrets) : \A j \in 1 .. i - 1 :
     ~(m.secrets[j].group = m.secrets[i].group /\ m.secrets[j].name = m.secrets[i].name)}
KnownUser(m, cli) ==
  /\ RuleFor(m, cli).opt # "deny"
  /\ \E i \in ValidSecrets(m) : /\ m.secrets[i].pass = cli.pass
                              /\ IF m.secrets[i].group THEN m.secrets[i].name \in ToSet(cli.groups)
                                 ELSE m.secrets[i].name = UserOf(cli)
MayWrite(m, cli) ==
  IF m.auth # <<>> /\ RuleFor(m, cli).opt \in {"ro", "rw"} THEN RuleFor(m, cli).opt = "rw" ELSE ~m.ro

\* With "auth users", a client is let in only by a rule that names it and does
\* not deny, and only with the password that is valid: the first line of the
\* secrets file for the user, or for the group of the rule.
OnlyKnownUsers ==
  \A k \in Conns : conn[k].s \in Admitted /\ Mod(k).auth # <<>> => KnownUser(Mod(k), conn[k].cli)

\* Files are written only where the module, or the rule of this very user,
\* makes the module writable.
WritersAllowed == \A k \in Conns : conn[k].wrote => MayWrite(Mod(k), conn[k].cli)

\* Connections that count: from the claim to the end of the serving process
\* or of the parent that runs the post-xfer command.
Counted == {k \in Conns : conn[k].s \in Inside \ {"claim"} \/ (conn[k].s = "over" /\ conn[k].post = "waits")}
\* No module serves more connections at once than its limit, also while a
\* post-xfer command is due, and every place taken in the lock file belongs
\* to such a connection: a process that is killed gives its place back.
ConnectionLimit ==
  /\ \A k \in Counted : Mod(k).max # 0 =>
       /\ Mod(k).max > 0
       /\ Cardinality({j \in Counted : Mod(j).max \in 1 .. Mod(k).max}) <= Mod(k).max
  /\ \A i \in DOMAIN slots : slots[i] # 0 => slots[i] \in Counted /\ conn[slots[i]].slot = i

\* Before the first argument of the client is read, the process has given up
\* its rights and cannot name a file outside of the module: the module's
\* directory is its root directory, or paths are sanitized.
ConfinedBeforeArgs ==
  \A k \in Conns : conn[k].s \in {"args", "recv", "send", "transfer"} =>
    /\ conn[k].uid = Mod(k).uid
    /\ Mod(k).inner \/ ~conn[k].chrooted => conn[k].sanitize
    /\ Mod(k).munge = 0 \/ conn[k].munge \/ (conn[k].chrooted /\ ~conn[k].sanitize)

\* A transfer takes place only after both commands succeeded, in their order,
\* and the pre-xfer one was told a request; once a command of the module ran,
\* the post-xfer command runs at the end, however the connection ends.
HooksInOrder ==
  \A k \in Conns :
    /\ conn[k].s \in {"recv", "send", "transfer"} => /\ Mod(k).early # "fails" /\ Mod(k).pre # "fails"
                                                    /\ (conn[k].pre = "ran") = (Mod(k).pre # "none")
    /\ conn[k].pre = "ran" /\ Mod(k).early # "none" => conn[k].early = "ran"
    /\ (conn[k].early = "ran" \/ conn[k].pre = "ran") /\ Mod(k).post => conn[k].post # "none"
    /\ conn[k].post = "ran" => conn[k].s = "over"

\* Server and client never wait for each other.
DaemonAnswers ==
  \A k \in Conns :
    ~(/\ conn[k].s \in {"greet", "request", "answer", "args"} /\ conn[k].toS = <<>>
      /\ conn[k].c \in {"greeting", "wait", "transfer"} /\ conn[k].toC = <<>>)

\* Both sides of a connection go on with the same version of the protocol.
ProtocolsAgree ==
  \A k \in Conns : conn[k].s \in {"request", "access"} \union Inside /\ conn[k].c \in {"wait", "transfer"} =>
    conn[k].sproto = conn[k].cproto

\* A connection gets into a module only for a user that the configuration
\* allows, within its limit and only after its process is confined and the
\* hooks have run; it writes only where it may, and every client gets an
\* answer, in a protocol that both know.
ConnectionsGuarded ==
  /\ OnlyKnownUsers /\ WritersAllowed /\ ConnectionLimit /\ ConfinedBeforeArgs
  /\ HooksInOrder /\ DaemonAnswers /\ ProtocolsAgree

\* The daemon takes its parameters from the right lines, its sockets from the
\* right addresses and its clients from the right hosts.
DaemonInputsRead == ConfigIncludes /\ OnlyAllowedHosts /\ SocketsAccounted
=============================================================================
