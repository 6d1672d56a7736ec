------------------------------ MODULE MCService ------------------------------
(***************************************************************************)
(* The sessions that TLC starts: every option on its own, the combinations  *)
(* of options that interact, refusals, old versions on either side, lists   *)
(* of algorithms, and batch files with readers that differ from the writer. *)
(***************************************************************************)
EXTENDS Service

A(name) == [n |-> name, v |-> 0]
V(name, val) == [n |-> name, v |-> val]
Names(set) == {A(x) : x \in set}

Values == {V("max-size", 3), V("min-size", 0), V("max-delete", -1), V("max-delete", 2),
           V("max-delete", 0), V("checksum-choice", 8), V("checksum-choice", CsumNone),
           V("block-size", 4), V("compress-choice", Zstd), V("compress-choice", None),
           V("compress-choice", CpresAuto), V("compress-choice", Zlib), V("skip-compress", 1),
           V("compress-level", 0), V("compress-level", 3), V("partial-dir", 1),
           V("log-format", 1), V("bwlimit", 9), V("backup-dir", 1), V("suffix", 2),
           V("suffix", NoSuffix), V("suffix", Slashed), V("files-from", AFile),
           V("files-from", Remote), V("files-from", Stdin), V("timeout", 60), V("temp-dir", 1),
           V("iconv", 1), V("checksum-seed", 5), V("usermap", 1), V("chown", 2),
           V("link-dest", 1), V("copy-dest", 2), V("compare-dest", 3), V("modify-window", 1),
           V("max-alloc", 7)}
Every == Values \union Names((SwitchNames \union CounterNames \union Specials)
           \ {"sender", "read-batch", "usermap", "chown", "link-dest", "copy-dest",
              "compare-dest", "modify-window"})

\* Families of options whose combinations matter.
Families == {
  Names({"delete", "delete-before", "delete-during", "delete-delay", "delete-after",
         "delete-excluded", "dirs", "prune-empty-dirs", "delay-updates", "qsort"}),
  Names({"partial", "P", "inplace", "append", "append-verify", "delay-updates", "no-partial",
         "write-devices", "whole-file"}) \union {V("partial-dir", 1)},
  Names({"compress", "new-compress", "old-compress", "no-compress"})
    \union {V("compress-choice", Zstd), V("compress-choice", None), V("compress-level", 0),
            V("compress-level", 3)},
  Names({"backup", "no-backup", "omit-dir-times", "times", "delete"})
    \union {V("backup-dir", 1), V("suffix", NoSuffix)},
  Names({"relative", "no-relative", "no-implied-dirs", "old-dirs", "dirs", "list-only"})
    \union {V("files-from", AFile), V("files-from", Remote)},
  Names({"fuzzy", "no-r", "missing", "atimes", "open-noatime"} \ {"missing"})
    \union {V("link-dest", 1), V("link-dest", 2), V("copy-dest", 1)},
  Names({"delete-missing-args", "ignore-missing-args", "remove-source-files", "D",
         "no-specials", "no-devices", "hard-links", "xattrs", "fake-super"})}

NoEnv == [p \in Sides |-> [csum |-> <<>>, comp |-> <<>>]]
Case(args, push, proto) ==
  [args |-> args, push |-> push, local |-> FALSE, words |-> <<>>, charset |-> TRUE,
   proto |-> proto, env |-> NoEnv, readers |-> {}]

Bases == {<<>>, <<A("archive")>>}
R == A("recursive")

Singles == {Case(b \o <<a>>, push, 31) : b \in Bases, a \in Every, push \in BOOLEAN}
OldPeers == {Case(<<R, a>>, push, proto) : a \in Every, push \in BOOLEAN, proto \in {28, 29, 30}}
OldClients == {Case(<<R, V("protocol", v), a>>, push, 31) :
                 a \in UNION Families, push \in BOOLEAN, v \in {28, 29, 30}}
Combined == UNION {{Case(<<R, a, b>>, push, 31) : a \in f, b \in f, push \in BOOLEAN} : f \in Families}
Protected == UNION {{Case(<<A("protect-args"), R, a, b>>, TRUE, 31) : a \in f, b \in f} : f \in Families}
Local == {[Case(<<R, a>>, TRUE, 31) EXCEPT !.local = TRUE] : a \in Every}

W(name) == [neg |-> FALSE, wild |-> FALSE, m |-> {name}]
Not(name) == [neg |-> TRUE, wild |-> FALSE, m |-> {name}]
DeleteWild == {"delete", "delete-before", "delete-during", "delete-delay", "delete-after",
               "delete-excluded", "delete-missing-args"}
Wild(neg, set) == [neg |-> neg, wild |-> TRUE, m |-> set]
Refusals == {<<W("delete")>>, <<W("delete-during")>>, <<W("delete-before")>>,
             <<W("delete-before"), W("delete-during")>>, <<W("compress")>>, <<W("partial")>>,
             <<W("inplace")>>, <<ArchiveWord(FALSE)>>, <<Not("write-devices")>>,
             <<Wild(FALSE, DeleteWild \ {"delete"}), Not("delete-during")>>,
             <<Wild(FALSE, OptionNames), ArchiveWord(TRUE), Not("delete"), Not("delete-during")>>,
             <<Wild(FALSE, DeleteWild), Wild(TRUE, DeleteWild), W("delete-after")>>}
Refusing == {[Case(<<R, a>>, push, proto) EXCEPT !.words = w, !.charset = FALSE] :
              a \in UNION Families, push \in BOOLEAN, proto \in {29, 31}, w \in Refusals}

Env(c, s) == [client |-> c, server |-> s]
Lists(sums, comps) == [csum |-> sums, comp |-> comps]
Envs == {Env(Lists(a, <<>>), Lists(b, <<>>)) :
           a, b \in {<<>>, <<5>>, <<99, 8, 8, 4>>, <<4, 5>>, <<99>>, <<8, 5, 4>>}}
        \union {Env(Lists(<<>>, a), Lists(<<>>, b)) :
           a, b \in {<<>>, <<Zlib>>, <<Zstd, Zlib>>, <<Zlib, Zstd>>, <<Lz4>>, <<Zlib, None>>}}
Negotiations == {[Case(<<A("compress")>>, push, proto) EXCEPT !.env = e] :
                   e \in Envs, push \in BOOLEAN, proto \in {29, 31}}
        \union {[Case(<<V("compress-choice", Zstd), V("checksum-choice", 8)>>, TRUE, 31)
                   EXCEPT !.env = e] : e \in Envs}

\* A batch is read with one of the adopted options left out or added.
Adopted(proto) ==
  Names({"recursive", "owner", "group", "links", "hard-links", "checksum", "dirs", "compress"}
        \union (IF proto < 30 THEN {} ELSE {"acls", "xattrs", "inplace", "append-verify"}))
Readers(args, proto) ==
  LET read(seq) == <<A("read-batch")>> \o seq
  IN {read(SelectSeq(args, LAMBDA x : x # a)) : a \in Adopted(proto)}
     \union {read(Append(args, a)) : a \in Adopted(proto) \ ({A("append-verify")} \union ToSet(args))}
Batches ==
  UNION {{[Case(<<A("write-batch")>> \o args, push, proto) EXCEPT !.readers = Readers(args, proto)] :
            args \in {<<a, b>> : a \in Adopted(proto), b \in Adopted(proto) \ {A("compress")}}, push \in BOOLEAN} : proto \in {29, 31}}

MCCases == Singles \union OldPeers \union OldClients \union Combined \union Protected
           \union Local \union Refusing \union Negotiations \union Batches

(***************************************************************************)
(* The daemon: two processes that want to be it, two connections.           *)
(***************************************************************************)
MCDaemons == {"d1", "d2", "d3"}
MCConns == {1, 2}

\* Addresses of two bytes; .130 has a name in both directions, .131 claims a
\* name that belongs to .130.
Good == <<10, 130>>
Fake == <<10, 131>>
Far == <<11, 1>>
Dns == ("a" :> {Good}) @@ ("b" :> {Far})
RevNames == (Good :> "a") @@ (Fake :> "a")
Setting(chroot, proxy) == [chroot |-> chroot, proxy |-> proxy, dns |-> Dns, names |-> RevNames]

Host(n) == [k |-> "host", name |-> n, addr |-> <<>>, bits |-> -1]
Net(a, b) == [k |-> "addr", name |-> "", addr |-> a, bits |-> b]
Open == [allow |-> <<>>, deny |-> <<>>, forward |-> FALSE, max |-> 0, ro |-> TRUE, wo |-> FALSE,
         auth |-> <<>>, secrets |-> <<>>, valid |-> TRUE, uid |-> "nobody", chroot |-> TRUE,
         inner |-> FALSE, munge |-> -1, early |-> "none", pre |-> "none", post |-> FALSE]
NoHeader == [ver |-> 0, cmd |-> "proxy", fam |-> "tcp4", fits |-> TRUE, src |-> <<>>]
Cli(mod) == [peer |-> Good, header |-> NoHeader, user |-> "u", pass |-> "", groups |-> <<>>, mod |-> mod,
             want |-> "read", bad |-> FALSE, proto |-> 31, sub |-> 0]
Two(c, d) == (1 :> c) @@ (2 :> d)
Scene(set, mods, c, d) == [set |-> set, modules |-> mods, clients |-> Two(c, d)]
One(m) == "m" :> m
Plain == Setting(FALSE, FALSE)

\* Hosts: lists to allow and to deny, from every address, with names that do
\* and do not hold, and behind a proxy.
HostLists == {<<>>, <<Net(<<10, 128>>, 9)>>, <<Net(<<10, 0>>, 10)>>, <<Net(<<10, 128>>, 16)>>, <<Net(Good, -1)>>,
              <<Net(<<0, 0>>, 0)>>, <<Net(<<10, 131>>, 15)>>, <<Net(<<10, 131>>, 17)>>, <<Host("a")>>, <<Host("b"), Host("*")>>,
              <<Host("b")>>}
HostScenes == {Scene(Plain, One([Open EXCEPT !.allow = a, !.deny = d, !.forward = f]), [Cli("m") EXCEPT !.peer = p],
                     Cli("off")) :
                 a \in HostLists, d \in HostLists, f \in BOOLEAN, p \in {Good, Fake, Far}}
Headers == {[ver |-> v, cmd |-> c, fam |-> f, fits |-> z, src |-> s] :
              v \in {0, 1, 2}, c \in {"proxy", "local", "odd"}, f \in {"tcp4", "unix", "unknown"}, z \in BOOLEAN,
              s \in {<<>>, Fake}}
GoodHeaders ==
  {h \in Headers :
     /\ h.ver = 1 => (h.cmd = "proxy" /\ (h.fam = "unknown") = (h.src = <<>>))
     /\ h.fam # "tcp4" => h.src = <<>>
     /\ h.cmd # "proxy" => h.src = <<>>}
ProxyScenes == {Scene(Setting(FALSE, TRUE), One([Open EXCEPT !.allow = <<Host("a")>>]), [Cli("m") EXCEPT !.header = h],
                      Cli("off")) : h \in GoodHeaders}

\* Users: rules, secrets and passwords.
Rules == {[group |-> g, name |-> n, opt |-> o] : g \in BOOLEAN, n \in {"u", "g", "*"}, o \in {"", "deny", "ro", "rw"}}
FewRules == {r \in Rules : r.name = (IF r.group THEN "g" ELSE "u") \/ (r.name = "*" /\ r.opt \in {"", "rw"})}
Secret(g, n, p) == [group |-> g, name |-> n, pass |-> p]
Secrets == {<<Secret(FALSE, "u", "p")>>, <<Secret(FALSE, "u", "q"), Secret(FALSE, "u", "p")>>,
            <<Secret(TRUE, "g", "p"), Secret(FALSE, "u", "q")>>, <<>>}
UserScenes == {Scene(Plain, One([Open EXCEPT !.auth = <<a, b>>, !.secrets = s, !.ro = r]),
                     [Cli("m") EXCEPT !.pass = "p", !.groups = g, !.want = "write"], Cli("off")) :
                 a \in FewRules, b \in {r \in FewRules : r.opt # "deny"}, s \in Secrets, r \in BOOLEAN,
                 g \in {<<>>, <<"h", "g">>}}

\* Limits: two clients of one module or of two with a shared lock file.
LimitScenes == {Scene(Plain, ("m" :> [Open EXCEPT !.max = x, !.post = p]) @@ ("n" :> [Open EXCEPT !.max = y]), Cli("m"), Cli(o)) :
                  x \in {-1, 1, 2}, y \in {1}, p \in BOOLEAN, o \in {"m", "n"}}

\* Commands, chroot and requests.
HookScenes == {Scene(Plain, One([Open EXCEPT !.early = e, !.pre = r, !.post = p, !.valid = v]),
                     [Cli("m") EXCEPT !.bad = b], Cli("off")) :
                 e, r \in {"none", "ok", "fails"}, p, b, v \in BOOLEAN}
ChrootScenes == {Scene(Setting(d, FALSE), One([Open EXCEPT !.chroot = c, !.inner = i, !.munge = m, !.uid = u, !.wo = w]),
                       [Cli("m") EXCEPT !.want = x], Cli("off")) :
                   d, c, i, w \in BOOLEAN, m \in {-1, 0, 1}, u \in {"root", "nobody"}, x \in {"read", "write"}}
Versions == {Scene(Plain, One(Open), [Cli("m") EXCEPT !.proto = p, !.sub = s], Cli("off")) :
               p \in {22, 29, 30, 31, 32}, s \in {-1, 0, 1}}
Asked == {Scene(Plain, One(Open), [Cli("#list") EXCEPT !.proto = q], Cli("none")) : q \in {24, 31}}
Locked == {Scene(Plain, One([Open EXCEPT !.auth = <<[group |-> FALSE, name |-> "u", opt |-> ""]>>]), Cli("m"), Cli("m"))}

MCScenarios == HostScenes \union ProxyScenes \union UserScenes \union LimitScenes \union HookScenes
               \union ChrootScenes \union Versions \union Asked \union Locked

\* Configuration files of up to three lines, with directives for files of
\* up to two lines.
MCGlobalParams == {"port"}
MCLocalParams == {"uid"}
Par(n, v) == [k |-> "par", n |-> n, v |-> v]
Sec(n) == [k |-> "sec", n |-> n, v |-> 0]
SimpleLines == {Par("port", 1), Par("uid", 1), Par("odd", 1), Sec("global"), Sec("m"), [k |-> "bad", n |-> "", v |-> 0]}
SubFiles == {<<Par("uid", 2)>>, <<Par("port", 2), Sec("n")>>, <<Sec("m"), Par("uid", 3)>>, <<Par("uid", 2), Sec("n")>>}
Directives == {[k |-> d, n |-> "", v |-> v] : d \in {"include", "merge"},
                 v \in {<<>>} \union {<<f>> : f \in SubFiles} \union {<<f, g>> : f, g \in SubFiles}}
MCConfigs == {<<a, b, c>> : a \in SimpleLines, b \in Directives, c \in SimpleLines}
             \union {<<a, b, c, Par("uid", 4)>> : a \in Directives, b, c \in SimpleLines}

Outcomes == {"ok", "nosocket", "nobind", "refused", "proxied", "no line", "not http", "code 4xx", "cut off", "timeout", "nolisten"}
MCAddresses == UNION {[1 .. n -> Outcomes] : n \in 0 .. 3}
=============================================================================
