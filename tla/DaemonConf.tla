------------------------------ MODULE DaemonConf ------------------------------
(***************************************************************************)
(* What the daemon decides from its configuration: the configuration file  *)
(* (params.c, loadparm.c), the hosts that may use a module (access.c,       *)
(* clientname.c) and the users that may (authenticate.c).                   *)
(***************************************************************************)
EXTENDS Integers, Sequences, FiniteSets, SequencesExt

(***************************************************************************)
(* The configuration file.  A line is [k, n, v]: a section header ("sec"    *)
(* with its name n; the name "global" is the global section), a parameter   *)
(* ("par", name n, value v), "bad" for a section name with a slash, or a    *)
(* directive ("include", "merge") with the lines of the files it names, in  *)
(* the order of the names.                                                  *)
(***************************************************************************)
CONSTANTS
  GlobalParams,   \* the parameters of class P_GLOBAL
  LocalParams     \* those that each module has
Default == -1
ConfStart == [glob |-> TRUE, vars |-> [p \in GlobalParams \union LocalParams |-> Default],
              secs |-> <<>>, cur |-> 0, stack |-> <<>>, ret |-> 1]

SectionNamed(secs, n) ==
  LET same == {i \in 1 .. Len(secs) : secs[i].name = n}
  IN IF same = {} THEN 0 ELSE CHOOSE i \in same : TRUE

\* do_section for a header: a section that was seen before is continued, a
\* new one starts with the defaults of this moment.
Section(st, n) ==
  IF n = "global" THEN [st EXCEPT !.glob = TRUE]
  ELSE LET i == SectionNamed(st.secs, n)
       IN IF i # 0 THEN [st EXCEPT !.glob = FALSE, !.cur = i]
          ELSE [st EXCEPT !.glob = FALSE, !.cur = Len(st.secs) + 1,
                  !.secs = Append(@, [name |-> n, vals |-> [p \in LocalParams |-> st.vars[p]]])]

\* do_parameter: unknown names, and global ones in a section, are ignored.
Parameter(st, n, v) ==
  IF n \notin GlobalParams \union LocalParams THEN st
  ELSE IF st.glob THEN [st EXCEPT !.vars[n] = v]
  ELSE IF n \in GlobalParams THEN st ELSE [st EXCEPT !.secs[st.cur].vals[n] = v]

\* do_section for the words of include_config: push, pop and reset.
StackWord(st, word) ==
  LET g == [st EXCEPT !.glob = TRUE]
  IN IF word = "push" THEN [g EXCEPT !.stack = Append(@, st.vars)]
     ELSE IF st.stack = <<>> THEN [g EXCEPT !.ret = 0]
     ELSE [g EXCEPT !.vars = Last(st.stack), !.stack = IF word = "pop" THEN Front(@) ELSE @]

\* Parse without directives.  With globals_only it ends, with 2, at the first
\* section.
ParseLine(st, l, globals_only) ==
  IF st.ret # 1 THEN st
  ELSE IF l.k = "par" THEN Parameter(st, l.n, l.v)
  ELSE IF globals_only THEN [st EXCEPT !.ret = 2]
  ELSE IF l.k = "bad" THEN [st EXCEPT !.ret = 0, !.glob = FALSE]
  ELSE Section(st, l.n)
ParseFile(st, lines, globals_only) ==
  FoldLeft(LAMBDA a, l : ParseLine(a, l, globals_only), st, lines)

\* include_config on the files of a directory, or on one file: the first file
\* that is not read to its end is the last one.
include_config(st, files, managed, globals_only) ==
  LET word(a, w) == IF managed /\ ~globals_only THEN StackWord(a, w) ELSE a
      next(a, i) == IF a.ret # 1 THEN a
                    ELSE ParseFile(word(a, IF i = 1 THEN "push" ELSE "reset"), files[i], globals_only)
      read == FoldLeft(next, st, [i \in 1 .. Len(files) |-> i])
  IN IF files = <<>> THEN st ELSE [word(read, "pop") EXCEPT !.ret = read.ret]

\* lp_load
lp_load(lines, globals_only) ==
  FoldLeft(LAMBDA a, l : IF a.ret # 1 \/ l.k \notin {"include", "merge"} THEN ParseLine(a, l, globals_only)
                         ELSE include_config(a, l.v, l.k = "include", globals_only),
           ConfStart, lines)

(***************************************************************************)
(* Addresses are sequences of bytes.                                        *)
(***************************************************************************)
\* valid_ipaddr, inet_ntop and the text of addresses are left out: an address
\* is valid or <<>>.  h is the header: its version (0 for none), command,
\* family, whether its size is right, and the source.
read_proxy_protocol_header(h) ==
  CASE h.ver = 2 -> IF h.cmd = "proxy" /\ h.fam \in {"tcp4", "tcp6"}
                    THEN [ok |-> h.fits /\ h.src # <<>>, addr |-> h.src]
                    ELSE [ok |-> h.cmd \in {"proxy", "local"}, addr |-> <<>>]
    [] h.ver = 1 -> IF h.fam = "unknown" THEN [ok |-> h.fits, addr |-> <<>>]
                    ELSE [ok |-> h.fits /\ h.src # <<>>, addr |-> h.src]
    [] OTHER -> [ok |-> FALSE, addr |-> <<>>]

client_addr(proxied, peer) == IF proxied # <<>> THEN proxied ELSE peer

\* client_name: the name of the address, if the name has that address.
check_name(addr, name, dns) == name \in DOMAIN dns /\ addr \in dns[name]
client_name(addr, dns, names) ==
  IF addr \in DOMAIN names /\ check_name(addr, names[addr], dns) THEN names[addr] ELSE "UNKNOWN"

Bit(byte, i) == (byte \div 2^(7 - i)) % 2
XorAnd(x, y, m) == \E i \in 0 .. 7 : Bit(x, i) # Bit(y, i) /\ Bit(m, i) = 1

\* Mutant: the bits of the last byte of a network prefix are left out.
MaskWholeBytes(plen, addrlen) == [i \in 1 .. addrlen |-> IF i - 1 < plen \div 8 THEN 255 ELSE 0]

\* make_mask
make_mask(plen, addrlen) ==
  LET w == plen \div 8
      b == plen % 8
  IN [i \in 1 .. addrlen |-> IF i - 1 < w THEN 255 ELSE IF i - 1 = w THEN (255 * 2^(8 - b)) % 256 ELSE 0]

match_binary(b1, b2, mask) == \A i \in 1 .. Len(b1) : ~XorAnd(b1[i], b2[i], mask[i])

\* A token is [k: "host" or "addr", name, addr, bits]; bits is -1 without a
\* mask.
match_address(addr, tok) ==
  /\ addr # <<>> /\ tok.k = "addr" /\ Len(tok.addr) = Len(addr)
  /\ \/ tok.bits = 0
     \/ /\ tok.bits <= 8 * Len(addr)
        /\ match_binary(addr, tok.addr, make_mask(IF tok.bits < 0 THEN 128 ELSE tok.bits, Len(addr)))

\* match_hostname: the client's name, or with forward lookup the addresses of
\* the name in the list.
match_hostname(host, addr, tok, forward, dns) ==
  /\ host # "" /\ tok.k = "host"
  /\ \/ tok.name \in {host, "*"}
     \/ forward /\ tok.name \in DOMAIN dns /\ addr \in dns[tok.name]

access_match(list, addr, host, forward, dns) ==
  \E i \in 1 .. Len(list) : match_hostname(host, addr, list[i], forward, dns) \/ match_address(addr, list[i])

allow_access(m, addr, host, dns) ==
  IF m.allow # <<>> /\ access_match(m.allow, addr, host, m.forward, dns) THEN TRUE
  ELSE IF m.allow # <<>> /\ m.deny = <<>> THEN FALSE
  ELSE ~(m.deny # <<>> /\ access_match(m.deny, addr, host, m.forward, dns))

(***************************************************************************)
(* Users.  A rule of "auth users" is [group, name, opt], with opt one of    *)
(* "", "deny", "ro" and "rw".  A line of the secrets file is [group, name,  *)
(* pass].  The answer to a challenge is the pair of password and challenge. *)
(***************************************************************************)
gen_challenge(k) == k   \* different for every connection
generate_hash(pass, challenge) == <<pass, challenge>>
auth_client(user, pass, challenge) ==
  [t |-> "auth", user |-> IF user = "" THEN "nobody" ELSE user, hash |-> generate_hash(pass, challenge)]

RuleMatches(r, user, groups) ==
  IF r.group THEN \E i \in 1 .. Len(groups) : r.name \in {groups[i], "*"} ELSE r.name \in {user, "*"}

\* check_secret: the first line of the user, and the first of the group.
check_secret(secrets, user, group, challenge, answer) ==
  LET lines(g, n) == {i \in 1 .. Len(secrets) : secrets[i].group = g /\ secrets[i].name = n}
      first(S) == CHOOSE i \in S : \A j \in S : i <= j
      good(S) == S # {} /\ answer = generate_hash(secrets[first(S)].pass, challenge)
  IN good(lines(FALSE, user)) \/ (group # "" /\ good(lines(TRUE, group)))

\* auth_server, behind the answer: the first rule that matches counts.
auth_server(m, user, groups, challenge, answer) ==
  LET hits == {i \in 1 .. Len(m.auth) : RuleMatches(m.auth[i], user, groups)}
      at == CHOOSE i \in hits : \A j \in hits : i <= j
      opt == m.auth[at].opt
      group == IF m.auth[at].group
               THEN groups[CHOOSE i \in 1 .. Len(groups) :
                             /\ m.auth[at].name \in {groups[i], "*"}
                             /\ \A j \in 1 .. i - 1 : m.auth[at].name \notin {groups[j], "*"}]
               ELSE ""
      ok == hits # {} /\ opt # "deny" /\ check_secret(m.secrets, user, group, challenge, answer)
  IN [ok |-> ok, ro |-> IF ok /\ opt = "ro" THEN TRUE ELSE IF ok /\ opt = "rw" THEN FALSE ELSE m.ro]
=============================================================================
