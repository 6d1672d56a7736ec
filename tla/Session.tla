------------------------------- MODULE Session -------------------------------
(***************************************************************************)
(* The start of a transfer: the client reads its options (parse_arguments), *)
(* starts the server with the options that server_options derives           *)
(* (do_cmd, local_child, or the arguments sent to a daemon), the server     *)
(* reads them again, and the two sides then agree on a protocol in          *)
(* setup_protocol (compat.c), by messages in both directions.  A client     *)
(* with --write-batch also leaves a batch file, which another run reads.    *)
(***************************************************************************)
EXTENDS Options, FiniteSetsExt

CONSTANTS
  Cases       \* the sessions: [args, push, local, words, charset, proto, env, readers]

VARIABLES
  run,        \* the session that was chosen
  side,       \* client and server: their settings and their place in setup_protocol
  chan,       \* chan[p]: the messages on their way to side p
  batch,      \* what the client wrote to the batch file
  reader      \* the run that reads the batch file

vars == <<run, side, chan, batch, reader>>

Sides == {"client", "server"}
Other(p) == IF p = "client" THEN "server" ELSE "client"

ValidSums == <<8, 7, 6, 5, 4, 0>>        \* valid_checksums; 0 is "none"
ValidComps == <<Zstd, Lz4, Zlibx, Zlib, None>>
Valid(kind) == IF kind = "csum" THEN ValidSums ELSE ValidComps
SawLen(kind) == Max(ToSet(Valid(kind))) + 1

\* A side before setup_protocol.
NewSide(o) == [pc |-> "start", o |-> o, info |-> {}, compat |-> {}, neg |-> FALSE, inc |-> 0,
               lists |-> [csum |-> <<>>, comp |-> <<>>], csum |-> -1, comp |-> -1, why |-> "none"]

(***************************************************************************)
(* The lists of algorithms.  A name that this build does not know, or one   *)
(* that was listed before, is dropped; a list with no good name is INVALID. *)
(***************************************************************************)
parse_nni_str(kind, env) ==
  FoldLeft(LAMBDA acc, x : IF x \in ToSet(Valid(kind)) \ ToSet(acc) THEN Append(acc, x) ELSE acc,
           <<>>, env)

get_default_nno_list(kind, server) ==
  IF server THEN Valid(kind) ELSE SelectSeq(Valid(kind), LAMBDA x : x # 0)

\* A batch file is written with the algorithms that every reader assumes.
getenv_nstr(kind, o, env) ==
  IF o.write_batch # 0
  THEN IF kind = "comp" THEN <<Zlib>> ELSE IF o.protocol_version >= 30 THEN <<5>> ELSE <<4>>
  ELSE env

send_negotiate_str(kind, o, env) ==
  LET list == getenv_nstr(kind, o, env)
  IN IF list # <<>> THEN parse_nni_str(kind, list)
     ELSE get_default_nno_list(kind, o.am_server = 1)

Rank(list, x) == CHOOSE i \in 1 .. Len(list) : list[i] = x

\* The choice, or -1: the server takes the first name of the client's list
\* that it has, the client the name of the server's list it ranks first.
recv_negotiate_str(kind, mine, theirs, server) ==
  LET good == {x \in ToSet(mine) \intersect ToSet(theirs) : Rank(mine, x) < SawLen(kind)}
      first(list) == CHOOSE x \in good : \A y \in good : Rank(list, x) <= Rank(list, y)
  IN IF good = {} THEN -1 ELSE first(IF server THEN theirs ELSE mine)

\* A choice made by an option must be one that the server's list allows.
validate_choice_vs_env(kind, o, env, num) ==
  LET list == getenv_nstr(kind, o, env)
  IN list # <<>> => num \in ToSet(parse_nni_str(kind, list))

parse_csum_name(o) ==
  IF o.checksum_choice = CsumNone THEN 0
  ELSE IF o.checksum_choice # AnyCsum THEN o.checksum_choice
  ELSE IF o.protocol_version >= 30 THEN 5 ELSE IF o.protocol_version >= 27 THEN 3 ELSE 2

\* The compression in use: a level may still turn it off.
init_compression_level(num, level) ==
  IF num \in {Zlib, Zlibx} /\ level = 0 THEN None ELSE num

parse_compress_choice(o, negotiated) ==
  LET num == IF negotiated >= 0 THEN negotiated
             ELSE IF o.compress_choice # NoChoice THEN o.compress_choice
             ELSE IF o.do_compression # None THEN Zlib ELSE None
  IN init_compression_level(num, o.do_compression_level)

(***************************************************************************)
(* setup_protocol                                                           *)
(***************************************************************************)
Min2(a, b) == IF a < b THEN a ELSE b
IsServer(p) == p = "server"
Exit(s) == [s EXCEPT !.pc = "exit"]

\* The checks after the versions were exchanged.
VersionChecks(o, remote, local) ==
  LET v == o.protocol_version
  IN /\ remote \in 20 .. 40 /\ v \in 20 .. 31
     /\ v < 30 /\ ~local => o.preserve_acls = 0 /\ o.preserve_xattrs = 0
     /\ v < 29 => /\ o.fuzzy_basis = 0 /\ o.prune_empty_dirs = 0
                  /\ Len(o.basis_dir) <= 1
                  /\ ~(o.basis_dir # <<>> /\ o.inplace = 1)

\* What a side settles once the version is known.
AfterVersion(o) ==
  LET v == o.protocol_version
      when == o.delete_before + o.delete_during + o.delete_after
  IN [o EXCEPT !.append_mode = IF v < 30 /\ @ = 1 THEN 2 ELSE @,
               !.delete_before = IF o.delete_mode = 1 /\ when = 0 /\ v < 30 THEN 1 ELSE @,
               !.delete_during = IF o.delete_mode = 1 /\ when = 0 /\ v >= 30 THEN 1 ELSE @,
               !.need_messages_from_generator = IF v >= 30 THEN 1 ELSE @]

\* The compatibility flags the server offers, by the letters of the client.
CompatFlags(o, info, local) ==
  (IF o.allow_inc_recurse = 1 THEN {"i"} ELSE {}) \union {"L", "s"}
  \union {f \in {"f", "x", "C", "I", "u", "v"} : local \/ f \in info}

\* inc_recurse and the other settings that follow from the flags.
AdoptFlags(s, flags) ==
  LET inc == Bool("i" \in flags)
      t == [s EXCEPT !.compat = flags, !.inc = inc, !.neg = "v" \in flags, !.pc = "lists"]
  IN IF inc = 1 /\ s.o.allow_inc_recurse = 0 THEN Exit(s) ELSE t

Say(p, msgs) == chan' = [chan EXCEPT ![Other(p)] = @ \o msgs]
Msg(kind, val) == [k |-> kind, v |-> val]
Heard(p, kind) == chan[p] # <<>> /\ Head(chan[p]).k = kind
Consume(p) == chan' = [chan EXCEPT ![p] = Tail(@)]
Become(p, s) == side' = [side EXCEPT ![p] = s]

\* setup_protocol starts: the server looks at the client's letters, and each
\* side sends its version.
StartSetup(p) ==
  /\ side[p].pc = "start"
  /\ LET s == side[p]
         o == IF IsServer(p) THEN set_allow_inc_recurse(s.o, s.info, run.local) ELSE s.o
     IN /\ Become(p, [s EXCEPT !.pc = "version", !.o = o])
        /\ Say(p, <<Msg("version", {o.protocol_version})>>)
  /\ UNCHANGED <<run, batch, reader>>

\* The lower version counts; the server sends the compatibility flags.
ReadVersion(p) ==
  /\ side[p].pc = "version" /\ Heard(p, "version")
  /\ LET s == side[p]
         remote == CHOOSE v \in Head(chan[p]).v : TRUE
         o == [s.o EXCEPT !.protocol_version = Min2(@, remote)]
         set == [s EXCEPT !.o = AfterVersion(o)]
         flags == CompatFlags(set.o, s.info, run.local)
     IN IF ~VersionChecks(o, remote, run.local)
        THEN Become(p, Exit(s)) /\ Consume(p)
        ELSE IF o.protocol_version < 30
        THEN Become(p, [set EXCEPT !.pc = "lists"]) /\ Consume(p)
        ELSE IF IsServer(p)
        THEN /\ Become(p, AdoptFlags(set, flags))
             /\ chan' = [chan EXCEPT ![p] = Tail(@), ![Other(p)] = Append(@, Msg("flags", flags))]
        ELSE Become(p, [set EXCEPT !.pc = "flags"]) /\ Consume(p)
  /\ UNCHANGED <<run, batch, reader>>

ReadFlags ==
  /\ side["client"].pc = "flags" /\ Heard("client", "flags")
  /\ Become("client", AdoptFlags(side["client"], Head(chan["client"]).v))
  /\ Consume("client")
  /\ UNCHANGED <<run, batch, reader>>

Wanted(o) == [csum |-> o.checksum_choice = AnyCsum,
              comp |-> o.do_compression # None /\ o.compress_choice = NoChoice]

\* negotiate_the_strings: both lists are sent before one is read.
SendLists(p) ==
  /\ side[p].pc = "lists"
  /\ LET s == side[p]
         env == run.env[p]
         want == Wanted(s.o)
         list(kind) == IF want[kind] THEN send_negotiate_str(kind, s.o, env[kind]) ELSE <<>>
         lists == [csum |-> list("csum"), comp |-> list("comp")]
         out == Opt(want.csum, "csum") \o Opt(want.comp, "comp")
     IN /\ Become(p, [s EXCEPT !.lists = lists, !.pc = "sums"])
        /\ IF s.neg
           THEN Say(p, [i \in 1 .. Len(out) |-> [k |-> out[i].n, v |-> lists[out[i].n]]])
           ELSE UNCHANGED chan
  /\ UNCHANGED <<run, batch, reader>>

\* One of the two choices: from the other side's list, or the old algorithm,
\* which the environment may still rule out.
Choose(p, kind, next) ==
  LET s == side[p]
      wanted == Wanted(s.o)[kind]
      old == IF kind = "comp" THEN Zlib ELSE IF s.o.protocol_version >= 30 THEN 5 ELSE 4
      theirs == IF s.neg THEN Head(chan[p]).v ELSE <<old>>
      num == recv_negotiate_str(kind, s.lists[kind], theirs, IsServer(p))
  IN IF ~wanted THEN Become(p, [s EXCEPT !.pc = next]) /\ UNCHANGED chan
     ELSE /\ s.neg => Heard(p, kind)
          /\ Become(p, IF num < 0 THEN [Exit(s) EXCEPT !.why = kind]
                       ELSE [s EXCEPT !.pc = next, ![kind] = IF s.neg THEN num ELSE -1])
          /\ IF s.neg THEN Consume(p) ELSE UNCHANGED chan

ReadSums(p) ==
  /\ side[p].pc = "sums" /\ Choose(p, "csum", "comps")
  /\ UNCHANGED <<run, batch, reader>>

ReadComps(p) ==
  /\ side[p].pc = "comps" /\ Choose(p, "comp", "seed")
  /\ UNCHANGED <<run, batch, reader>>

\* The final choices of a side; a server may refuse a name given by option.
Settle(s, p, env) ==
  LET num == IF s.csum >= 0 THEN s.csum ELSE parse_csum_name(s.o)
      comp == parse_compress_choice(s.o, s.comp)
      bad == /\ IsServer(p)
             /\ \/ s.o.checksum_choice # AnyCsum
                   /\ ~validate_choice_vs_env("csum", s.o, env.csum, num)
                \/ /\ s.o.compress_choice # NoChoice
                   /\ ~validate_choice_vs_env("comp", s.o, env.comp, s.o.compress_choice)
  IN IF bad THEN Exit(s)
     ELSE [s EXCEPT !.csum = num, !.comp = comp, !.pc = "filters",
                    !.o.whole_file = IF num = 0 THEN 1 ELSE @]

\* The server picks the seed; both sides settle their choices.
ServerSeed ==
  /\ side["server"].pc = "seed"
  /\ LET s == side["server"]
         o == [s.o EXCEPT !.checksum_seed = IF @ = 0 THEN 77 ELSE @]
     IN /\ Become("server", Settle([s EXCEPT !.o = o], "server", run.env["server"]))
        /\ Say("server", <<Msg("seed", {o.checksum_seed})>>)
  /\ UNCHANGED <<run, batch, reader>>

ClientSeed ==
  /\ side["client"].pc = "seed" /\ Heard("client", "seed")
  /\ LET s == side["client"]
         o == [s.o EXCEPT !.checksum_seed = CHOOSE v \in Head(chan["client"]).v : TRUE]
     IN Become("client", Settle([s EXCEPT !.o = o], "client", run.env["client"]))
  /\ Consume("client")
  /\ UNCHANGED <<run, batch, reader>>

(***************************************************************************)
(* The start of the session, up to the two calls of setup_protocol.         *)
(***************************************************************************)
Idle == NewSide(Defaults)
NoBatch == [written |-> FALSE]

Init ==
  /\ run \in Cases
  /\ side = [p \in Sides |-> [Idle EXCEPT !.pc = "off"]]
  /\ chan = [p \in Sides |-> <<>>]
  /\ batch = NoBatch
  /\ reader = NoBatch

\* No session is set up.
NoSession ==
  /\ run = (CHOOSE c \in Cases : TRUE)
  /\ side = [p \in Sides |-> [Idle EXCEPT !.pc = "exit"]]
  /\ chan = [p \in Sides |-> <<>>]
  /\ batch = NoBatch
  /\ reader = NoBatch

\* main: write_stream_flags puts a bit for every option that the data of the
\* batch file depends on; the first 7 for the oldest protocols, then 9.
FlagPtr == <<"recurse", "preserve_uid", "preserve_gid", "preserve_links", "preserve_devices",
             "preserve_hard_links", "always_checksum", "xfer_dirs", "do_compression",
             "iconv_opt", "preserve_acls", "preserve_xattrs", "inplace">>

write_stream_flags(o) ==
  [set |-> {i \in 1 .. Len(FlagPtr) : o[FlagPtr[i]] # 0}, append |-> o.append_mode]

\* main, with --only-write-batch: the transfer itself is a dry run.
DryBatch(o) == [o EXCEPT !.dry_run = IF o.write_batch < 0 THEN 1 ELSE @]

\* do_cmd: a local server is a fork of the client
ForLocal(o) == set_allow_inc_recurse([o EXCEPT !.whole_file =
                 IF @ < 0 /\ o.write_batch = 0 THEN 1 ELSE @], {}, TRUE)

\* parse_arguments and main on the client, up to the start of the server.
ClientStarts ==
  /\ side["client"].pc = "off"
  /\ \E o \in {DryBatch(parse_arguments([Defaults EXCEPT !.am_sender = Bool(run.push)], run.args, {}))} :
     \E sent \in {server_options(o)} :
       IF o.err # 0 \/ (run.local /\ o.filesfrom_host = 1)
       THEN /\ Become("client", [Idle EXCEPT !.o = o, !.pc = "exit"])
            /\ UNCHANGED <<chan, batch>>
       ELSE /\ Become("client", NewSide(IF run.local THEN ForLocal(o) ELSE sent.opts))
            /\ chan' = [chan EXCEPT !["server"] =
                 IF run.local THEN <<Msg("fork", {})>> ELSE <<Msg("args", sent)>>]
            /\ batch' = IF o.write_batch # 0
                        THEN [written |-> FALSE, flags |-> write_stream_flags(o)] ELSE batch
  /\ UNCHANGED <<run, reader>>

\* local_child: the server of a local transfer.
local_child(o) == [o EXCEPT !.am_sender = 0, !.am_server = 1]

\* The server reads the options it was given; a daemon refuses some of them.
ServerStarts ==
  /\ side["server"].pc = "off" /\ chan["server"] # <<>>
  /\ LET m == Head(chan["server"])
         o0 == [Defaults EXCEPT !.am_server = 1, !.am_daemon = Bool(run.words # <<>>),
                                !.protocol_version = run.proto]
         refused == IF run.words # <<>> THEN set_refuse_options(run.words, run.charset) ELSE {}
     IN \E o \in {IF m.k = "fork" THEN local_child(side["client"].o) ELSE ServerParse(o0, m.v, refused)} :
          Become("server", IF o.err # 0 THEN [Idle EXCEPT !.o = o, !.pc = "exit"]
                           ELSE [NewSide(DryBatch(o)) EXCEPT !.info = IF m.k = "fork" THEN {} ELSE m.v.info])
  /\ Consume("server")
  /\ UNCHANGED <<run, batch, reader>>

(***************************************************************************)
(* client_run and start_server after setup_protocol: the framing of the two *)
(* directions, the filter list and the first file list.                     *)
(***************************************************************************)
receiver_wants_list(o) ==
  o.prune_empty_dirs = 1
  \/ (o.delete_mode = 1 /\ (o.delete_excluded = 0 \/ o.protocol_version >= 29))

\* Mutant: a sending client frames what it writes one version too late.
MuxOutLate(p, o) ==
  IF IsServer(p) THEN ~(o.am_sender = 0 /\ o.files_from = AFile /\ o.protocol_version < 31)
  ELSE IF o.am_sender = 1 THEN o.protocol_version >= 31 ELSE o.need_messages_from_generator = 1

\* Whether a side frames what it writes, and what it expects to read.
MuxOut(p, o) ==
  IF IsServer(p) THEN ~(o.am_sender = 0 /\ o.files_from = AFile /\ o.protocol_version < 31)
  ELSE IF o.am_sender = 1 THEN o.protocol_version >= 30 ELSE o.need_messages_from_generator = 1
MuxIn(p, o) ==
  IF IsServer(p)
  THEN IF o.am_sender = 1 THEN o.need_messages_from_generator = 1 ELSE o.protocol_version >= 30
  ELSE o.am_sender = 0 \/ o.protocol_version >= 31 \/ o.filesfrom_host = 0

\* The client sends its filter list, if the other side will read it; a sender
\* goes on with the file list.  The batch file gets its header here.
ClientFilters ==
  /\ side["client"].pc = "filters"
  /\ LET s == side["client"]
         o == s.o
         listed == ~run.local /\ (o.am_sender = 0 \/ receiver_wants_list(o))
         mux == {Bool(MuxOut("client", o))}
     IN /\ Become("client", [s EXCEPT !.pc = IF o.am_sender = 1 THEN "answer" ELSE "flist"])
        /\ Say("client", (IF listed THEN <<Msg("filters", mux)>> ELSE <<>>)
                         \o (IF o.am_sender = 1 THEN <<Msg("flist", mux)>> ELSE <<>>))
        /\ batch' = IF o.write_batch # 0
                    THEN [written |-> TRUE, flags |-> batch.flags, side |-> s] ELSE batch
  /\ UNCHANGED <<run, reader>>

\* recv_filter_list on the server.
ServerFilters ==
  /\ side["server"].pc = "filters"
  /\ LET s == side["server"]
         listed == ~run.local /\ (s.o.am_sender = 1 \/ receiver_wants_list(s.o))
     IN /\ listed => Heard("server", "filters")
        /\ Become("server", [s EXCEPT !.pc = IF s.o.am_sender = 1 THEN "ready" ELSE "flist"])
        /\ chan' = [chan EXCEPT
             !["server"] = IF listed THEN Tail(@) ELSE @,
             !["client"] = IF s.o.am_sender = 1
                           THEN Append(@, Msg("flist", {Bool(MuxOut("server", s.o))})) ELSE @]
  /\ UNCHANGED <<run, batch, reader>>

\* recv_file_list on the receiving side, which answers with a request.
ReadList(p) ==
  /\ side[p].pc = "flist" /\ Heard(p, "flist")
  /\ Become(p, [side[p] EXCEPT !.pc = "ready"])
  /\ IF IsServer(p)
     THEN chan' = [chan EXCEPT ![p] = Tail(@),
                               !["client"] = Append(@, Msg("request", {Bool(MuxOut(p, side[p].o))}))]
     ELSE Consume(p)
  /\ UNCHANGED <<run, batch, reader>>

ReadRequest ==
  /\ side["client"].pc = "answer" /\ Heard("client", "request")
  /\ Become("client", [side["client"] EXCEPT !.pc = "ready"])
  /\ Consume("client")
  /\ UNCHANGED <<run, batch, reader>>

\* A side that waits for one that has given up reads the end of the stream.
ReadEnd(p) ==
  /\ side[p].pc \notin {"exit", "ready"} /\ side[Other(p)].pc = "exit" /\ chan[p] = <<>>
  /\ p = "server" => side[p].pc # "off"
  /\ Become(p, Exit(side[p]))
  /\ UNCHANGED <<run, chan, batch, reader>>

(***************************************************************************)
(* A later run reads the batch file.  Its options are brought in line with  *)
(* the flags of the file; versions, flags and seed come from the file.      *)
(***************************************************************************)
check_batch_flags(o, flags) ==
  LET known == IF o.protocol_version < 29 THEN 7 ELSE IF o.protocol_version < 30 THEN 9
               ELSE Len(FlagPtr)
      fixed == [f \in {FlagPtr[i] : i \in 1 .. known} |->
                  Bool((CHOOSE i \in 1 .. known : FlagPtr[i] = f) \in flags.set)] @@ o
      iconv == known > 9 /\ o.iconv_opt # fixed.iconv_opt
      old == IF o.protocol_version >= 29 THEN fixed.xfer_dirs
             ELSE IF fixed.recurse # 0 THEN 1 ELSE IF o.xfer_dirs < 2 THEN 0 ELSE o.xfer_dirs
      app == IF o.protocol_version < 30 THEN o.append_mode
             ELSE IF flags.append # 0 THEN flags.append ELSE o.append_mode
  IN IF iconv THEN Fail(o, Syntax) ELSE [fixed EXCEPT !.xfer_dirs = old, !.append_mode = app]

ReadBatch ==
  /\ batch.written /\ ~reader.written
  /\ \A p \in Sides : side[p].pc = "ready"
  /\ \E args \in run.readers :
     \E w \in {batch.side} :
     \E o0 \in {set_allow_inc_recurse(parse_arguments(Defaults, args, {}), {}, FALSE)} :
     \E o1 \in {[o0 EXCEPT !.protocol_version = Min2(@, w.o.protocol_version)]} :
     \E o2 \in {AfterVersion(check_batch_flags(o1, batch.flags))} :
     \E s0 \in {[NewSide([o2 EXCEPT !.checksum_seed = w.o.checksum_seed]) EXCEPT !.pc = "read"]} :
     \E s1 \in {IF o1.protocol_version >= 30 THEN AdoptFlags(s0, w.compat) ELSE s0} :
       reader' = IF \/ o0.err # 0 \/ o2.err # 0
                    \/ w.o.protocol_version > o0.protocol_version
                    \/ ~VersionChecks(o2, w.o.protocol_version, TRUE)
                    \/ s1.pc = "exit"
                 THEN [written |-> TRUE, side |-> Exit(s0)]
                 ELSE [written |-> TRUE, side |-> Settle(s1, "client", [csum |-> <<>>, comp |-> <<>>])]
  /\ UNCHANGED <<run, side, chan, batch>>

Next ==
  \/ ClientStarts \/ ServerStarts \/ ReadFlags \/ ServerSeed \/ ClientSeed
  \/ ClientFilters \/ ServerFilters \/ ReadRequest \/ ReadBatch
  \/ \E p \in Sides : \/ StartSetup(p) \/ ReadVersion(p) \/ SendLists(p) \/ ReadSums(p)
                     \/ ReadComps(p) \/ ReadList(p) \/ ReadEnd(p)

Spec == Init /\ [][Next]_vars

(***************************************************************************)
(* Properties                                                               *)
(***************************************************************************)
Places == {"off", "start", "version", "flags", "lists", "sums", "comps", "seed", "filters",
           "flist", "answer", "ready", "exit"}

\* The settings keep their fields through every parse, the places are those
\* of setup_protocol, client_run and start_server, and a side that is ready
\* has settled on a checksum and a compression.
TypeOK ==
  \A p \in Sides :
       /\ side[p].pc \in Places /\ DOMAIN side[p].o = DOMAIN Defaults
       /\ side[p].pc = "ready" => /\ side[p].csum \in 0 .. 8 /\ side[p].comp \in None .. Zstd
                                  /\ side[p].o.protocol_version \in 28 .. 31
                                  /\ side[p].o.err = 0

\* What a side waits for at its place, if it waits.
Awaits(p) ==
  LET s == side[p]
  IN CASE s.pc \in {"version", "flags", "flist"} -> s.pc
       [] s.pc = "sums" /\ s.neg /\ Wanted(s.o).csum -> "csum"
       [] s.pc = "comps" /\ s.neg /\ Wanted(s.o).comp -> "comp"
       [] s.pc = "seed" /\ ~IsServer(p) -> "seed"
       [] s.pc = "answer" -> "request"
       [] /\ s.pc = "filters" /\ IsServer(p) /\ ~run.local
          /\ s.o.am_sender = 1 \/ receiver_wants_list(s.o) -> "filters"
       [] OTHER -> "none"

\* The two sides never read something else than what the other has written:
\* what is next in the stream is what setup_protocol and the code after it
\* ask for, framed the way the reader expects, and nothing is left over when
\* both are ready.  Each side takes its branches by its own settings, so one
\* option that does not reach the server puts the streams out of step.
InStep ==
  /\ \A p \in Sides : Awaits(p) # "none" /\ chan[p] # <<>> =>
       /\ Head(chan[p]).k = Awaits(p)
       /\ Awaits(p) \in {"filters", "flist", "request"} =>
            Head(chan[p]).v = {Bool(MuxIn(p, side[p].o))}
  /\ (\A p \in Sides : side[p].pc = "ready") => \A p \in Sides : chan[p] = <<>>

\* Settings that decide how the file list and the data are encoded.
StreamFields == {"preserve_links", "preserve_hard_links", "preserve_devices",
                 "preserve_specials", "preserve_uid", "preserve_gid", "preserve_atimes",
                 "preserve_acls", "preserve_xattrs", "always_checksum", "iconv_opt"}
\* Settings that only the receiving, or only the sending, side obeys.
ReceiverFields == {"preserve_perms", "preserve_times", "make_backups", "backup_dir",
                   "backup_suffix", "update_only", "keep_dirlinks", "omit_link_times",
                   "sparse_files", "force_delete", "size_only", "ignore_times",
                   "ignore_existing", "ignore_non_existing", "max_delete", "delete_mode",
                   "delete_before", "delete_during", "delete_after", "delete_excluded",
                   "max_size", "min_size", "keep_partial", "partial_dir", "delay_updates",
                   "tmpdir", "basis_dir", "alt_dest_type", "usermap", "modify_window",
                   "write_devices", "preallocate_files", "mkpath_dest_arg", "ignore_errors",
                   "inplace", "prune_empty_dirs", "do_xfers", "relative_paths", "implied_dirs"}
SenderFields == {"copy_links", "copy_dirlinks", "copy_unsafe_links", "safe_symlinks",
                 "one_file_system", "relative_paths", "implied_dirs", "cvs_exclude",
                 "skip_compress", "open_noatime", "use_qsort", "do_xfers",
                 "block_size", "missing_args", "inplace"}

BothReady == \A p \in Sides : side[p].pc = "ready"

\* When both sides are ready they agree on what the stream depends on: the
\* protocol, its flags, incremental recursion, checksum, compression, seed
\* and the options that are part of the encoding; and the server has every
\* setting of the client that its role obeys.  (A daemon that refuses one way
\* of deleting picks the other; -yy does not survive --protect-args.)
SidesAgree ==
  BothReady =>
    LET c == side["client"]
        s == side["server"]
        fields == IF ~run.push THEN SenderFields
                  ELSE IF run.words = <<>> THEN ReceiverFields
                  ELSE ReceiverFields \ {"delete_before", "delete_during"}
    IN /\ c.o.protocol_version = s.o.protocol_version /\ c.compat = s.compat
       /\ c.inc = s.inc /\ c.csum = s.csum /\ c.comp = s.comp
       /\ c.o.checksum_seed = s.o.checksum_seed /\ c.o.append_mode = s.o.append_mode
       /\ c.o.remove_source_files = s.o.remove_source_files
       /\ \A f \in StreamFields : (c.o[f] = 0) = (s.o[f] = 0)
       /\ \A f \in fields : c.o[f] = s.o[f]
       /\ ~run.push => (c.o.xfer_dirs = 0) = (s.o.xfer_dirs = 0)
       /\ run.push /\ c.o.protect_args = 0 => c.o.fuzzy_basis = s.o.fuzzy_basis

\* An incremental recursion is only chosen when the receiving side can work
\* with partial file lists: it neither deletes before or after, nor delays
\* its updates, nor prunes directories.  The receiver may be on either side
\* of the connection, and the server decides.
IncRecurseIsSafe ==
  BothReady =>
    LET r == side[IF run.push THEN "server" ELSE "client"].o
    IN side["client"].inc = 1 =>
         /\ r.recurse # 0 /\ r.use_qsort = 0 /\ r.prune_empty_dirs = 0 /\ r.delay_updates = 0
         /\ r.delete_before = 0 /\ r.delete_after = 0

\* An option that the daemon refuses has no effect on the session, also when
\* another option implies it or a later default would choose it.
RefusedStaysOff ==
  BothReady /\ run.words # <<>> =>
    LET o == side["server"].o
        off == set_refuse_options(run.words, run.charset)
    IN /\ "delete" \in off => /\ o.delete_mode = 0 /\ o.missing_args # 2
                              /\ o.remove_source_files # 0 => o.am_sender = 0
       /\ "delete-before" \in off => o.delete_before = 0
       /\ "delete-during" \in off => o.delete_during # 1
       /\ "delete-after" \in off => o.delete_after = 0
       /\ "compress" \in off => side["server"].comp = None
       /\ "inplace" \in off => o.inplace = 0 /\ o.append_mode = 0
       /\ "partial" \in off => o.inplace = 0 /\ (o.keep_partial = 1 => o.partial_dir # 0)
       /\ "write-devices" \in off => o.write_devices = 0
       /\ "recursive" \in off => o.recurse = 0

\* Two sides whose lists of algorithms have a name in common (other than
\* "none") do not give up, and they take the one the client lists first.
NegotiationFindsOne ==
  \A kind \in {"csum", "comp"} :
    LET mine == side["client"].lists[kind]
        theirs == ToSet(side["server"].lists[kind])
        common == {x \in ToSet(mine) \intersect theirs : x # 0}
    IN common # {} =>
         /\ \A p \in Sides : side[p].neg => side[p].why # kind
         /\ BothReady /\ side["client"].neg /\ side["client"].o.do_compression_level = Unset =>
              side["client"][kind] = SelectSeq(mine, LAMBDA x : x \in theirs)[1]

\* A batch file is decoded with the settings it was written with.
BatchDecodes ==
  reader.written /\ reader.side.pc # "exit" =>
    LET w == batch.side
        r == reader.side
    IN /\ r.o.protocol_version = w.o.protocol_version /\ r.inc = w.inc
       /\ r.csum = w.csum /\ r.comp = w.comp /\ r.o.checksum_seed = w.o.checksum_seed
       /\ r.o.append_mode = w.o.append_mode
       /\ \A f \in StreamFields : (r.o[f] = 0) = (w.o[f] = 0)

\* A side that waits for something that has not been sent.
Blocked(p) == Awaits(p) # "none" /\ chan[p] = <<>>

\* Every session is set up or given up: no side waits for something that the
\* other will never send, because it waits itself or has gone on.
NobodyStuck ==
  \A p \in Sides : Blocked(p) /\ side[Other(p)].pc # "exit" =>
    ~Blocked(Other(p)) /\ side[Other(p)].pc # "ready"

\* Client and server read what the other one wrote, never both wait, end up
\* with the same settings and algorithms, and keep what a daemon refuses and
\* incremental recursion cannot do switched off; a batch is read the same way.
SessionsAgree ==
  /\ TypeOK /\ InStep /\ NobodyStuck /\ SidesAgree /\ NegotiationFindsOne
  /\ IncRecurseIsSafe /\ RefusedStaysOff /\ BatchDecodes
=============================================================================
