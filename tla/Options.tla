------------------------------- MODULE Options -------------------------------
(***************************************************************************)
(* The option handling of rsync (options.c): the table of options, the      *)
(* refusals of a daemon, the loop and the checks of parse_arguments, and    *)
(* server_options, which turns the settings of the client into the command  *)
(* line of the server, where parse_arguments reads them again.              *)
(*                                                                          *)
(* The global variables are one record with the names of the C variables.   *)
(* Strings (directories, patterns, names of algorithms) are small numbers   *)
(* with 0 for NULL.  An argument is [n |-> option, v |-> its value].        *)
(***************************************************************************)
EXTENDS Integers, Sequences, FiniteSets, TLC, SequencesExt

Unset == -99                \* INT_MIN: max_delete, do_compression_level
CpresAuto == -1             \* CPRES_AUTO
None == 0                   \* CPRES_NONE
Zlib == 1
Zlibx == 2
Lz4 == 3
Zstd == 4
NoChoice == -9              \* compress_choice == NULL
AnyCsum == 0                \* checksum_choice == NULL, "auto"
CsumNone == 9               \* checksum_choice "none"; 4..8 are the other types
TmpPartial == 7             \* tmp_partialdir
MaxBasis == 2               \* MAX_BASIS_DIRS, 20 in the code
DefaultSuffix == 1          \* BACKUP_SUFFIX
Slashed == 8                \* a suffix with a slash in it
NoSuffix == 9               \* the empty suffix
AFile == 4                  \* --files-from=file
Remote == 5                 \* --files-from=host:file
Stdin == 6                  \* --files-from=-
Syntax == 1
Refused == 2

Defaults ==
  [err |-> 0, am_server |-> 0, am_sender |-> 0, am_daemon |-> 0, argc |-> 2,
   protocol_version |-> 31, verbose |-> 0, quiet |-> 0, msgs2stderr |-> 2, do_stats |-> 0,
   dry_run |-> 0, do_xfers |-> 1, recurse |-> 0, allow_inc_recurse |-> 1, xfer_dirs |-> -1,
   preserve_perms |-> 0, preserve_executability |-> 0, preserve_acls |-> 0,
   preserve_xattrs |-> 0, preserve_times |-> 0, preserve_atimes |-> 0, open_noatime |-> 0,
   omit_dir_times |-> 0, omit_link_times |-> 0, modify_window |-> 0, modify_window_set |-> 0,
   am_root |-> 0, preserve_uid |-> 0, preserve_gid |-> 0, preserve_devices |-> 0,
   write_devices |-> 0, preserve_specials |-> 0, preserve_links |-> 0, copy_links |-> 0,
   copy_unsafe_links |-> 0, safe_symlinks |-> 0, copy_dirlinks |-> 0, keep_dirlinks |-> 0,
   preserve_hard_links |-> 0, relative_paths |-> -1, implied_dirs |-> 1, ignore_times |-> 0,
   size_only |-> 0, one_file_system |-> 0, update_only |-> 0, ignore_non_existing |-> 0,
   ignore_existing |-> 0, max_size |-> -1, min_size |-> -1, max_alloc |-> 0,
   sparse_files |-> 0, preallocate_files |-> 0, inplace |-> 0, append_mode |-> 0,
   delete_mode |-> 0, delete_before |-> 0, delete_during |-> 0, delete_after |-> 0,
   delete_excluded |-> 0, missing_args |-> 0, remove_source_files |-> 0, force_delete |-> 0,
   ignore_errors |-> 0, max_delete |-> Unset, cvs_exclude |-> 0, whole_file |-> -1,
   always_checksum |-> 0, checksum_choice |-> AnyCsum, block_size |-> 0, alt_dest_type |-> 0,
   basis_dir |-> <<>>, fuzzy_basis |-> 0, do_compression |-> 0, compress_choice |-> NoChoice,
   skip_compress |-> 0, do_compression_level |-> Unset, do_progress |-> 0,
   keep_partial |-> 0, partial_dir |-> 0, delay_updates |-> 0, prune_empty_dirs |-> 0,
   itemize_changes |-> 0, stdout_format_has_i |-> 0, bwlimit |-> 0, daemon_bwlimit |-> 0,
   make_backups |-> 0, backup_dir |-> 0, backup_suffix |-> 0, list_only |-> 0,
   read_batch |-> 0, write_batch |-> 0, files_from |-> 0, filesfrom_host |-> 0,
   eol_nulls |-> 0, protect_args |-> -1, numeric_ids |-> 0, usermap |-> 0,
   usermap_via_chown |-> 0, io_timeout |-> 0, tmpdir |-> 0, iconv_opt |-> 0,
   need_unsorted_flist |-> 0, mkpath_dest_arg |-> 0, use_qsort |-> 0, checksum_seed |-> 0,
   protects_suffix |-> 0, need_messages_from_generator |-> 0]

(***************************************************************************)
(* The option table.  Switches set a variable to a value; a name of         *)
(* Counters adds one; a name of Valued stores its argument.  What is left   *)
(* are the options that parse_arguments handles one by one.                 *)
(***************************************************************************)
Switches1 == {
  <<"msgs2stderr", "msgs2stderr", 1>>, <<"no-msgs2stderr", "msgs2stderr", 0>>,
  <<"stats", "do_stats", 1>>, <<"dry-run", "dry_run", 1>>,
  <<"recursive", "recurse", 2>>, <<"no-r", "recurse", 0>>,
  <<"inc-recursive", "allow_inc_recurse", 1>>, <<"no-inc-recursive", "allow_inc_recurse", 0>>,
  <<"dirs", "xfer_dirs", 2>>, <<"no-dirs", "xfer_dirs", 0>>, <<"old-dirs", "xfer_dirs", 4>>,
  <<"perms", "preserve_perms", 1>>, <<"no-perms", "preserve_perms", 0>>,
  <<"executability", "preserve_executability", 1>>, <<"no-acls", "preserve_acls", 0>>,
  <<"no-xattrs", "preserve_xattrs", 0>>, <<"times", "preserve_times", 1>>,
  <<"no-times", "preserve_times", 0>>, <<"no-atimes", "preserve_atimes", 0>>,
  <<"open-noatime", "open_noatime", 1>>, <<"omit-dir-times", "omit_dir_times", 1>>,
  <<"omit-link-times", "omit_link_times", 1>>, <<"super", "am_root", 2>>,
  <<"fake-super", "am_root", -1>>, <<"owner", "preserve_uid", 1>>,
  <<"no-owner", "preserve_uid", 0>>, <<"group", "preserve_gid", 1>>,
  <<"no-group", "preserve_gid", 0>>, <<"devices", "preserve_devices", 1>>,
  <<"no-devices", "preserve_devices", 0>>, <<"write-devices", "write_devices", 1>>,
  <<"specials", "preserve_specials", 1>>, <<"no-specials", "preserve_specials", 0>>,
  <<"links", "preserve_links", 1>>, <<"no-links", "preserve_links", 0>>,
  <<"copy-links", "copy_links", 1>>, <<"copy-unsafe-links", "copy_unsafe_links", 1>>,
  <<"safe-links", "safe_symlinks", 1>>, <<"copy-dirlinks", "copy_dirlinks", 1>>,
  <<"keep-dirlinks", "keep_dirlinks", 1>>, <<"relative", "relative_paths", 1>>,
  <<"no-relative", "relative_paths", 0>>, <<"no-implied-dirs", "implied_dirs", 0>>,
  <<"ignore-times", "ignore_times", 1>>, <<"size-only", "size_only", 1>>,
  <<"update", "update_only", 1>>, <<"existing", "ignore_non_existing", 1>>,
  <<"ignore-existing", "ignore_existing", 1>>, <<"sparse", "sparse_files", 1>>,
  <<"preallocate", "preallocate_files", 1>>, <<"inplace", "inplace", 1>>}

Switches2 == {
  <<"no-inplace", "inplace", 0>>, <<"append-verify", "append_mode", 2>>,
  <<"delete", "delete_mode", 1>>, <<"delete-before", "delete_before", 1>>,
  <<"delete-during", "delete_during", 1>>, <<"delete-delay", "delete_during", 2>>,
  <<"delete-after", "delete_after", 1>>, <<"delete-excluded", "delete_excluded", 1>>,
  <<"remove-sent-files", "remove_source_files", 2>>,
  <<"remove-source-files", "remove_source_files", 1>>, <<"force", "force_delete", 1>>,
  <<"ignore-errors", "ignore_errors", 1>>, <<"cvs-exclude", "cvs_exclude", 1>>,
  <<"whole-file", "whole_file", 1>>, <<"no-whole-file", "whole_file", 0>>,
  <<"checksum", "always_checksum", 1>>, <<"old-compress", "compress_choice", Zlib>>,
  <<"new-compress", "compress_choice", Zlibx>>, <<"progress", "do_progress", 1>>,
  <<"partial", "keep_partial", 1>>, <<"no-partial", "keep_partial", 0>>,
  <<"delay-updates", "delay_updates", 1>>, <<"prune-empty-dirs", "prune_empty_dirs", 1>>,
  <<"backup", "make_backups", 1>>, <<"no-backup", "make_backups", 0>>,
  <<"list-only", "list_only", 2>>, <<"write-batch", "write_batch", 1>>,
  <<"only-write-batch", "write_batch", -1>>, <<"read-batch", "read_batch", 1>>,
  <<"from0", "eol_nulls", 1>>, <<"protect-args", "protect_args", 1>>,
  <<"numeric-ids", "numeric_ids", 1>>, <<"no-iconv", "iconv_opt", 0>>,
  <<"mkpath", "mkpath_dest_arg", 1>>, <<"qsort", "use_qsort", 1>>, <<"sender", "am_sender", 1>>}

Counters == {
  <<"verbose", "verbose">>, <<"quiet", "quiet">>, <<"xattrs", "preserve_xattrs">>,
  <<"hard-links", "preserve_hard_links">>, <<"one-file-system", "one_file_system">>,
  <<"fuzzy", "fuzzy_basis">>, <<"compress", "do_compression">>,
  <<"itemize-changes", "itemize_changes">>}

Valued == {
  <<"max-size", "max_size">>, <<"min-size", "min_size">>, <<"max-alloc", "max_alloc">>,
  <<"max-delete", "max_delete">>, <<"checksum-choice", "checksum_choice">>,
  <<"block-size", "block_size">>, <<"compress-choice", "compress_choice">>,
  <<"skip-compress", "skip_compress">>, <<"compress-level", "do_compression_level">>,
  <<"partial-dir", "partial_dir">>, <<"log-format", "stdout_format_has_i">>,
  <<"bwlimit", "bwlimit">>, <<"backup-dir", "backup_dir">>, <<"suffix", "backup_suffix">>,
  <<"files-from", "files_from">>, <<"timeout", "io_timeout">>, <<"temp-dir", "tmpdir">>,
  <<"iconv", "iconv_opt">>, <<"protocol", "protocol_version">>,
  <<"checksum-seed", "checksum_seed">>}

Specials == {"archive", "D", "no-D", "atimes", "P", "no-compress", "append", "link-dest",
             "copy-dest", "compare-dest", "usermap", "chown", "acls", "modify-window",
             "delete-missing-args", "ignore-missing-args"}

Switches == Switches1 \union Switches2
SwitchNames == {s[1] : s \in Switches}
CounterNames == {s[1] : s \in Counters}
ValuedNames == {s[1] : s \in Valued}
OptionNames == SwitchNames \union CounterNames \union ValuedNames \union Specials
Entry == [n \in SwitchNames \union CounterNames \union ValuedNames |->
            CHOOSE s \in Switches \union Counters \union Valued : s[1] = n]

(***************************************************************************)
(* Refusals.  A word of "refuse options" is [neg, wild, m]: m are the       *)
(* options it matches, a single one when it is not a pattern.  Some options *)
(* are only reached by their own name.                                      *)
(***************************************************************************)
ArchiveWord(neg) ==
  [neg |-> neg, wild |-> TRUE,
   m |-> {"archive", "recursive", "dirs", "links", "perms", "times", "group", "owner", "D"}]
ExactOnly == {"from0", "protect-args", "dry-run", "iconv", "no-iconv", "checksum-seed",
              "write-devices", "log-format", "sender"}

parse_one_refuse_match(refused, r) ==
  LET hit == {n \in r.m : n \notin ExactOnly \/ ~r.wild}
  IN IF r.neg THEN refused \ hit ELSE refused \union hit

\* The options a daemon refuses; charset tells whether the module has one.
set_refuse_options(words, charset) ==
  LET listed == FoldLeft(parse_one_refuse_match, {"write-devices"}, words)
  IN IF charset THEN listed ELSE listed \union {"iconv"}

ArchiveParts == {"recursive", "dirs", "links", "perms", "times", "group", "owner", "D"}

(***************************************************************************)
(* parse_arguments.  A stage that finds an error stores it in err and the   *)
(* later ones leave the record alone.                                       *)
(***************************************************************************)
Fail(o, kind) == [o EXCEPT !.err = kind]
Bool(b) == IF b THEN 1 ELSE 0
Max2(a, b) == IF a > b THEN a ELSE b

SetDestDir(o, kind, v) ==
  IF \/ o.alt_dest_type \notin {0, kind}
     \/ Len(o.basis_dir) >= MaxBasis
  THEN Fail(o, Syntax)
  ELSE [o EXCEPT !.alt_dest_type = kind, !.basis_dir = Append(@, v)]

SetUserMap(o, v, chown) ==
  IF o.usermap # 0 THEN Fail(o, Syntax)
  ELSE [o EXCEPT !.usermap = v, !.usermap_via_chown = chown]

\* The options that the switch statement treats.
Special(o, a, refused) ==
  CASE a.n = "archive" ->
         IF refused \intersect ArchiveParts # {} THEN Fail(o, Refused)
         ELSE [recurse |-> IF o.recurse = 0 THEN 1 ELSE o.recurse, preserve_links |-> 1,
               preserve_perms |-> 1, preserve_times |-> 1, preserve_gid |-> 1,
               preserve_uid |-> 1, preserve_devices |-> 1, preserve_specials |-> 1] @@ o
    [] a.n = "D" -> [preserve_devices |-> 1, preserve_specials |-> 1] @@ o
    [] a.n = "no-D" -> [preserve_devices |-> 0, preserve_specials |-> 0] @@ o
    [] a.n = "atimes" ->
         [o EXCEPT !.preserve_atimes = @ + 1, !.open_noatime = IF o.preserve_atimes > 0 THEN 1 ELSE @]
    [] a.n = "P" ->
         IF refused \intersect {"partial", "progress"} # {} THEN Fail(o, Refused)
         ELSE [do_progress |-> 1, keep_partial |-> 1] @@ o
    [] a.n = "no-compress" -> [do_compression |-> None, compress_choice |-> NoChoice] @@ o
    [] a.n = "append" ->
         [o EXCEPT !.append_mode = IF o.am_server = 1 THEN @ + 1 ELSE 1]
    [] a.n = "compare-dest" -> SetDestDir(o, 1, a.v)
    [] a.n = "copy-dest" -> SetDestDir(o, 2, a.v)
    [] a.n = "link-dest" -> SetDestDir(o, 3, a.v)
    [] a.n = "usermap" -> SetUserMap(o, a.v, 0)
    [] a.n = "chown" -> SetUserMap(o, a.v, 1)
    [] a.n = "acls" -> [preserve_acls |-> 1, preserve_perms |-> 1] @@ o
    [] a.n = "modify-window" -> [modify_window |-> a.v, modify_window_set |-> 1] @@ o
    [] a.n = "delete-missing-args" ->
         [o EXCEPT !.missing_args = IF @ % 4 >= 2 THEN @ ELSE @ + 2]
    [] a.n = "ignore-missing-args" ->
         [o EXCEPT !.missing_args = IF @ % 2 = 1 THEN @ ELSE @ + 1]

\* One turn of the loop over the options.
ApplyOption(o, a, refused) ==
  IF o.err # 0 THEN o
  ELSE IF a.n \in refused THEN Fail(o, Refused)
  ELSE IF a.n \in Specials THEN Special(o, a, refused)
  ELSE LET e == Entry[a.n]
       IN [o EXCEPT ![e[2]] = IF a.n \in SwitchNames THEN e[3]
                              ELSE IF a.n \in CounterNames THEN @ + 1 ELSE a.v]

ParseLoop(o, args, refused) ==
  FoldLeft(LAMBDA x, a : ApplyOption(x, a, refused), o, args)

\* The checks that a first pass with protected arguments still reaches.
CheckChoices(o, refused) ==
  LET prot == [o EXCEPT !.protect_args = IF @ < 0 THEN 0 ELSE @,
                        !.whole_file = IF o.checksum_choice = CsumNone THEN 1 ELSE @]
      choice == IF prot.compress_choice = NoChoice /\ prot.do_compression > 1 THEN Zlibx
                ELSE IF prot.compress_choice = CpresAuto THEN NoChoice ELSE prot.compress_choice
      comp == IF choice # NoChoice THEN choice ELSE prot.do_compression
      on == IF comp = None /\ prot.do_compression_level # Unset THEN CpresAuto ELSE comp
      put == [compress_choice |-> choice, do_compression |-> on,
              iconv_opt |-> prot.iconv_opt,
              need_unsorted_flist |-> Bool(prot.iconv_opt # 0),
              fuzzy_basis |-> IF prot.fuzzy_basis > 1 THEN Len(prot.basis_dir) + 1
                              ELSE prot.fuzzy_basis] @@ prot
  IN IF o.err # 0 THEN o
     ELSE IF on # None /\ "compress" \in refused THEN Fail(put, Refused)
     ELSE IF "no-iconv" \in refused /\ prot.iconv_opt = 0 THEN Fail(put, Refused)
     ELSE put

CheckBatch(o) ==
  LET on == o.write_batch > 0 \/ o.read_batch # 0
      wb == IF (on /\ o.am_server = 1) \/ (o.dry_run = 1 /\ o.write_batch # 0) THEN 0
            ELSE o.write_batch
      rb == IF o.am_server = 1 THEN 0 ELSE o.read_batch
  IN IF o.err # 0 THEN o
     ELSE IF \/ o.am_root < 0 /\ o.preserve_xattrs > 1
             \/ o.write_batch # 0 /\ o.read_batch # 0
             \/ rb # 0 /\ (o.files_from # 0 \/ o.remove_source_files # 0)
          THEN Fail(o, Syntax)
     ELSE [write_batch |-> wb, read_batch |-> rb,
           max_delete |-> IF o.max_delete < 0 /\ o.max_delete # Unset THEN 0
                          ELSE o.max_delete] @@ o

\* Which directories are transferred, and how paths are sent.
CheckDirs(o) ==
  LET r1 == IF o.files_from # 0 /\ o.recurse = 1 THEN 0 ELSE o.recurse
      x1 == IF o.files_from # 0 /\ o.xfer_dirs < 0 THEN 1 ELSE o.xfer_dirs
      lo == IF o.argc < 2 /\ o.read_batch = 0 /\ o.am_server = 0 THEN Max2(o.list_only, 1)
            ELSE o.list_only
      rel == IF o.relative_paths < 0 THEN Bool(o.files_from # 0) ELSE o.relative_paths
  IN IF o.err # 0 THEN o
     ELSE [list_only |-> lo,
           recurse |-> IF x1 >= 4 THEN 1 ELSE r1,
           xfer_dirs |-> IF x1 >= 4 \/ r1 # 0 THEN 1 ELSE IF x1 < 0 THEN Bool(lo # 0) ELSE x1,
           relative_paths |-> rel,
           implied_dirs |-> IF rel = 0 THEN 0 ELSE o.implied_dirs] @@ o

\* Which way of deleting is used; a refused one is not chosen silently.
CheckDelete(o, refused) ==
  LET when == o.delete_before + Bool(o.delete_during # 0) + o.delete_after
      want == when = 0 /\ (o.delete_mode # 0 \/ o.delete_excluded # 0)
      nb == "delete-before" \in refused
      nd == "delete-during" \in refused
      d == [o EXCEPT !.delete_mode = Bool(when > 0 \/ want),
                     !.delete_during = IF want /\ nb /\ ~nd THEN 1 ELSE @,
                     !.delete_before = IF want /\ nd /\ ~nb THEN 1 ELSE @,
                     !.missing_args = IF @ = 3 THEN 2 ELSE @,
                     !.need_messages_from_generator = Bool(o.remove_source_files # 0)]
  IN IF o.err # 0 THEN o
     ELSE IF when > 1 THEN Fail(o, Syntax)
     ELSE IF want /\ nb /\ nd THEN Fail(o, Refused)
     ELSE IF o.xfer_dirs = 0 /\ d.delete_mode = 1 THEN Fail(d, Syntax)
     ELSE IF "delete" \in refused
             /\ (d.delete_mode = 1 \/ d.missing_args = 2
                 \/ (o.remove_source_files # 0 /\ o.am_sender = 1))
          THEN Fail(d, Refused)
     ELSE d

\* Backups, times and messages.
CheckBackup(o) ==
  LET mk == Bool(o.make_backups = 1 \/ o.backup_dir # 0)
      suffix == IF o.backup_suffix # 0 THEN o.backup_suffix
                ELSE IF o.backup_dir # 0 THEN NoSuffix ELSE DefaultSuffix
  IN IF o.err # 0 THEN o
     ELSE IF \/ suffix = Slashed
             \/ o.backup_dir = 0 /\ suffix = NoSuffix /\ ~(o.am_server = 1 /\ o.am_sender = 1)
          THEN Fail(o, Syntax)
     ELSE [make_backups |-> mk, backup_suffix |-> suffix,
           protects_suffix |-> Bool(o.backup_dir = 0 /\ mk = 1 /\ o.delete_mode = 1
                                    /\ o.delete_excluded = 0 /\ o.am_server = 0),
           preserve_times |->
             IF o.preserve_times = 0 THEN 0
             ELSE 1 + (IF o.omit_dir_times = 0 /\ ~(mk = 1 /\ o.backup_dir = 0) THEN 2 ELSE 0)
                    + (IF o.omit_link_times = 0 THEN 4 ELSE 0),
           omit_dir_times |-> IF mk = 1 /\ o.backup_dir = 0 THEN 0 ELSE o.omit_dir_times,
           stdout_format_has_i |-> Max2(o.stdout_format_has_i, o.itemize_changes),
           do_xfers |-> IF o.dry_run = 1 THEN 0 ELSE o.do_xfers,
           bwlimit |-> IF o.daemon_bwlimit # 0
                          /\ (o.bwlimit = 0 \/ o.bwlimit > o.daemon_bwlimit)
                       THEN o.daemon_bwlimit ELSE o.bwlimit] @@ o

\* --append and --write-devices imply --inplace, which implies --partial for
\* the refusals; a partial directory cannot be combined with it.
CheckInplace(o, refused) ==
  LET implied == o.append_mode # 0 \/ o.write_devices = 1
      ip == o.inplace = 1 \/ implied
      pd == IF o.delay_updates = 1 /\ o.partial_dir = 0 THEN TmpPartial ELSE o.partial_dir
  IN IF o.err # 0 THEN o
     ELSE IF o.append_mode # 0 /\ o.whole_file > 0 THEN Fail(o, Syntax)
     ELSE IF implied /\ "inplace" \in refused THEN Fail(o, Refused)
     ELSE IF ip /\ pd # 0 THEN Fail(o, Syntax)
     ELSE IF ip /\ "partial" \in refused THEN Fail(o, Refused)
     ELSE [inplace |-> Bool(ip), partial_dir |-> pd,
           keep_partial |-> IF ip THEN 0 ELSE IF pd # 0 THEN 1 ELSE o.keep_partial] @@ o

CheckFilesFrom(o) ==
  IF o.err # 0 \/ o.files_from = 0 THEN o
  ELSE IF (o.am_server = 0 /\ o.argc = 1) \/ (o.am_server = 1 /\ o.files_from = Remote)
       THEN Fail(o, Syntax)
  ELSE [o EXCEPT !.files_from = IF @ = Remote THEN AFile ELSE @,
                 !.filesfrom_host = Bool(o.files_from = Remote
                                         \/ (o.files_from = Stdin /\ o.am_server = 1))]

CheckAll(o, refused) ==
  IF o.protect_args = 1 /\ o.am_server = 1 /\ o.err = 0 THEN o
  ELSE CheckFilesFrom(CheckInplace(
         CheckBackup(CheckDelete(CheckDirs(CheckBatch(o)), refused)), refused))

parse_arguments(o, args, refused) ==
  CheckAll([CheckChoices(ParseLoop(o, args, refused), refused) EXCEPT !.protect_args =
              IF o.protect_args = 2 /\ o.am_server = 1 THEN 2 ELSE @], refused)

(***************************************************************************)
(* set_allow_inc_recurse and server_options.  info holds the letters of the *)
(* -e option; rest are the arguments that --protect-args sends later.       *)
(***************************************************************************)
set_allow_inc_recurse(o, info, local) ==
  IF \/ o.recurse = 0 \/ o.use_qsort = 1
     \/ o.am_sender = 0 /\ (o.delete_before = 1 \/ o.delete_after = 1
                            \/ o.delay_updates = 1 \/ o.prune_empty_dirs = 1)
     \/ o.am_server = 1 /\ ~local /\ "i" \notin info
  THEN [o EXCEPT !.allow_inc_recurse = 0] ELSE o

alt_dest_opt(o) == <<"compare-dest", "copy-dest", "link-dest">>[o.alt_dest_type]
Opt(cond, name) == IF cond THEN <<[n |-> name, v |-> 0]>> ELSE <<>>
OptV(cond, name, val) == IF cond THEN <<[n |-> name, v |-> val]>> ELSE <<>>
Twice(count, name) == Opt(count > 0, name) \o Opt(count > 1, name)

\* The cluster of one-letter options, which ends with -e and its flags.
ShortOptions(o) ==
  LET push == o.am_sender = 1
  IN FlattenSeq(<<
       Opt(~push, "sender"), Opt(o.protect_args # 0, "protect-args"),
       [i \in 1 .. o.verbose |-> [n |-> "verbose", v |-> 0]],
       Opt(o.quiet > 0 /\ o.msgs2stderr # 0, "quiet"),
       Opt(o.make_backups = 1, "backup"), Opt(o.update_only = 1, "update"),
       Opt(o.do_xfers = 0, "dry-run"), Opt(o.preserve_links = 1, "links"),
       Opt(\/ o.xfer_dirs \in {2, 3}
           \/ /\ o.xfer_dirs # 0 /\ o.recurse = 0
              /\ o.list_only # 0 \/ (o.delete_mode = 1 /\ push), "dirs"),
       Opt(push /\ o.keep_dirlinks = 1, "keep-dirlinks"),
       Opt(push /\ o.prune_empty_dirs = 1, "prune-empty-dirs"),
       Opt(push /\ o.omit_dir_times = 1, "omit-dir-times"),
       Opt(push /\ o.omit_link_times = 1, "omit-link-times"),
       IF push THEN Twice(o.fuzzy_basis, "fuzzy") ELSE <<>>,
       Opt(~push /\ o.copy_links = 1, "copy-links"),
       Opt(~push /\ o.copy_dirlinks = 1, "copy-dirlinks"),
       Opt(o.whole_file > 0, "whole-file"), Twice(o.preserve_hard_links, "hard-links"),
       Opt(o.preserve_uid = 1, "owner"), Opt(o.preserve_gid = 1, "group"),
       Opt(o.preserve_devices = 1, "D"), Opt(o.preserve_times # 0, "times"),
       Twice(o.preserve_atimes, "atimes"), Opt(o.preserve_perms = 1, "perms"),
       Opt(o.preserve_perms = 0 /\ o.preserve_executability = 1 /\ push, "executability"),
       Opt(o.preserve_acls = 1, "acls"), Twice(o.preserve_xattrs, "xattrs"),
       Opt(o.recurse # 0, "recursive"), Opt(o.always_checksum = 1, "checksum"),
       Opt(o.cvs_exclude = 1, "cvs-exclude"), Opt(o.ignore_times = 1, "ignore-times"),
       Opt(o.relative_paths = 1, "relative"), Twice(o.one_file_system, "one-file-system"),
       Opt(o.sparse_files = 1, "sparse"), Opt(o.do_compression = Zlib, "compress")>>)

EFlags(o) ==
  IF o.protocol_version < 30 THEN {}
  ELSE {"L", "s", "f", "x", "C", "I", "v", "u"}
       \union (IF o.allow_inc_recurse = 1 THEN {"i"} ELSE {})

\* The long options up to --skip-compress.
LongOptions1(o) ==
  LET push == o.am_sender = 1
  IN FlattenSeq(<<
       Opt(o.list_only > 1, "list-only"),
       Opt(o.xfer_dirs # 0 /\ o.recurse = 0 /\ o.delete_mode = 1 /\ push, "no-r"),
       OptV(o.do_compression # None /\ o.do_compression_level # Unset,
            "compress-level", o.do_compression_level),
       Opt(o.preserve_devices = 1 /\ o.preserve_specials = 0, "no-specials"),
       Opt(o.preserve_devices = 0 /\ o.preserve_specials = 1, "specials"),
       OptV(push /\ o.stdout_format_has_i > 0, "log-format", o.stdout_format_has_i),
       Opt(o.msgs2stderr = 1, "msgs2stderr"), Opt(o.msgs2stderr = 0, "no-msgs2stderr"),
       OptV(o.block_size # 0, "block-size", o.block_size),
       OptV(o.io_timeout # 0, "timeout", o.io_timeout),
       OptV(o.bwlimit # 0, "bwlimit", o.bwlimit),
       OptV(o.backup_dir # 0, "backup-dir", o.backup_dir),
       OptV(o.backup_suffix # (IF o.backup_dir # 0 THEN NoSuffix ELSE DefaultSuffix),
            "suffix", o.backup_suffix),
       OptV(o.checksum_choice # AnyCsum, "checksum-choice", o.checksum_choice),
       Opt(o.do_compression = Zlibx, "new-compress"),
       Opt(o.compress_choice # NoChoice /\ o.do_compression = Zlib, "old-compress"),
       OptV(o.compress_choice # NoChoice /\ o.do_compression \notin {Zlib, Zlibx},
            "compress-choice", o.compress_choice)>>)

\* What only a receiving server needs to know.
ReceiverOptions(o) ==
  FlattenSeq(<<
    OptV(o.max_delete > 0, "max-delete", o.max_delete),
    OptV(o.max_delete = 0, "max-delete", -1),
    OptV(o.min_size >= 0, "min-size", o.min_size), OptV(o.max_size >= 0, "max-size", o.max_size),
    Opt(o.delete_before = 1, "delete-before"),
    Opt(o.delete_before = 0 /\ o.delete_during = 2, "delete-delay"),
    Opt(o.delete_before = 0 /\ o.delete_during = 1, "delete-during"),
    Opt(o.delete_before = 0 /\ o.delete_during = 0 /\ o.delete_after = 1, "delete-after"),
    Opt(/\ o.delete_before + o.delete_during + o.delete_after = 0
        /\ o.delete_mode = 1 /\ o.delete_excluded = 0, "delete"),
    Opt(o.delete_excluded = 1, "delete-excluded"), Opt(o.force_delete = 1, "force"),
    Opt(o.write_batch < 0, "only-write-batch"), Opt(o.am_root > 1, "super"),
    Opt(o.size_only = 1, "size-only"), Opt(o.do_stats = 1, "stats")>>)

\* The long options from --skip-compress on.
LongOptions2(o) ==
  LET push == o.am_sender = 1
  IN FlattenSeq(<<
       OptV(~push /\ o.skip_compress # 0, "skip-compress", o.skip_compress),
       OptV(o.max_alloc # 0, "max-alloc", o.max_alloc),
       Opt(o.missing_args = 2, "delete-missing-args"),
       Opt(o.missing_args = 1 /\ ~push, "ignore-missing-args"),
       OptV(push /\ o.modify_window_set = 1, "modify-window", o.modify_window),
       OptV(o.checksum_seed # 0, "checksum-seed", o.checksum_seed),
       OptV(push /\ o.partial_dir \notin {0, TmpPartial}, "partial-dir", o.partial_dir),
       Opt(push /\ o.partial_dir # 0 /\ o.delay_updates = 1, "delay-updates"),
       Opt(push /\ o.partial_dir = 0 /\ o.keep_partial = 1, "partial"),
       Opt(o.ignore_errors = 1, "ignore-errors"),
       Opt(o.copy_unsafe_links = 1, "copy-unsafe-links"), Opt(o.safe_symlinks = 1, "safe-links"),
       Opt(o.numeric_ids = 1, "numeric-ids"), Opt(o.use_qsort = 1, "qsort"),
       OptV(push /\ o.usermap # 0, "usermap", o.usermap),
       Opt(push /\ o.ignore_existing = 1, "ignore-existing"),
       Opt(push /\ o.ignore_non_existing = 1, "existing"),
       OptV(push /\ o.tmpdir # 0, "temp-dir", o.tmpdir),
       IF push THEN [i \in 1 .. Len(o.basis_dir) |-> [n |-> alt_dest_opt(o), v |-> o.basis_dir[i]]]
       ELSE <<>>>>)

\* How the files are written and which paths are sent.
LongOptions3(o) ==
  LET push == o.am_sender = 1
      from == o.files_from # 0 /\ (~push \/ o.filesfrom_host = 1)
  IN FlattenSeq(<<
       Twice(o.append_mode, "append"), Opt(o.append_mode = 0 /\ o.inplace = 1, "inplace"),
       OptV(from, "files-from", IF o.filesfrom_host = 1 THEN o.files_from ELSE Stdin),
       Opt(from /\ (o.filesfrom_host = 0 \/ o.eol_nulls = 1), "from0"),
       Opt(from /\ o.relative_paths = 0, "no-relative"),
       Opt(/\ o.relative_paths = 1 /\ o.implied_dirs = 0
           /\ ~push \/ o.protocol_version >= 30, "no-implied-dirs"),
       Opt(push /\ o.write_devices = 1, "write-devices"),
       Opt(o.remove_source_files = 1, "remove-source-files"),
       Opt(o.remove_source_files = 2, "remove-sent-files"),
       Opt(push /\ o.preallocate_files = 1, "preallocate"),
       Opt(o.open_noatime = 1 /\ o.preserve_atimes <= 1, "open-noatime"),
       Opt(push /\ o.mkpath_dest_arg = 1, "mkpath")>>)

server_options(o0) ==
  LET o == set_allow_inc_recurse(o0, {}, FALSE)
      early == ShortOptions(o) \o OptV(o.iconv_opt # 0, "iconv", o.iconv_opt)
      late == FlattenSeq(<<LongOptions1(o),
                           IF o.am_sender = 1 THEN ReceiverOptions(o) ELSE <<>>,
                           LongOptions2(o), LongOptions3(o)>>)
  IN [opts |-> o, info |-> EFlags(o),
      args |-> IF o.protect_args # 0 THEN early ELSE early \o late,
      rest |-> IF o.protect_args # 0 THEN late ELSE <<>>]

\* The server reads the command line it was started with and, when the
\* arguments are protected, a second one from the connection.
ParseRest(o, rest, refused) ==
  IF o.err = 0 /\ o.protect_args # 0 THEN parse_arguments([o EXCEPT !.protect_args = 2], rest, refused) ELSE o
ServerParse(o, sent, refused) == ParseRest(parse_arguments(o, sent.args, refused), sent.rest, refused)
=============================================================================
