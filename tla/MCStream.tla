------------------------------ MODULE MCStream ------------------------------
(* Instances of Stream for TLC. *)
EXTENDS Stream

Edge == {0, 1, 15, 16, 63, 64, 127, 128, 255}
MCNumbers == [1..4 -> {0, 1, 15, 16, 127, 128, 255}]
MCLongs == {<<a, 0, b, c, d, e, 0, f>> : a \in {0, 255}, b \in {0, 128}, c \in Edge, d \in Edge, e \in {0, 31, 32}, f \in {0, 1, 3, 4, 7, 8, 255}}
MCStrings == {0, 1, 127, 128, 255, 256, 511, 32767, 32768}
MCIndices == {0, 1, 2, 253, 254, 255, 300, 32767, 32768, 33100, 16777216, 2147483646,
              -1, -2, -3, -101, -102, -400, -33000}

Perm(c) == {<<"u", "r">>} \cup c
Mode(t, p) == [type |-> t, perm |-> Perm(p)]
Exec == {<<"u", "x">>}
F(n, m, t, u, i) ==
  [name |-> n, mode |-> m, modtime |-> t, nsec |-> t % 2, atime |-> t, crtime |-> 1, uid |-> u, gid |-> u,
   major |-> 0, minor |-> 0, target |-> "", len |-> t, sum |-> t, dev |-> 0, ino |-> i, dir |-> ""]
MCFiles ==
  {F(<<1>>, Mode("reg", {}), 1, 0, 0), F(<<1, 2, 1>>, Mode("reg", {}), 2, 1, 1), F(<<1, 2, 2, 1>>, Mode("reg", {}), 2, 1, 1),
   F(<<2, 2>>, Mode("reg", Exec), 1, 2, 0),
   [F(<<1, 1>>, Mode("dir", Exec), 2, 2, 0) EXCEPT !.dir = "content"],
   [F(<<2>>, Mode("dir", Exec), 0, 0, 0) EXCEPT !.dir = "implied"],
   [F(<<1, 2, 2>>, Mode("dev", {}), 1, 0, 2) EXCEPT !.major = 1, !.minor = 300],
   [F(<<2, 1, 1>>, Mode("dev", {}), 1, 0, 0) EXCEPT !.major = 2, !.minor = 7],
   [F(<<2, 1>>, Mode("lnk", {}), 2, 1, 0) EXCEPT !.target = "t"],
   F(<<1, 1, 2>>, Mode("special", {}), 1, 0, 0)}

Plain == [proto |-> 31, varint |-> FALSE, inc_recurse |-> TRUE, recurse |-> TRUE,
   preserve_uid |-> TRUE, preserve_gid |-> TRUE,
   preserve_devices |-> TRUE, preserve_specials |-> TRUE, preserve_links |-> TRUE, preserve_hard_links |-> TRUE,
   atimes |-> FALSE, crtimes |-> FALSE, always_checksum |-> FALSE, numeric_ids |-> 0, xmit_id0_names |-> TRUE,
   am_root |-> TRUE, groups |-> {0, 1, 5, 6}, chmod |-> <<>>,
   unames |-> 0 :> "root" @@ 1 :> "ann", gnames |-> 0 :> "root" @@ 1 :> "staff",
   local_users |-> "root" :> 0 @@ "ann" :> 5, local_groups |-> "staff" :> 6,
   usermap |-> <<>>, groupmap |-> <<>>]
Clause(only, where, op, what, x) == parse_chmod([only |-> only, where |-> where, op |-> op, what |-> what, X |-> x])
MCOptions ==
  {Plain,
   [Plain EXCEPT !.varint = TRUE, !.atimes = TRUE, !.crtimes = TRUE, !.inc_recurse = FALSE, !.always_checksum = TRUE,
                 !.chmod = <<Clause("F", {"g"}, "=", {"r"}, FALSE), Clause("any", {"g"}, "+", {"x"}, TRUE)>>,
                 !.usermap = <<[kind |-> "range", lo |-> 2, hi |-> 3, name |-> "", id2 |-> 9]>>],
   [Plain EXCEPT !.proto = 29, !.inc_recurse = FALSE, !.xmit_id0_names = FALSE, !.always_checksum = TRUE],
   [Plain EXCEPT !.proto = 27, !.inc_recurse = FALSE, !.preserve_hard_links = FALSE, !.xmit_id0_names = FALSE,
                 !.always_checksum = TRUE, !.numeric_ids = 1]}

\* files with attributes; 10 and 11 are long values
XS == {EmptyAttrs, UserA :> 1, UserA :> 10, (UserA :> 11) @@ (UserZ :> 10), (UserA :> 10) @@ (UserZ :> 10)}
XF(s, d, e, x, l) == [src |-> s, dst |-> d, exists |-> e, data |-> x, lost |-> l]
XFiles(S, D) == {XF(s, EmptyAttrs, FALSE, TRUE, l) : s \in S, l \in {TRUE, FALSE}}
               \cup {XF(s, d, TRUE, x, FALSE) : s \in S, d \in D, x \in {TRUE, FALSE}}
XR(s, r, n) == [sroot |-> s, rroot |-> r, level |-> n]
XSeq(S) == {<<a>> : a \in S} \cup {<<a, b>> : a \in S, b \in S}
XLong == {XF(UserA :> 10, EmptyAttrs, FALSE, TRUE, FALSE), XF(UserA :> 10, UserA :> 10, TRUE, FALSE, FALSE),
          XF(UserA :> 10, UserA :> 10, TRUE, TRUE, FALSE), XF(UserA :> 10, UserA :> 11, TRUE, FALSE, FALSE),
          XF(UserA :> 10, EmptyAttrs, FALSE, TRUE, TRUE), XF(UserA :> 10, EmptyAttrs, TRUE, FALSE, FALSE)}
XNames == XFiles({(TrustedAttr :> 10) @@ (UserA :> 1), (SystemAttr :> 1) @@ (StatAttr :> 2) @@ (UserZ :> 10)},
                 {EmptyAttrs, (TrustedAttr :> 10) @@ (Disguised :> 10) @@ (StatAttr :> 3),
                  (SystemAttr :> 2) @@ (UserA :> 1) @@ (UserZ :> 11)})
XFake == XFiles({(Disguised :> 10) @@ (UserA :> 1), (StatAttr :> 2) @@ (UserZ :> 10)},
                {EmptyAttrs, (TrustedAttr :> 10) @@ (StatAttr :> 3), (Disguised :> 10) @@ (UserZ :> 11)})
MCAttrCases ==
  {[files |-> f, r |-> XR(0, 0, 1)] : f \in XSeq(XFiles(XS, {EmptyAttrs, UserA :> 10, (UserA :> 1) @@ (UserZ :> 10)}))
                                            \cup {<<a, b, c>> : a \in XLong, b \in XLong, c \in XLong}}
  \cup {[files |-> f, r |-> XR(1, r, n)] : f \in XSeq(XNames), r \in {-1, 0, 1}, n \in {1, 2}}
  \cup {[files |-> f, r |-> XR(-1, r, n)] : f \in XSeq(XFake), r \in {-1, 0, 1}, n \in {1, 2}}

StatOf(t, r) == [type : {t}, sp : BOOLEAN, rdev : r, id : {0, 3}, own : {4, 6, 7}, grp : {0, 5}]
MCStatFiles == StatOf("reg", {0}) \cup StatOf("dir", {0}) \cup StatOf("dev", {1, 2})
MCAclRoots == {-1, 0}
MCLocalId == (0 :> 0) @@ (1 :> 5) @@ (2 :> 6)
Ida(id, u, p) == [id |-> id, user |-> u, access |-> p]
ACL(u, g, m, o, n) == [user |-> u, group |-> g, mask |-> m, other |-> o, names |-> n]
SrcAcls == {ACL(7, 5, NO, 0, <<>>), ACL(7, 5, 5, 0, <<>>), ACL(6, 7, 4, 4, <<Ida(1, TRUE, 7)>>),
            ACL(7, 5, 5, 5, <<Ida(1, TRUE, 5), Ida(2, FALSE, 1)>>), ACL(7, 0, 5, 5, <<Ida(1, TRUE, 5), Ida(2, FALSE, 1)>>)}
DstAcls == {ACL(6, 4, NO, 0, <<>>), ACL(7, 5, 4, 0, <<Ida(5, TRUE, 7)>>), ACL(7, 5, 5, 5, <<Ida(5, TRUE, 5), Ida(6, FALSE, 1)>>)}
DefAcls == {NoAcl, ACL(7, 5, 7, 1, <<Ida(1, TRUE, 7)>>), ACL(7, 5, NO, 0, <<>>)}
AclFile(a, s, d, t, dir, def) == [acl |-> a, sp |-> s, dst |-> d, dsp |-> t, dir |-> dir, def |-> def]
PlainAcl == {AclFile(a, s, d, t, FALSE, NoAcl) : a \in SrcAcls, d \in DstAcls, s \in {TRUE, FALSE}, t \in {TRUE, FALSE}}
DirAcl == {AclFile(a, s, d, FALSE, TRUE, e) : a \in SrcAcls, d \in {CHOOSE x \in DstAcls : TRUE}, s \in {TRUE, FALSE}, e \in DefAcls}
MCAclFiles == {<<a, b>> : a \in PlainAcl, b \in DirAcl} \cup {<<b, c>> : b \in DirAcl, c \in DirAcl}
  \cup {<<AclFile(a, FALSE, d, FALSE, FALSE, NoAcl), AclFile(b, FALSE, d, FALSE, FALSE, NoAcl), AclFile(c, FALSE, d, FALSE, FALSE, NoAcl)>> :
          a \in SrcAcls, b \in SrcAcls, c \in SrcAcls, d \in DstAcls}

\* contents of files before and after, and options of a transfer
FilesOf(B, n) == UNION {[1..k -> B] : k \in 0..n}
MCSources == FilesOf({0, 1, 2}, 3) \cup FilesOf({0, 1}, 4) \cup {<<0, 1, 0, 1, 1>>, <<0, 0, 2, 0, 0>>}
MCBases == FilesOf({0, 1}, 3) \cup
  {<<0, 1, 0, 1>>, <<0, 1, 1, 0>>, <<0, 0, 0, 0>>, <<0, 2, 1>>, <<2, 0, 0, 1>>, <<0, 0, 1, 0, 0>>}

MCChanged == {<<1>>, <<0, 1, 1, 0>>}

C(block, z, proto, inplace, sparse, append, whole, prealloc) ==
  [block |-> block, z |-> z, proto |-> proto, inplace |-> inplace, sparse |-> sparse, append |-> append,
   whole |-> whole, prealloc |-> prealloc]
MCDeltaConfigs ==
  {C(2, "none", 31, FALSE, TRUE, 0, FALSE, FALSE), C(1, "zlib", 31, FALSE, TRUE, 0, FALSE, TRUE),
   C(2, "zlib", 30, TRUE, FALSE, 0, FALSE, FALSE), C(1, "zstd", 31, TRUE, FALSE, 0, FALSE, FALSE),
   C(2, "lz4", 31, FALSE, FALSE, 0, TRUE, FALSE), C(1, "lz4", 31, FALSE, FALSE, 0, FALSE, FALSE),
   C(2, "none", 31, TRUE, FALSE, 1, FALSE, FALSE), C(2, "zlibx", 31, TRUE, FALSE, 2, FALSE, TRUE)}
=============================================================================
