--------------------------- MODULE Stream_proofs ---------------------------
(***************************************************************************)
(* For buffers of every size, no store of io.c leaves its buffer, whoever  *)
(* waits for room has something to write, and what is written arrives      *)
(* complete and in order.                                                  *)
(***************************************************************************)
EXTENDS Stream, TLAPS

\* What a byte of a buffer can be.
Cells ==
  {Blank} \cup {<<"raw", i>> : i \in Int} \cup {<<"msg", i, k>> : i \in Int, k \in Int}
    \cup {<<"hdr", c, i, n, k>> : c \in {"data", "msg"}, i \in Int, n \in Nat, k \in Int}

\* Where the byte is that comes j bytes after the first one of a buffer.
Ring(pos, size, j) == IF pos + j < size THEN pos + j ELSE pos + j - size

----------------------------------------------------------------------------
(* Numbers *)

LEMMA Minimum2 ==
  ASSUME NEW a \in Int, NEW b \in Int
  PROVE  Min({a, b}) = IF a <= b THEN a ELSE b
<1>1. \A x \in {a, b} : (\A y \in {a, b} : x <= y) => x = IF a <= b THEN a ELSE b
  OBVIOUS
<1>2. \E x \in {a, b} : \A y \in {a, b} : x <= y
  OBVIOUS
<1> QED
  BY <1>1, <1>2 DEF Min

LEMMA Minimum3 ==
  ASSUME NEW a \in Int, NEW b \in Int, NEW c \in Int
  PROVE  /\ Min({a, b, c}) \in {a, b, c}
         /\ Min({a, b, c}) <= a /\ Min({a, b, c}) <= b /\ Min({a, b, c}) <= c
<1>1. \E x \in {a, b, c} : \A y \in {a, b, c} : x <= y
  OBVIOUS
<1> QED
  BY <1>1 DEF Min

LEMMA Division ==
  ASSUME NEW a \in Nat, NEW u \in Nat \ {0}
  PROVE  a = u * (a \div u) + (a % u) /\ a % u \in 0 .. u - 1 /\ a \div u \in Nat
OBVIOUS

LEMMA SameQuotient ==
  ASSUME NEW k \in Int, NEW q \in Int, NEW u \in Nat \ {0},
         u * k < u * q + u, u * q < u * k + u
  PROVE  k = q
<1>1. u * (k - q) < u /\ u * (q - k) < u
  OBVIOUS
<1>2. \A d \in Int : d >= 1 => u * d >= u
  OBVIOUS
<1>3. CASE k > q
  BY <1>1, <1>2, <1>3, k - q >= 1
<1>4. CASE k < q
  BY <1>1, <1>2, <1>4, q - k >= 1
<1> QED
  BY <1>3, <1>4

\* A size is rounded up to the size that was allocated.
LEMMA RoundUp ==
  ASSUME NEW K \in Nat, NEW u \in Nat \ {0}, NEW s \in Nat,
         K % u = 0, K - u < s, s <= K
  PROVE  /\ s % u = 0 => s = K
         /\ s % u # 0 => (s \div u + 1) * u = K
<1> DEFINE k == K \div u
           q == s \div u
           r == s % u
<1>1. K = u * k /\ k \in Nat
  BY Division
<1>2. s = u * q + r /\ q \in Nat /\ r \in 0 .. u - 1
  BY Division
<1> HIDE DEF k, q, r
<1>3. ASSUME r = 0 PROVE s = K
  <2>1. u * k < u * q + u /\ u * q < u * k + u
    BY <1>1, <1>2, <1>3
  <2> QED
    BY <2>1, <1>1, <1>2, <1>3, SameQuotient
<1>4. ASSUME r # 0 PROVE (q + 1) * u = K
  <2>1. u * (q + 1) = u * q + u
    BY <1>2
  <2>2. u * k < u * (q + 1) + u /\ u * (q + 1) < u * k + u
    BY <1>1, <1>2, <1>4, <2>1
  <2>3. q + 1 = k
    BY <2>2, <1>1, <1>2, SameQuotient
  <2> QED
    BY <2>3, <1>1, <1>2
<1> QED
  BY <1>3, <1>4 DEF k, q, r

----------------------------------------------------------------------------
(* Buffers *)

Bufs(C, d) == [buf : [0 .. d -> C], pos : Nat, len : Nat, size : Nat]

CellsOf(C, n) == {s \in Seq(C) : Len(s) = n}

\* A buffer, and its numbers.
IsBuf(b, C, d, P, l, S) == b \in Bufs(C, d) /\ b.pos = P /\ b.len = l /\ b.size = S

LEMMA PokeType ==
  ASSUME NEW C, NEW d \in Int, NEW P, NEW l, NEW S, NEW b, IsBuf(b, C, d, P, l, S),
         NEW p \in Nat, NEW n \in Nat, NEW cells \in CellsOf(C, n)
  PROVE  IsBuf(Poke(b, p, cells), C, d, P, l, S)
<1> DEFINE f == [i \in DOMAIN b.buf |-> IF i >= p /\ i < p + Len(cells) THEN cells[i - p + 1] ELSE b.buf[i]]
<1>1. DOMAIN b.buf = 0 .. d /\ b.buf \in [0 .. d -> C]
  BY DEF Bufs, IsBuf
<1>2. f \in [0 .. d -> C]
  BY <1>1 DEF CellsOf
<1> HIDE DEF f
<1>3. Poke(b, p, cells) = [b EXCEPT !.buf = f]
  BY DEF Poke, f
<1> QED
  BY <1>1, <1>2, <1>3 DEF Bufs, IsBuf

LEMMA PokeAt ==
  ASSUME NEW C, NEW d \in Int, NEW P, NEW l, NEW S, NEW b, IsBuf(b, C, d, P, l, S),
         NEW p \in Nat, NEW n \in Nat, NEW cells \in CellsOf(C, n), NEW i \in 0 .. d
  PROVE  /\ i >= p /\ i < p + n => Poke(b, p, cells).buf[i] = cells[i - p + 1]
         /\ i < p \/ i >= p + n => Poke(b, p, cells).buf[i] = b.buf[i]
<1> DEFINE f == [j \in DOMAIN b.buf |-> IF j >= p /\ j < p + Len(cells) THEN cells[j - p + 1] ELSE b.buf[j]]
<1>1. DOMAIN b.buf = 0 .. d
  BY DEF Bufs, IsBuf
<1>2. /\ i >= p /\ i < p + n => f[i] = cells[i - p + 1]
      /\ i < p \/ i >= p + n => f[i] = b.buf[i]
  BY <1>1 DEF CellsOf
<1> HIDE DEF f
<1>3. Poke(b, p, cells) = [b EXCEPT !.buf = f]
  BY DEF Poke, f
<1>4. Poke(b, p, cells).buf = f
  BY <1>3 DEF Bufs, IsBuf
<1> QED
  BY <1>2, <1>4

LEMMA Halves ==
  ASSUME NEW C, NEW n \in Nat, NEW cells \in CellsOf(C, n), NEW s \in 0 .. n
  PROVE  /\ SubSeq(cells, 1, s) \in CellsOf(C, s)
         /\ \A i \in 1 .. s : SubSeq(cells, 1, s)[i] = cells[i]
         /\ SubSeq(cells, s + 1, Len(cells)) \in CellsOf(C, n - s)
         /\ \A i \in 1 .. n - s : SubSeq(cells, s + 1, Len(cells))[i] = cells[s + i]
<1>1. cells \in Seq(C) /\ Len(cells) = n
  BY DEF CellsOf
<1>2. SubSeq(cells, 1, s) \in CellsOf(C, s)
  BY <1>1 DEF CellsOf
<1>3. \A i \in 1 .. s : SubSeq(cells, 1, s)[i] = cells[i]
  BY <1>1
<1>4. SubSeq(cells, s + 1, Len(cells)) \in CellsOf(C, n - s)
  BY <1>1 DEF CellsOf
<1>5. \A i \in 1 .. n - s : SubSeq(cells, s + 1, Len(cells))[i] = cells[s + i]
  BY <1>1
<1> QED
  BY <1>2, <1>3, <1>4, <1>5

\* The places of the first L bytes and of the n bytes behind them.
LEMMA RingCuts ==
  ASSUME NEW P \in Nat, NEW S \in Nat, NEW L \in Nat, NEW n \in Nat, NEW p, NEW siz,
         P < S, L + n <= S, p = Ring(P, S, L), siz = S - p
  PROVE  /\ p \in Nat /\ p < S /\ siz \in Nat
         /\ \A j \in 0 .. S - 1 : Ring(P, S, j) \in 0 .. S - 1
BY DEF Ring

\* c is b with n cells stored behind its first L bytes, round its end.
Stored(c, b, C, d, P, l, S, L, n, cells) ==
  /\ IsBuf(c, C, d, P, l, S)
  /\ \A j \in 0 .. S - 1 : j < L \/ j >= L + n => c.buf[Ring(P, S, j)] = b.buf[Ring(P, S, j)]
  /\ \A k \in 1 .. n : c.buf[Ring(P, S, L + k - 1)] = cells[k]
  /\ \A i \in S .. d : c.buf[i] = b.buf[i]

LEMMA CopyFacts ==
  ASSUME NEW C, NEW d \in Int, NEW P \in Nat, NEW S \in Nat, NEW l \in Nat, NEW b, IsBuf(b, C, d, P, l, S),
         NEW L \in Nat, NEW n \in Nat, NEW cells \in CellsOf(C, n), NEW p, p = Ring(P, S, L),
         P < S, S <= d + 1, L + n <= S
  PROVE  Stored(Copy(b, p, cells), b, C, d, P, l, S, L, n, cells)
<1> DEFINE siz == S - p
<1>n. b \in Bufs(C, d)
  BY DEF IsBuf
<1>0. siz = S - p /\ p \in Nat /\ p < S /\ siz \in Nat
  BY RingCuts
<1>r. \A j \in 0 .. S - 1 : Ring(P, S, j) \in 0 .. S - 1
  BY RingCuts
<1> HIDE DEF siz
<1>4. CASE p >= P /\ siz < n
  <2> DEFINE h == SubSeq(cells, 1, siz)
             t == SubSeq(cells, siz + 1, Len(cells))
  <2>0. siz \in 0 .. n
    BY <1>0, <1>4
  <2>h. /\ h \in CellsOf(C, siz) /\ \A i \in 1 .. siz : h[i] = cells[i]
        /\ t \in CellsOf(C, n - siz) /\ \A i \in 1 .. n - siz : t[i] = cells[siz + i]
    <3>1. \A s \in 0 .. n :
             /\ SubSeq(cells, 1, s) \in CellsOf(C, s)
             /\ \A i \in 1 .. s : SubSeq(cells, 1, s)[i] = cells[i]
             /\ SubSeq(cells, s + 1, Len(cells)) \in CellsOf(C, n - s)
             /\ \A i \in 1 .. n - s : SubSeq(cells, s + 1, Len(cells))[i] = cells[s + i]
      BY Halves
    <3> QED
      BY <2>0, <3>1
  <2>1. h \in CellsOf(C, siz) /\ \A i \in 1 .. siz : h[i] = cells[i]
    BY <2>h
  <2>2. t \in CellsOf(C, n - siz) /\ \A i \in 1 .. n - siz : t[i] = cells[siz + i]
    BY <2>h
  <2>a. /\ \A j \in 0 .. S - 1 : j < L \/ j >= L + n => Ring(P, S, j) < p /\ Ring(P, S, j) >= n - siz
        /\ \A k \in 1 .. siz : Ring(P, S, L + k - 1) = p + k - 1 /\ p + k - 1 >= n - siz
        /\ \A k \in siz + 1 .. n : Ring(P, S, L + k - 1) = k - siz - 1
    <3>1. siz < n /\ p >= P
      BY <1>4
    <3> QED
      BY <1>0, <3>1 DEF Ring
  <2> HIDE DEF h, t
  <2> DEFINE u == Poke(b, p, h)
             r == Poke(u, 0, t)
  <2>3. IsBuf(u, C, d, P, l, S)
    BY <1>0, <2>1, PokeType
  <2>3a. \A i \in 0 .. d : /\ i >= p /\ i < p + siz => u.buf[i] = h[i - p + 1]
                           /\ i < p \/ i >= p + siz => u.buf[i] = b.buf[i]
    BY <1>0, <2>1, PokeAt
  <2>5. Copy(b, p, cells) = r
    BY <1>4 DEF Copy, IsBuf, r, u, h, t, CellsOf, siz
  <2> HIDE DEF u
  <2>4. IsBuf(r, C, d, P, l, S)
    BY <1>0, <1>4, <2>2, <2>3, PokeType
  <2>4a. \A i \in 0 .. d : /\ i >= 0 /\ i < 0 + (n - siz) => r.buf[i] = t[i - 0 + 1]
                           /\ i < 0 \/ i >= 0 + (n - siz) => r.buf[i] = u.buf[i]
    BY <1>0, <1>4, <2>2, <2>3, PokeAt
  <2> HIDE DEF r
  <2>b. \A i \in 0 .. d : i >= p /\ i < S /\ i >= n - siz => r.buf[i] = cells[i - p + 1]
    BY <1>0, <1>4, <2>1, <2>3a, <2>4a
  <2>c. \A i \in 0 .. d : i >= n - siz /\ (i < p \/ i >= S) => r.buf[i] = b.buf[i]
    BY <1>0, <1>4, <2>3a, <2>4a
  <2>d. \A i \in 0 .. d : i < n - siz => r.buf[i] = cells[siz + (i + 1)]
    <3> TAKE i \in 0 .. d
    <3> HAVE i < n - siz
    <3>1. r.buf[i] = t[i + 1]
      BY <2>4a, <1>0
    <3>2. i + 1 \in 1 .. n - siz
      BY <1>0
    <3> QED
      BY <3>1, <3>2, <2>2
  <2>6. \A j \in 0 .. S - 1 : j < L \/ j >= L + n => r.buf[Ring(P, S, j)] = b.buf[Ring(P, S, j)]
    BY <1>0, <1>r, <2>a, <2>c
  <2>7. \A k \in 1 .. n : r.buf[Ring(P, S, L + k - 1)] = cells[k]
    <3> TAKE k \in 1 .. n
    <3>0. Ring(P, S, L + k - 1) \in 0 .. S - 1
      BY <1>r
    <3>1. CASE k <= siz
      <4>1. Ring(P, S, L + k - 1) = p + k - 1 /\ p + k - 1 >= n - siz /\ p + k - 1 \in 0 .. d /\ p + k - 1 < S
        BY <2>a, <3>0, <3>1, <1>0
      <4> QED
        BY <4>1, <1>0, <2>b
    <3>2. CASE k > siz
      <4>1. Ring(P, S, L + k - 1) = k - siz - 1 /\ k - siz - 1 \in 0 .. d /\ k - siz - 1 < n - siz
        BY <2>a, <3>0, <3>2, <1>0
      <4> QED
        BY <4>1, <1>0, <2>d
    <3> QED
      BY <3>1, <3>2, <1>0
  <2>8. \A i \in S .. d : r.buf[i] = b.buf[i]
    BY <1>0, <1>4, <2>c
  <2> QED
    BY <2>4, <2>5, <2>6, <2>7, <2>8 DEF Stored
<1>5. CASE ~(p >= P /\ siz < n)
  <2> DEFINE r == Poke(b, p, cells)
  <2>1. IsBuf(r, C, d, P, l, S)
    BY <1>0, PokeType
  <2>1a. \A i \in 0 .. d : /\ i >= p /\ i < p + n => r.buf[i] = cells[i - p + 1]
                           /\ i < p \/ i >= p + n => r.buf[i] = b.buf[i]
    BY <1>0, PokeAt
  <2>2. Copy(b, p, cells) = r
    BY <1>5 DEF Copy, IsBuf, CellsOf, siz
  <2>a. /\ p + n <= S
        /\ \A j \in 0 .. S - 1 : j < L \/ j >= L + n => Ring(P, S, j) < p \/ Ring(P, S, j) >= p + n
        /\ \A k \in 1 .. n : Ring(P, S, L + k - 1) = p + k - 1
    BY <1>0, <1>5 DEF Ring
  <2> HIDE DEF r
  <2>3. \A j \in 0 .. S - 1 : j < L \/ j >= L + n => r.buf[Ring(P, S, j)] = b.buf[Ring(P, S, j)]
    BY <1>0, <1>r, <2>a, <2>1a
  <2>4. \A k \in 1 .. n : r.buf[Ring(P, S, L + k - 1)] = cells[k]
    <3> TAKE k \in 1 .. n
    <3>1. Ring(P, S, L + k - 1) = p + k - 1 /\ p + k - 1 \in 0 .. d /\ p + k - 1 >= p /\ p + k - 1 < p + n
      BY <1>0, <2>a
    <3>2. (p + k - 1) - p + 1 = k
      BY <1>0
    <3> QED
      BY <3>1, <3>2, <2>1a
  <2>5. \A i \in S .. d : r.buf[i] = b.buf[i]
    BY <1>0, <2>a, <2>1a
  <2> QED
    BY <2>1, <2>2, <2>3, <2>4, <2>5 DEF Stored
<1> QED
  BY <1>4, <1>5

----------------------------------------------------------------------------
(* Buffers of the writer *)

\* What io.c relies on about the sizes it allocates.
LEMMA Sizes ==
  /\ Hdr \in Nat /\ Hdr >= 1 /\ Unit \in Nat \ {0} /\ Unit >= Hdr
  /\ MaxLen \in Nat /\ MaxLen >= 1 /\ PipeCap \in Nat /\ PipeCap >= 1
  /\ OutSize \in Nat /\ OutSize >= MaxLen + Hdr /\ OutSize % Unit = 0
  /\ MsgSize \in Nat /\ MsgSize >= MaxLen + 2 * Hdr - 1 /\ MsgSize % Unit = 0
  /\ InSize \in Nat /\ InSize >= Hdr /\ InSize >= MaxLen
BY IoBufAssumption

\* A buffer of which A bytes and room for one more header are allocated, with
\* nothing in the latter.
Sound(b, A, P, l, S) ==
  /\ IsBuf(b, Cells, A + Hdr - 1, P, l, S)
  /\ \A i \in A .. A + Hdr - 1 : b.buf[i] = Blank

LEMMA Fields ==
  ASSUME NEW C, NEW d, NEW P, NEW l, NEW S, NEW b, IsBuf(b, C, d, P, l, S)
  PROVE  /\ \A x \in Nat : IsBuf([b EXCEPT !.pos = x], C, d, x, l, S) /\ [b EXCEPT !.pos = x].buf = b.buf
         /\ \A x \in Nat : IsBuf([b EXCEPT !.len = x], C, d, P, x, S) /\ [b EXCEPT !.len = x].buf = b.buf
         /\ \A x \in Nat : IsBuf([b EXCEPT !.size = x], C, d, P, l, x) /\ [b EXCEPT !.size = x].buf = b.buf
BY DEF IsBuf, Bufs

LEMMA SoundFields ==
  ASSUME NEW A, NEW P, NEW l, NEW S, NEW b, Sound(b, A, P, l, S)
  PROVE  /\ b.pos = P /\ b.len = l /\ b.size = S /\ P \in Nat /\ l \in Nat /\ S \in Nat
         /\ b.buf \in [0 .. A + Hdr - 1 -> Cells]
         /\ \A x \in Nat : Sound([b EXCEPT !.pos = x], A, x, l, S)
         /\ \A x \in Nat : Sound([b EXCEPT !.len = x], A, P, x, S)
         /\ \A x \in Nat : Sound([b EXCEPT !.size = x], A, P, l, x)
<1>1. b.pos = P /\ b.len = l /\ b.size = S /\ P \in Nat /\ l \in Nat /\ S \in Nat
      /\ b.buf \in [0 .. A + Hdr - 1 -> Cells]
  BY DEF Sound, IsBuf, Bufs
<1> QED
  BY <1>1, Fields DEF Sound

LEMMA Restored ==
  ASSUME NEW A \in Nat, A % Unit = 0, NEW P \in Nat, NEW l \in Nat, NEW S \in Nat, S <= A, A - Hdr < S,
         NEW b, Sound(b, A, P, l, S)
  PROVE  Sound(restore_iobuf_size(b), A, P, l, A)
<1>1. A - Unit < S
  BY Sizes
<1>2. /\ S % Unit = 0 => S = A
      /\ S % Unit # 0 => (S \div Unit + 1) * Unit = A
  BY <1>1, Sizes, RoundUp
<1>3. b.size = S
  BY SoundFields
<1>4. CASE S % Unit = 0
  BY <1>2, <1>3, <1>4 DEF restore_iobuf_size
<1>5. CASE S % Unit # 0
  <2>1. restore_iobuf_size(b) = [b EXCEPT !.size = A]
    BY <1>2, <1>3, <1>5 DEF restore_iobuf_size
  <2> QED
    BY <2>1, SoundFields
<1> QED
  BY <1>4, <1>5

LEMMA PokeSound ==
  ASSUME NEW A \in Nat, NEW P, NEW l, NEW S, NEW b, Sound(b, A, P, l, S),
         NEW p \in Nat, NEW n \in Nat, NEW cells \in CellsOf(Cells, n),
         p + n <= A \/ \A k \in 1 .. n : cells[k] = Blank
  PROVE  Sound(Poke(b, p, cells), A, P, l, S)
<1>1. IsBuf(b, Cells, A + Hdr - 1, P, l, S) /\ A + Hdr - 1 \in Int
  BY Sizes DEF Sound
<1>2. IsBuf(Poke(b, p, cells), Cells, A + Hdr - 1, P, l, S)
  BY <1>1, PokeType
<1>3. \A i \in A .. A + Hdr - 1 : Poke(b, p, cells).buf[i] = Blank
  <2> TAKE i \in A .. A + Hdr - 1
  <2>1. i \in 0 .. A + Hdr - 1 /\ b.buf[i] = Blank
    BY Sizes DEF Sound
  <2>2. /\ i >= p /\ i < p + n => Poke(b, p, cells).buf[i] = cells[i - p + 1]
        /\ i < p \/ i >= p + n => Poke(b, p, cells).buf[i] = b.buf[i]
    BY <1>1, <2>1, PokeAt
  <2> HIDE DEF Poke
  <2> QED
    BY <2>1, <2>2, Sizes
<1> QED
  BY <1>2, <1>3 DEF Sound

LEMMA BlanksAre ==
  ASSUME NEW n \in Nat
  PROVE  Blanks(n) \in CellsOf(Cells, n) /\ \A k \in 1 .. n : Blanks(n)[k] = Blank
BY DEF Blanks, CellsOf, Cells

LEMMA CopySound ==
  ASSUME NEW A \in Nat, NEW P \in Nat, NEW l \in Nat, NEW S \in Nat, NEW b, Sound(b, A, P, l, S),
         NEW L \in Nat, NEW n \in Nat, NEW cells \in CellsOf(Cells, n), NEW p, p = Ring(P, S, L),
         P < S, S <= A, L + n <= S
  PROVE  Sound(Copy(b, p, cells), A, P, l, S)
<1>1. IsBuf(b, Cells, A + Hdr - 1, P, l, S) /\ A + Hdr - 1 \in Int /\ S <= (A + Hdr - 1) + 1
  BY Sizes DEF Sound
<1>2. /\ IsBuf(Copy(b, p, cells), Cells, A + Hdr - 1, P, l, S)
      /\ \A i \in S .. A + Hdr - 1 : Copy(b, p, cells).buf[i] = b.buf[i]
  <2> DEFINE d == A + Hdr - 1
  <2>1. IsBuf(b, Cells, d, P, l, S) /\ d \in Int /\ S <= d + 1
    BY <1>1
  <2> HIDE DEF d
  <2>2. /\ IsBuf(Copy(b, p, cells), Cells, d, P, l, S)
        /\ \A i \in S .. d : Copy(b, p, cells).buf[i] = b.buf[i]
    <3>1. Stored(Copy(b, p, cells), b, Cells, d, P, l, S, L, n, cells)
      BY <2>1, CopyFacts, Zenon
    <3> QED
      BY <3>1 DEF Stored
  <2> QED
    BY <2>2 DEF d
<1>3. \A i \in A .. A + Hdr - 1 : i \in S .. A + Hdr - 1
  BY Sizes
<1> QED
  BY <1>2, <1>3 DEF Sound

\* b after n of its bytes have been written
LEMMA WrittenSound ==
  ASSUME NEW A \in Nat, A % Unit = 0, NEW P \in Nat, NEW l \in Nat, NEW S \in Nat, S <= A, A - Hdr < S,
         NEW b, Sound(b, A, P, l, S), NEW n \in Nat, n <= l, P + n <= S, NEW e \in Nat
  PROVE  /\ l - n = e \/ P + n = S => Sound(Written(b, n, e), A, 0, l - n, A)
         /\ l - n # e /\ P + n # S => Sound(Written(b, n, e), A, P + n, l - n, S)
<1> DEFINE f == Poke(b, b.pos, Blanks(n))
           c == IF b.pos + n = b.size THEN restore_iobuf_size([f EXCEPT !.pos = 0]) ELSE [f EXCEPT !.pos = @ + n]
           g == [c EXCEPT !.len = @ - n]
<1>0. /\ Written(b, n, e) = IF g.len = e THEN restore_iobuf_size([g EXCEPT !.pos = 0]) ELSE g
      /\ b.pos = P /\ b.size = S /\ l - n \in Nat /\ P + n \in Nat
  BY SoundFields DEF Written
<1>1. Sound(f, A, P, l, S)
  BY <1>0, PokeSound, BlanksAre
<1>2. f.pos = P /\ f.len = l
  BY <1>1, SoundFields
<1> HIDE DEF f
<1>3. CASE P + n = S
  <2>1. Sound([f EXCEPT !.pos = 0], A, 0, l, S)
    BY <1>1, SoundFields
  <2>2. Sound(c, A, 0, l, A)
    BY <2>1, <1>0, <1>3, Restored
  <2> HIDE DEF c
  <2>3. c.len = l
    BY <2>2 DEF Sound, IsBuf
  <2>4. Sound(g, A, 0, l - n, A)
    BY <1>0, <2>2, <2>3, SoundFields
  <2> HIDE DEF g
  <2>5. Sound([g EXCEPT !.pos = 0], A, 0, l - n, A)
    BY <2>4, SoundFields
  <2>6. Sound(restore_iobuf_size([g EXCEPT !.pos = 0]), A, 0, l - n, A)
    BY <2>5, <1>0, Restored, Sizes
  <2> QED
    BY <1>0, <1>3, <2>4, <2>6
<1>4. CASE P + n # S
  <2>1. Sound(c, A, P + n, l, S)
    BY <1>0, <1>1, <1>2, <1>4, SoundFields
  <2> HIDE DEF c
  <2>2. c.len = l
    BY <2>1 DEF Sound, IsBuf
  <2>3. Sound(g, A, P + n, l - n, S)
    BY <1>0, <2>1, <2>2, SoundFields
  <2> HIDE DEF g
  <2>4. g.len = l - n
    BY <2>3 DEF Sound, IsBuf
  <2>5. Sound([g EXCEPT !.pos = 0], A, 0, l - n, S)
    BY <2>3, SoundFields
  <2>6. Sound(restore_iobuf_size([g EXCEPT !.pos = 0]), A, 0, l - n, A)
    BY <2>5, <1>0, Restored
  <2> QED
    BY <1>0, <1>4, <2>3, <2>4, <2>6
<1> QED
  BY <1>3, <1>4

----------------------------------------------------------------------------
(* The raw data of the writer *)

\* What is left to write of the chunk that was begun.
ToWrite(P, E) == IF E = 0 THEN 0 ELSE E - P

\* A buffer from P on holds the rest of the chunk that was begun, the room for
\* the header of the next one at H, in one piece, and the bytes that wait for
\* it.  It is shorter than allocated only while a chunk is written that ends
\* where it ends.
OutNums(P, l, S, E, H) ==
  /\ P \in Nat /\ l \in Nat /\ S \in Nat /\ E \in Nat /\ H \in Nat
  /\ P < S /\ S <= OutSize /\ OutSize - Hdr < S
  /\ S # OutSize => E = S
  /\ E # 0 => P < E
  /\ ToWrite(P, E) <= S /\ ToWrite(P, E) + Hdr <= l
  /\ l > ToWrite(P, E) + Hdr => l <= S
  /\ l = Hdr => P = 0
  /\ H = Ring(P, S, ToWrite(P, E)) /\ H + Hdr <= S

\* room for a header at the end of the buffer, at its start or behind the chunk
LEMMA ChunkStarts ==
  ASSUME NEW P, NEW l, NEW S, NEW H, OutNums(P, l, S, 0, H), l > Hdr
  PROVE  /\ S = OutSize /\ H + Hdr <= S /\ l <= S
         /\ P + l < S /\ P + l + Hdr > S => OutNums(P, l + Hdr, P + l, P + l, 0)
         /\ P + l >= S => OutNums(P, l + Hdr, S, P + l, P + l - S)
         /\ P + l + Hdr <= S => OutNums(P, l + Hdr, S, P + l, P + l)
BY Sizes DEF OutNums, ToWrite, Ring

LEMMA ChunkWritten ==
  ASSUME NEW P, NEW l, NEW S, NEW E, NEW H, OutNums(P, l, S, E, H), E # 0,
         NEW n \in Nat, n >= 1, P + n <= E, P + n <= S
  PROVE  /\ n <= l
         /\ P + n = S /\ l - n = Hdr => OutNums(0, l - n, OutSize, E - S, 0)
         /\ P + n = S /\ l - n # Hdr => OutNums(0, l - n, OutSize, E - S, H)
         /\ P + n # S /\ P + n = E /\ l - n = Hdr => OutNums(0, l - n, OutSize, 0, 0)
         /\ P + n # S /\ P + n = E /\ l - n # Hdr => OutNums(P + n, l - n, S, 0, H)
         /\ P + n # S /\ P + n # E => l - n # Hdr /\ OutNums(P + n, l - n, S, E, H)
BY Sizes DEF OutNums, ToWrite, Ring

LEMMA RawAdded ==
  ASSUME NEW P, NEW l, NEW S, NEW E, NEW H, OutNums(P, l, S, E, H), NEW n \in Nat, n >= 1, l + n <= S
  PROVE  OutNums(P, l + n, S, E, H)
BY Sizes DEF OutNums, ToWrite, Ring

OutOK(b, E, H) ==
  \E P \in Nat, l \in Nat, S \in Nat : Sound(b, OutSize, P, l, S) /\ OutNums(P, l, S, E, H)

LEMMA RawCellsAre ==
  ASSUME NEW n \in Nat, NEW m \in Int
  PROVE  [k \in 1 .. n |-> RawCell(m + k)] \in CellsOf(Cells, n)
BY DEF RawCell, Cells, CellsOf

LEMMA HdrCellsAre ==
  ASSUME NEW c \in {"data", "msg"}, NEW i \in Int, NEW n \in Nat
  PROVE  HdrCells(c, i, n) \in CellsOf(Cells, Hdr)
BY Sizes DEF HdrCells, Cells, CellsOf

\* write_buf stores the raw bytes behind the others.
LEMMA PutRawOK ==
  ASSUME NEW E, NEW H, OutOK(out, E, H), NEW n \in Nat, n >= 1, OutRoom(n), PutRaw(n), nraw \in Nat
  PROVE  OutOK(out', E, H) /\ nraw' \in Nat
<1>1. PICK P \in Nat, l \in Nat, S \in Nat : Sound(out, OutSize, P, l, S) /\ OutNums(P, l, S, E, H)
  BY DEF OutOK
<1>2. out.pos = P /\ out.len = l /\ out.size = S
  BY <1>1 DEF Sound, IsBuf
<1>3. l + n <= S /\ P < S /\ S <= OutSize
  BY <1>1, <1>2 DEF OutRoom, OutNums
<1> DEFINE p == IF out.pos + out.len >= out.size THEN out.pos + out.len - out.size ELSE out.pos + out.len
           cells == [k \in 1 .. n |-> RawCell(nraw + k)]
           c == Copy(out, p, cells)
<1>4. p = Ring(P, S, l)
  BY <1>2, <1>3 DEF Ring
<1>5. cells \in CellsOf(Cells, n)
  <2>1. nraw \in Int
    OBVIOUS
  <2> QED
    BY <2>1, RawCellsAre, Zenon
<1>6. out' = [c EXCEPT !.len = @ + n] /\ nraw' = nraw + n
  BY DEF PutRaw
<1> HIDE DEF p, cells
<1>7. Sound(c, OutSize, P, l, S)
  BY <1>1, <1>3, <1>4, <1>5, Sizes, CopySound
<1> HIDE DEF c
<1>8. c.len = l
  BY <1>7 DEF Sound, IsBuf
<1>9. Sound(out', OutSize, P, l + n, S)
  BY <1>6, <1>7, <1>8, SoundFields
<1>10. OutNums(P, l + n, S, E, H)
  BY <1>1, <1>3, RawAdded
<1> QED
  <2>1. nraw' \in Nat /\ l + n \in Nat
    BY <1>6
  <2>2. OutOK(out', E, H)
    BY <1>9, <1>10, <2>1 DEF OutOK
  <2> QED
    BY <2>1, <2>2

\* perform_io begins a chunk: its header is filled in, and there is room for
\* the next one.
LEMMA StartChunkOK ==
  ASSUME NEW H, H = raw_data_header_pos, OutOK(out, 0, H), out.len > Hdr
  PROVE  OutOK(StartChunk.out, StartChunk.ends, StartChunk.hdr) /\ StartChunk.ends # 0
<1>1. PICK P \in Nat, l \in Nat, S \in Nat : Sound(out, OutSize, P, l, S) /\ OutNums(P, l, S, 0, H)
  BY DEF OutOK
<1>2. out.pos = P /\ out.len = l /\ out.size = S /\ l > Hdr
  BY <1>1 DEF Sound, IsBuf
<1>3. /\ S = OutSize /\ H + Hdr <= S /\ l <= S /\ H \in Nat
      /\ P + l < S /\ P + l + Hdr > S => OutNums(P, l + Hdr, P + l, P + l, 0)
      /\ P + l >= S => OutNums(P, l + Hdr, S, P + l, P + l - S)
      /\ P + l + Hdr <= S => OutNums(P, l + Hdr, S, P + l, P + l)
  <2>1. l > Hdr /\ H \in Nat
    BY <1>1, <1>2 DEF OutNums
  <2> QED
    BY <1>1, <2>1, ChunkStarts
<1>n. l - Hdr \in Nat /\ l + Hdr \in Nat /\ P + l \in Nat /\ P + l # 0 /\ Hdr \in Nat /\ 0 \in Int
  BY <1>2, Sizes
<1> DEFINE filled == Poke(out, raw_data_header_pos, HdrCells("data", 0, out.len - Hdr))
           wraps == HeaderWraps(out, out.pos + out.len)
           r == IF wraps THEN reduce_iobuf_size(filled, out.pos + out.len) ELSE filled
<1>4. /\ StartChunk.out = [r EXCEPT !.len = @ + Hdr]
      /\ StartChunk.ends = P + l
      /\ StartChunk.hdr = IF P + l >= S THEN P + l - S ELSE IF wraps THEN 0 ELSE P + l
  BY <1>2 DEF StartChunk
<1>5. wraps <=> P + l < S /\ P + l + Hdr > S
  BY <1>2 DEF HeaderWraps
<1>6. Sound(filled, OutSize, P, l, S)
  <2>1. HdrCells("data", 0, out.len - Hdr) \in CellsOf(Cells, Hdr)
    BY <1>2, <1>n, HdrCellsAre
  <2> QED
    BY <1>1, <1>3, <1>n, <2>1, Sizes, PokeSound
<1> HIDE DEF filled, wraps
<1>7. filled.size = S /\ filled.len = l
  BY <1>6 DEF Sound, IsBuf
<1>8. CASE wraps
  <2>1. r = [filled EXCEPT !.size = P + l]
    BY <1>2, <1>5, <1>7, <1>8 DEF reduce_iobuf_size
  <2>2. Sound(r, OutSize, P, l, P + l)
    BY <2>1, <1>6, <1>n, SoundFields
  <2> HIDE DEF r
  <2>3. r.len = l
    BY <2>2 DEF Sound, IsBuf
  <2>4. Sound(StartChunk.out, OutSize, P, l + Hdr, P + l)
    BY <2>2, <2>3, <1>4, <1>n, SoundFields
  <2>5. StartChunk.hdr = 0 /\ OutNums(P, l + Hdr, P + l, P + l, 0)
    BY <1>3, <1>4, <1>5, <1>8, <1>n, <1>1
  <2> QED
    BY <2>4, <2>5, <1>4, <1>n DEF OutOK
<1>9. CASE ~wraps
  <2>1. Sound(r, OutSize, P, l, S)
    BY <1>6, <1>9
  <2> HIDE DEF r
  <2>2. r.len = l
    BY <2>1 DEF Sound, IsBuf
  <2>3. Sound(StartChunk.out, OutSize, P, l + Hdr, S)
    BY <2>1, <2>2, <1>4, <1>n, SoundFields
  <2>4. OutNums(P, l + Hdr, S, P + l, StartChunk.hdr)
    BY <1>3, <1>4, <1>5, <1>9, <1>n, <1>1
  <2> QED
    BY <2>3, <2>4, <1>4, <1>n DEF OutOK
<1> QED
  BY <1>8, <1>9

\* perform_io writes n bytes of a chunk.
LEMMA ChunkWriteOK ==
  ASSUME NEW b, NEW E, NEW H, OutOK(b, E, H), E # 0, NEW n \in Nat, n >= 1,
         b.pos + n <= E, b.pos + n <= b.size, NEW E2, NEW H2,
         E2 = IF b.pos + n = b.size THEN E - b.size ELSE IF b.pos + n = E THEN 0 ELSE E,
         H2 = IF b.len - n = Hdr THEN 0 ELSE H
  PROVE  OutOK(Written(b, n, Hdr), E2, H2)
<1>1. PICK P \in Nat, l \in Nat, S \in Nat : Sound(b, OutSize, P, l, S) /\ OutNums(P, l, S, E, H)
  BY DEF OutOK
<1>2. b.pos = P /\ b.len = l /\ b.size = S
  BY <1>1 DEF Sound, IsBuf
<1>3. /\ n <= l
      /\ P + n = S /\ l - n = Hdr => OutNums(0, l - n, OutSize, E - S, 0)
      /\ P + n = S /\ l - n # Hdr => OutNums(0, l - n, OutSize, E - S, H)
      /\ P + n # S /\ P + n = E /\ l - n = Hdr => OutNums(0, l - n, OutSize, 0, 0)
      /\ P + n # S /\ P + n = E /\ l - n # Hdr => OutNums(P + n, l - n, S, 0, H)
      /\ P + n # S /\ P + n # E => l - n # Hdr /\ OutNums(P + n, l - n, S, E, H)
  <2>1. P + n <= E /\ P + n <= S
    BY <1>2
  <2> QED
    BY <1>1, <2>1, ChunkWritten, Zenon
<1>4. P + n <= S /\ S <= OutSize /\ OutSize - Hdr < S /\ OutSize \in Nat /\ OutSize % Unit = 0 /\ Hdr \in Nat
  BY <1>1, <1>2, Sizes DEF OutNums
<1>5. /\ l - n = Hdr \/ P + n = S => Sound(Written(b, n, Hdr), OutSize, 0, l - n, OutSize)
      /\ l - n # Hdr /\ P + n # S => Sound(Written(b, n, Hdr), OutSize, P + n, l - n, S)
  BY <1>1, <1>3, <1>4, WrittenSound
<1>6. /\ E2 = IF P + n = S THEN E - S ELSE IF P + n = E THEN 0 ELSE E
      /\ H2 = IF l - n = Hdr THEN 0 ELSE H
  BY <1>2
<1>7. l - n \in Nat /\ P + n \in Nat /\ 0 \in Nat
  BY <1>3
<1> QED
  BY <1>3, <1>4, <1>5, <1>6, <1>7, Zenon DEF OutOK

----------------------------------------------------------------------------
(* The messages of the writer *)

\* The buffer is shorter than allocated only while what it holds goes on at
\* its start; an empty one starts at its start.
MsgNums(A, P, l, S) ==
  /\ A \in Nat /\ P \in Nat /\ l \in Nat /\ S \in Nat
  /\ A % Unit = 0 /\ A >= MsgSize
  /\ P < S /\ S <= A /\ A - Hdr < S
  /\ S # A => P + l >= S
  /\ l <= S
  /\ l = 0 => P = 0

LEMMA Doubled ==
  ASSUME NEW A \in Nat, NEW u \in Nat \ {0}, A % u = 0
  PROVE  (2 * A) % u = 0
<1> DEFINE k == A \div u
           q == (2 * A) \div u
           r == (2 * A) % u
<1>1. A = u * k /\ k \in Nat
  BY Division
<1>2. 2 * A = u * q + r /\ r \in 0 .. u - 1 /\ q \in Nat
  <2>1. \A B \in Nat : B = u * (B \div u) + (B % u) /\ B % u \in 0 .. u - 1 /\ B \div u \in Nat
    BY Division
  <2>2. 2 * A \in Nat
    OBVIOUS
  <2> QED
    BY <2>1, <2>2, Zenon
<1> HIDE DEF k, q, r
<1>3. u * (2 * k) = 2 * A
  BY <1>1
<1>4. q = 2 * k
  BY <1>1, <1>2, <1>3, SameQuotient
<1> QED
  BY <1>2, <1>3, <1>4 DEF r

\* Where the header and the body of a message of n bytes go.
LEMMA MsgPlaces ==
  ASSUME NEW A, NEW P, NEW l, NEW S, MsgNums(A, P, l, S), NEW n \in Nat, l + n + Hdr + Hdr - 1 <= S,
         NEW w \in BOOLEAN, w <=> P + l < S /\ P + l + Hdr > S,
         NEW T, w => T = P + l, ~w => T = S,
         NEW p, p = IF P + l >= S THEN P + l - S ELSE IF w THEN 0 ELSE P + l
  PROVE  /\ p \in Nat /\ p + Hdr <= A /\ T \in Nat /\ P < T /\ T <= A /\ l + Hdr + n <= T
         /\ (IF p + Hdr = T THEN 0 ELSE p + Hdr) = Ring(P, T, l + Hdr)
         /\ MsgNums(A, P, l + Hdr + n, T)
<1>1. CASE w
  BY <1>1, Sizes DEF MsgNums, Ring
<1>2. CASE ~w
  BY <1>2, Sizes DEF MsgNums, Ring
<1> QED
  BY <1>1, <1>2

LEMMA MsgWritten ==
  ASSUME NEW A, NEW P, NEW l, NEW S, MsgNums(A, P, l, S), NEW n \in Nat, n >= 1, n <= l, P + n <= S
  PROVE  /\ l - n = 0 \/ P + n = S => MsgNums(A, 0, l - n, A)
         /\ l - n # 0 /\ P + n # S => MsgNums(A, P + n, l - n, S)
BY Sizes DEF MsgNums

LEMMA MsgGrown ==
  ASSUME NEW A, NEW P, NEW l, NEW S, MsgNums(A, P, l, S)
  PROVE  MsgNums(2 * A, P, l, 2 * A) /\ l + MsgSize <= 2 * A
<1>1. (2 * A) % Unit = 0
  BY Sizes, Doubled DEF MsgNums
<1> QED
  BY <1>1, Sizes DEF MsgNums

LEMMA MsgCellsAre ==
  ASSUME NEW i \in Int, NEW n \in Nat
  PROVE  MsgCells(i, n) \in CellsOf(Cells, n)
BY DEF MsgCells, Cells, CellsOf

\* send_msg stores the header in one piece, and the body behind it.
LEMMA PutMsgOK ==
  ASSUME NEW A, NEW P, NEW l, NEW S, NEW b, Sound(b, A, P, l, S), MsgNums(A, P, l, S),
         NEW n \in Nat, l + n + Hdr + Hdr - 1 <= S, NEW code \in {"data", "msg"}, nmsg \in Nat,
         PutMsg(b, code, n)
  PROVE  \E T \in Nat : Sound(msg', A, P, l + Hdr + n, T) /\ MsgNums(A, P, l + Hdr + n, T)
<1>1. b.pos = P /\ b.len = l /\ b.size = S /\ P \in Nat /\ l \in Nat /\ S \in Nat /\ A \in Nat
  BY DEF Sound, IsBuf, MsgNums
<1> DEFINE p0 == b.pos + b.len
           w == HeaderWraps(b, p0)
           r == IF w THEN reduce_iobuf_size(b, p0) ELSE b
           p == IF p0 >= b.size THEN p0 - b.size ELSE IF w THEN 0 ELSE p0
           q == IF p + Hdr = r.size THEN 0 ELSE p + Hdr
           h == Poke(r, p, HdrCells(code, nmsg + 1, n))
           c == Copy(h, q, MsgCells(nmsg + 1, n))
           T == IF w THEN P + l ELSE S
<1>2. msg' = [c EXCEPT !.len = @ + Hdr + n]
  BY DEF PutMsg
<1>3. /\ w \in BOOLEAN /\ (w <=> P + l < S /\ P + l + Hdr > S)
      /\ p = IF P + l >= S THEN P + l - S ELSE IF w THEN 0 ELSE P + l
  BY <1>1 DEF HeaderWraps
<1>4. (w => T = P + l) /\ (~w => T = S)
  OBVIOUS
<1>5. Sound(r, A, P, l, T) /\ r.size = T
  <2>1. CASE w
    <3>1. r = [b EXCEPT !.size = P + l] /\ P + l \in Nat
      BY <1>1, <1>3, <2>1 DEF reduce_iobuf_size
    <3>2. Sound([b EXCEPT !.size = P + l], A, P, l, P + l)
      BY <3>1, SoundFields
    <3>3. [b EXCEPT !.size = P + l].size = P + l
      BY <3>2 DEF Sound, IsBuf
    <3> QED
      BY <3>1, <3>2, <3>3, <2>1
  <2>2. CASE ~w
    BY <1>1, <2>2
  <2> QED
    BY <2>1, <2>2
<1> HIDE DEF r, p, w, T, p0
<1>6. /\ p \in Nat /\ p + Hdr <= A /\ T \in Nat /\ P < T /\ T <= A /\ l + Hdr + n <= T
      /\ (IF p + Hdr = T THEN 0 ELSE p + Hdr) = Ring(P, T, l + Hdr)
      /\ MsgNums(A, P, l + Hdr + n, T)
  BY <1>3, <1>4, MsgPlaces
<1>7. Sound(h, A, P, l, T)
  <2>1. HdrCells(code, nmsg + 1, n) \in CellsOf(Cells, Hdr)
    BY HdrCellsAre
  <2> QED
    BY <1>1, <1>5, <1>6, <2>1, Sizes, PokeSound
<1>8. q = Ring(P, T, l + Hdr)
  BY <1>5, <1>6
<1> HIDE DEF h, q
<1>9. Sound(c, A, P, l, T)
  <2>1. MsgCells(nmsg + 1, n) \in CellsOf(Cells, n)
    BY MsgCellsAre
  <2>2. l + Hdr \in Nat
    BY <1>1, Sizes
  <2> QED
    BY <1>1, <1>6, <1>7, <1>8, <2>1, <2>2, CopySound
<1> HIDE DEF c
<1>10. c.len = l
  BY <1>9 DEF Sound, IsBuf
<1>11. Sound(msg', A, P, l + Hdr + n, T)
  <2>1. l + Hdr + n \in Nat /\ msg' = [c EXCEPT !.len = l + Hdr + n]
    BY <1>1, <1>2, <1>10, Sizes
  <2>2. Sound([c EXCEPT !.len = l + Hdr + n], A, P, l + Hdr + n, T)
    BY <1>9, <2>1, SoundFields, Zenon
  <2> QED
    BY <2>1, <2>2, Zenon
<1> QED
  BY <1>6, <1>11

\* Grown: twice the size, and what had wrapped is put behind the rest.
LEMMA GrownOK ==
  ASSUME NEW A, NEW P, NEW l, NEW S, NEW b, Sound(b, A, P, l, S), MsgNums(A, P, l, S)
  PROVE  Sound(Grown(b), 2 * A, P, l, 2 * A)
<1>1. /\ b.pos = P /\ b.len = l /\ b.size = S /\ P \in Nat /\ l \in Nat /\ S \in Nat /\ A \in Nat
      /\ P < S /\ S <= A /\ A - Hdr < S /\ l <= S /\ A % Unit = 0 /\ A >= Hdr /\ 2 * A \in Nat
  BY Sizes DEF Sound, IsBuf, MsgNums
<1> DEFINE r == restore_iobuf_size(b)
           f == [i \in 0 .. (2 * r.size + Hdr - 1) |-> IF i \in DOMAIN r.buf THEN r.buf[i] ELSE Blank]
           g == [r EXCEPT !.size = 2 * @, !.buf = f]
           wrapped == b.pos + b.len - b.size
           moved == [k \in 1 .. wrapped |-> g.buf[k - 1]]
<1>2. Grown(b) = IF wrapped > 0 THEN Poke(g, b.size, moved) ELSE g
  BY DEF Grown
<1>3. Sound(r, A, P, l, A)
  BY <1>1, Restored
<1> HIDE DEF r
<1>4. /\ r.size = A /\ r.pos = P /\ r.len = l /\ DOMAIN r.buf = 0 .. A + Hdr - 1 /\ r.buf \in [0 .. A + Hdr - 1 -> Cells]
      /\ r \in Bufs(Cells, A + Hdr - 1)
  BY <1>3 DEF Sound, IsBuf, Bufs
<1>5. /\ f \in [0 .. 2 * A + Hdr - 1 -> Cells]
      /\ \A i \in 2 * A .. 2 * A + Hdr - 1 : f[i] = Blank
  <2>1. Blank \in Cells
    BY DEF Cells
  <2>2. f = [i \in 0 .. 2 * A + Hdr - 1 |-> IF i \in 0 .. A + Hdr - 1 THEN r.buf[i] ELSE Blank]
    BY <1>4
  <2>3. \A i \in 2 * A .. 2 * A + Hdr - 1 : i \in 0 .. 2 * A + Hdr - 1 /\ i \notin 0 .. A + Hdr - 1
    BY <1>1, Sizes
  <2>4. r.buf \in [0 .. A + Hdr - 1 -> Cells]
    BY <1>4
  <2> HIDE DEF f
  <2> QED
    BY <2>1, <2>2, <2>3, <2>4
<1> HIDE DEF f
<1>6. Sound(g, 2 * A, P, l, 2 * A) /\ g.buf = f
  <2>1. g = [r EXCEPT !.size = 2 * A, !.buf = f]
    BY <1>4
  <2>2. g.buf = f /\ g.size = 2 * A /\ g.pos = P /\ g.len = l /\ g \in Bufs(Cells, 2 * A + Hdr - 1)
    BY <2>1, <1>1, <1>4, <1>5 DEF Bufs
  <2> HIDE DEF g
  <2> QED
    BY <2>2, <1>5 DEF Sound, IsBuf
<1> HIDE DEF g
<1>7. ASSUME wrapped > 0
      PROVE  Sound(Poke(g, b.size, moved), 2 * A, P, l, 2 * A)
  <2>1. wrapped = P + l - S /\ wrapped \in Nat /\ S + wrapped <= 2 * A
    BY <1>1, <1>7
  <2>2. \A k \in 1 .. wrapped : k - 1 \in 0 .. 2 * A + Hdr - 1
    BY <1>1, <2>1, Sizes
  <2> HIDE DEF wrapped
  <2>3. \A k \in 1 .. wrapped : g.buf[k - 1] \in Cells
    BY <1>5, <1>6, <2>2
  <2>4. moved \in CellsOf(Cells, wrapped)
    BY <2>1, <2>3 DEF CellsOf
  <2> HIDE DEF moved
  <2> QED
    BY <1>1, <1>6, <2>1, <2>4, PokeSound
<1> QED
  BY <1>2, <1>6, <1>7

\* What is in a buffer of A bytes, and how often it can have grown.
MsgCount(A, l, m) == l <= m * (OutSize + MsgSize) /\ A <= (m + 1) * (OutSize + MsgSize) * 4

LEMMA Products ==
  ASSUME NEW n \in Nat, NEW k \in Nat
  PROVE  /\ n * k \in Nat /\ (n + 1) * k = n * k + k
         /\ (n + 1) * k * 4 = 4 * (n * k) + 4 * k
         /\ ((n + 1) + 1) * k * 4 = 4 * (n * k) + 8 * k
OBVIOUS

LEMMA CountGrows ==
  ASSUME NEW A \in Nat, NEW l \in Nat, NEW m \in Nat, MsgCount(A, l, m), NEW n \in 0 .. MaxLen
  PROVE  /\ MsgCount(A, l + Hdr + n, m + 1)
         /\ A < l + n + 3 * Hdr => MsgCount(2 * A, l + Hdr + n, m + 1)
<1> DEFINE k == OutSize + MsgSize
           x == m * k
<1>1. k \in Nat /\ Hdr + n <= k /\ n + 3 * Hdr <= k + 1 /\ Hdr \in Nat /\ n \in Nat
  BY Sizes
<1> HIDE DEF k
<1>2. /\ x \in Nat /\ (m + 1) * k = x + k
      /\ (m + 1) * k * 4 = 4 * x + 4 * k
      /\ ((m + 1) + 1) * k * 4 = 4 * x + 8 * k
  BY <1>1, Products
<1>3. l <= x /\ A <= 4 * x + 4 * k
  BY <1>2 DEF MsgCount, k
<1> HIDE DEF x
<1>4. l + Hdr + n <= x + k /\ A <= 4 * x + 8 * k
  BY <1>1, <1>2, <1>3
<1>5. A < l + n + 3 * Hdr => 2 * A <= 4 * x + 8 * k
  BY <1>1, <1>2, <1>3
<1> QED
  BY <1>2, <1>4, <1>5 DEF MsgCount, k

MsgOK(b, m, A) ==
  \E P \in Nat, l \in Nat, S \in Nat : Sound(b, A, P, l, S) /\ MsgNums(A, P, l, S) /\ MsgCount(A, l, m)

\* send_msg, once there is room
LEMMA SendOK ==
  ASSUME NEW A, nmsg \in Nat, MsgOK(msg, nmsg, A), NEW n \in 0 .. MaxLen, NEW code \in {"data", "msg"},
         PutMsg(msg, code, n), MsgRoom(Needed(n)) \/ (msg.len = 0 /\ n = 0)
  PROVE  MsgOK(msg', nmsg', A) /\ msg'.len = msg.len + Hdr + n
<1>1. PICK P \in Nat, l \in Nat, S \in Nat : Sound(msg, A, P, l, S) /\ MsgNums(A, P, l, S) /\ MsgCount(A, l, nmsg)
  BY DEF MsgOK
<1>2. msg.len = l /\ msg.size = S
  BY <1>1 DEF Sound, IsBuf
<1>3. l + n + Hdr + Hdr - 1 <= S /\ A \in Nat /\ n \in Nat
  BY <1>1, <1>2, Sizes DEF MsgRoom, Needed, MsgNums
<1>4. PICK T \in Nat : Sound(msg', A, P, l + Hdr + n, T) /\ MsgNums(A, P, l + Hdr + n, T)
  BY <1>1, <1>3, PutMsgOK
<1>5. MsgCount(A, l + Hdr + n, nmsg + 1)
  BY <1>1, <1>3, CountGrows
<1>6. nmsg' = nmsg + 1
  BY DEF PutMsg
<1>7. l + Hdr + n \in Nat
  BY <1>3, Sizes
<1>8. msg'.len = l + Hdr + n
  BY <1>4 DEF Sound, IsBuf
<1>9. MsgOK(msg', nmsg + 1, A)
  BY <1>4, <1>5, <1>7 DEF MsgOK
<1> QED
  BY <1>2, <1>6, <1>8, <1>9

\* send_msg of the receiver, when there is none
LEMMA GrowOK ==
  ASSUME NEW A, nmsg \in Nat, MsgOK(msg, nmsg, A), NEW n \in 0 .. MaxLen,
         PutMsg(Grown(msg), "msg", n), ~MsgRoom(Needed(n))
  PROVE  MsgOK(msg', nmsg', 2 * A)
<1>1. PICK P \in Nat, l \in Nat, S \in Nat : Sound(msg, A, P, l, S) /\ MsgNums(A, P, l, S) /\ MsgCount(A, l, nmsg)
  BY DEF MsgOK
<1>2. msg.len = l /\ msg.size = S
  BY <1>1 DEF Sound, IsBuf
<1>3. A < l + n + 3 * Hdr /\ A \in Nat /\ n \in Nat
  BY <1>1, <1>2, Sizes DEF MsgRoom, Needed, MsgNums
<1>4. Sound(Grown(msg), 2 * A, P, l, 2 * A) /\ MsgNums(2 * A, P, l, 2 * A) /\ l + MsgSize <= 2 * A
  BY <1>1, GrownOK, MsgGrown
<1>5. l + n + Hdr + Hdr - 1 <= 2 * A
  BY <1>3, <1>4, Sizes
<1>6. PICK T \in Nat : Sound(msg', 2 * A, P, l + Hdr + n, T) /\ MsgNums(2 * A, P, l + Hdr + n, T)
  BY <1>3, <1>4, <1>5, PutMsgOK
<1>7. MsgCount(2 * A, l + Hdr + n, nmsg + 1)
  BY <1>1, <1>3, CountGrows
<1>8. nmsg' = nmsg + 1
  BY DEF PutMsg
<1>9. l + Hdr + n \in Nat
  BY <1>3, Sizes
<1> QED
  BY <1>6, <1>7, <1>8, <1>9 DEF MsgOK

\* perform_io writes n bytes of the messages.
LEMMA MsgWriteOK ==
  ASSUME NEW A, nmsg \in Nat, MsgOK(msg, nmsg, A), NEW n \in Nat, n >= 1, n <= msg.len, msg.pos + n <= msg.size
  PROVE  MsgOK(Written(msg, n, 0), nmsg, A)
<1>1. PICK P \in Nat, l \in Nat, S \in Nat : Sound(msg, A, P, l, S) /\ MsgNums(A, P, l, S) /\ MsgCount(A, l, nmsg)
  BY DEF MsgOK
<1>2. msg.len = l /\ msg.size = S /\ msg.pos = P
  BY <1>1 DEF Sound, IsBuf
<1>3. n <= l /\ P + n <= S
  BY <1>2
<1>4. A \in Nat /\ A % Unit = 0 /\ S <= A /\ A - Hdr < S /\ l - n \in Nat /\ P + n \in Nat /\ 0 \in Nat
  BY <1>1, <1>3 DEF MsgNums
<1>5. /\ l - n = 0 \/ P + n = S => Sound(Written(msg, n, 0), A, 0, l - n, A)
      /\ l - n # 0 /\ P + n # S => Sound(Written(msg, n, 0), A, P + n, l - n, S)
  BY <1>1, <1>3, <1>4, WrittenSound
<1>6. /\ l - n = 0 \/ P + n = S => MsgNums(A, 0, l - n, A)
      /\ l - n # 0 /\ P + n # S => MsgNums(A, P + n, l - n, S)
  BY <1>1, <1>3, MsgWritten
<1>7. MsgCount(A, l - n, nmsg)
  <2> DEFINE x == nmsg * (OutSize + MsgSize)
  <2>1. x \in Nat /\ l <= x
    BY <1>1, Sizes, Products DEF MsgCount
  <2> HIDE DEF x
  <2>2. l - n <= x
    BY <2>1, <1>4
  <2> QED
    BY <2>2, <1>1 DEF MsgCount, x
<1> QED
  BY <1>4, <1>5, <1>6, <1>7 DEF MsgOK

----------------------------------------------------------------------------
(* The writer *)

\* What the writer waits for: no more than an empty buffer has.
WopOK(w, A) ==
  /\ w.op \in {"idle", "input", "write", "send", "flush", "flushfull", "flushmsg", "lull"}
  /\ w.op = "write" => w.n \in 1 .. MaxLen
  /\ w.op = "send" => w.n \in 0 .. MaxLen
  /\ w.op \in {"flush", "flushfull"} => w.n \in Int /\ w.n <= OutSize - Hdr
  /\ w.op \in {"flushmsg", "lull"} => w.n \in Int /\ w.n <= A

CountOK(s, m) == s \in Seq(Int) /\ Len(s) = m /\ m \in Nat
PipeOK(p) == p \in Seq(Cells)

WriterOK(A) ==
  /\ OutOK(out, raw_flushing_ends_before, raw_data_header_pos) /\ nraw \in Nat
  /\ MsgOK(msg, nmsg, A) /\ CountOK(msgLen, nmsg) /\ WopOK(wop, A)

LEMMA IdleOK == ASSUME NEW A PROVE WopOK(Idle, A)
BY DEF WopOK, Idle

LEMMA OutFacts ==
  ASSUME NEW b, NEW E, NEW H, OutOK(b, E, H)
  PROVE  /\ b.pos \in Nat /\ b.len \in Nat /\ b.size \in Nat /\ E \in Nat
         /\ b.pos < b.size /\ b.size <= OutSize /\ OutSize - Hdr < b.size /\ b.len >= Hdr
         /\ E # 0 => b.len > Hdr
         /\ E = 0 => b.size = OutSize
         /\ b.buf \in [0 .. OutSize + Hdr - 1 -> Cells]
         /\ \A i \in OutSize .. OutSize + Hdr - 1 : b.buf[i] = Blank
<1>1. PICK P \in Nat, l \in Nat, S \in Nat : Sound(b, OutSize, P, l, S) /\ OutNums(P, l, S, E, H)
  BY DEF OutOK
<1>2. b.len = l /\ b.size = S /\ b.pos = P
  BY <1>1 DEF Sound, IsBuf
<1>3. /\ E \in Nat /\ P < S /\ S <= OutSize /\ OutSize - Hdr < S /\ l >= Hdr /\ (E # 0 => l > Hdr)
      /\ (E = 0 => S = OutSize)
  BY <1>1, Sizes DEF OutNums, ToWrite
<1>4. /\ b.buf \in [0 .. OutSize + Hdr - 1 -> Cells]
      /\ \A i \in OutSize .. OutSize + Hdr - 1 : b.buf[i] = Blank
  BY <1>1 DEF Sound, IsBuf, Bufs
<1> QED
  BY <1>2, <1>3, <1>4

LEMMA MsgFacts ==
  ASSUME NEW b, NEW m, NEW A, MsgOK(b, m, A)
  PROVE  /\ b.pos \in Nat /\ b.len \in Nat /\ b.size \in Nat /\ A \in Nat
         /\ b.pos < b.size /\ b.size <= A /\ A - Hdr < b.size /\ A >= MsgSize /\ A % Unit = 0
         /\ b.len = 0 => b.size = A
         /\ A <= (m + 1) * (OutSize + MsgSize) * 4
         /\ b.buf \in [0 .. A + Hdr - 1 -> Cells]
         /\ \A i \in A .. A + Hdr - 1 : b.buf[i] = Blank
         /\ restore_iobuf_size(b).size = A
<1>1. PICK P \in Nat, l \in Nat, S \in Nat : Sound(b, A, P, l, S) /\ MsgNums(A, P, l, S) /\ MsgCount(A, l, m)
  BY DEF MsgOK
<1>2. b.len = l /\ b.size = S /\ b.pos = P
  BY <1>1 DEF Sound, IsBuf
<1>3. /\ A \in Nat /\ P < S /\ S <= A /\ A - Hdr < S /\ A >= MsgSize /\ A % Unit = 0
      /\ (l = 0 => S = A)
  BY <1>1, Sizes DEF MsgNums
<1>4. /\ b.buf \in [0 .. A + Hdr - 1 -> Cells]
      /\ \A i \in A .. A + Hdr - 1 : b.buf[i] = Blank
  BY <1>1 DEF Sound, IsBuf, Bufs
<1>5. A <= (m + 1) * (OutSize + MsgSize) * 4
  BY <1>1 DEF MsgCount
<1>6. Sound(restore_iobuf_size(b), A, P, l, A)
  BY <1>1, <1>3, Restored
<1>7. restore_iobuf_size(b).size = A
  BY <1>6 DEF Sound, IsBuf
<1> QED
  BY <1>2, <1>3, <1>4, <1>5, <1>7

LEMMA CountAppend ==
  ASSUME NEW s, NEW m, CountOK(s, m), NEW x \in Int
  PROVE  CountOK(Append(s, x), m + 1)
BY DEF CountOK

LEMMA PutMsgCounts ==
  ASSUME NEW b, NEW c, NEW n \in 0 .. MaxLen, PutMsg(b, c, n), CountOK(msgLen, nmsg)
  PROVE  CountOK(msgLen', nmsg') /\ UNCHANGED <<out, nraw>>
<1>1. KeepAlive \in Int /\ n \in Int
  BY DEF KeepAlive
<1>2. msgLen' = Append(msgLen, IF c = "data" THEN KeepAlive ELSE n) /\ nmsg' = nmsg + 1 /\ UNCHANGED <<out, nraw>>
  BY DEF PutMsg
<1>3. (IF c = "data" THEN KeepAlive ELSE n) \in Int
  BY <1>1
<1> QED
  BY <1>2, <1>3, CountAppend

LEMMA write_buf_OK ==
  ASSUME NEW A, WriterOK(A), NEW n \in 1 .. MaxLen, write_buf(n)
  PROVE  WriterOK(A)'
<1>1. UNCHANGED <<raw_data_header_pos, raw_flushing_ends_before>>
  BY DEF write_buf
<1>2. CASE OutRoom(n)
  <2>1. PutRaw(n) /\ wop' = wop /\ n \in Nat /\ n >= 1
    BY <1>2, Sizes DEF write_buf
  <2>2. UNCHANGED <<msg, nmsg, msgLen>>
    BY <2>1 DEF PutRaw
  <2>3. OutOK(out', raw_flushing_ends_before, raw_data_header_pos) /\ nraw' \in Nat
    BY <1>2, <2>1, PutRawOK DEF WriterOK
  <2> QED
    BY <1>1, <2>1, <2>2, <2>3 DEF WriterOK
<1>3. CASE ~OutRoom(n)
  <2>1. wop' = [op |-> "write", n |-> n] /\ UNCHANGED <<out, msg, nraw, nmsg, stamp, msgLen>>
    BY <1>3 DEF write_buf
  <2>2. WopOK(wop', A)
    BY <2>1 DEF WopOK
  <2> QED
    BY <1>1, <2>1, <2>2 DEF WriterOK
<1> QED
  BY <1>2, <1>3

LEMMA send_msg_OK ==
  ASSUME NEW A, WriterOK(A), NEW n \in 0 .. MaxLen, send_msg(n)
  PROVE  \E B \in Nat : WriterOK(B)'
<1>0. A \in Nat /\ nmsg \in Nat /\ CountOK(msgLen, nmsg)
  BY MsgFacts DEF WriterOK, CountOK
<1>1. UNCHANGED <<raw_data_header_pos, raw_flushing_ends_before>> /\ wop = Idle
  BY DEF send_msg
<1>2. CASE MsgRoom(Needed(n))
  <2>1. PutMsg(msg, "msg", n) /\ wop' = wop
    BY <1>2 DEF send_msg
  <2>2. MsgOK(msg', nmsg', A)
    <3>1. MsgOK(msg, nmsg, A)
      BY DEF WriterOK
    <3>2. "msg" \in {"data", "msg"}
      OBVIOUS
    <3>3. MsgRoom(Needed(n)) \/ (msg.len = 0 /\ n = 0)
      BY <1>2, Zenon
    <3> QED
      BY <1>0, <2>1, <3>1, <3>2, <3>3, SendOK, Zenon
  <2>3. CountOK(msgLen', nmsg') /\ UNCHANGED <<out, nraw>>
    BY <1>0, <2>1, PutMsgCounts
  <2>4. WriterOK(A)'
    BY <1>1, <2>1, <2>2, <2>3 DEF WriterOK
  <2> QED
    BY <1>0, <2>4
<1>3. CASE ~MsgRoom(Needed(n)) /\ am_receiver
  <2>1. PutMsg(Grown(msg), "msg", n) /\ wop' = wop
    BY <1>3 DEF send_msg
  <2>2. MsgOK(msg', nmsg', 2 * A)
    BY <1>0, <1>3, <2>1, GrowOK DEF WriterOK
  <2>3. CountOK(msgLen', nmsg') /\ UNCHANGED <<out, nraw>>
    BY <1>0, <2>1, PutMsgCounts
  <2>4. WopOK(wop', 2 * A)
    BY <1>1, <2>1, IdleOK
  <2>5. WriterOK(2 * A)'
    BY <1>1, <2>1, <2>2, <2>3, <2>4 DEF WriterOK
  <2> QED
    BY <1>0, <2>5
<1>4. CASE ~MsgRoom(Needed(n)) /\ ~am_receiver
  <2>1. wop' = [op |-> "send", n |-> n] /\ UNCHANGED <<out, msg, nraw, nmsg, stamp, msgLen>>
    BY <1>4 DEF send_msg
  <2>2. WopOK(wop', A)
    BY <2>1 DEF WopOK
  <2>3. WriterOK(A)'
    BY <1>1, <2>1, <2>2 DEF WriterOK
  <2> QED
    BY <1>0, <2>3
<1> QED
  BY <1>2, <1>3, <1>4

LEMMA maybe_send_keepalive_OK ==
  ASSUME NEW A, WriterOK(A), NEW f \in BOOLEAN, maybe_send_keepalive(f)
  PROVE  WriterOK(A)'
<1>0. nmsg \in Nat /\ CountOK(msgLen, nmsg) /\ MsgOK(msg, nmsg, A)
  BY DEF WriterOK, CountOK
<1>1. UNCHANGED <<raw_data_header_pos, raw_flushing_ends_before>>
  BY DEF maybe_send_keepalive
<1>2. wop' = CASE ~f -> Idle
              [] f /\ msg'.len > 0 -> [op |-> "lull", n |-> msg'.size - msg'.len + 1]
              [] OTHER -> [op |-> "flush", n |-> out.size - out.len + 1]
  BY DEF maybe_send_keepalive
<1>3. /\ out.len \in Nat /\ out.size \in Nat /\ out.len >= Hdr /\ out.size <= OutSize
      /\ Hdr \in Nat /\ Hdr >= 1 /\ OutSize \in Nat
  BY OutFacts, Sizes DEF WriterOK
<1>4. ASSUME MsgOK(msg', nmsg', A), msg'.len = 0 => out.len # Hdr
      PROVE  WopOK(wop', A)
  <2>1. msg'.len \in Nat /\ msg'.size \in Nat /\ msg'.size <= A /\ A \in Nat
    BY <1>4, MsgFacts
  <2>2. CASE ~f
    BY <1>2, <2>2, IdleOK
  <2>3. CASE f /\ msg'.len > 0
    <3>1. wop' = [op |-> "lull", n |-> msg'.size - msg'.len + 1]
      BY <1>2, <2>3
    <3>2. msg'.size - msg'.len + 1 \in Int /\ msg'.size - msg'.len + 1 <= A
      BY <2>1, <2>3
    <3> QED
      BY <3>1, <3>2 DEF WopOK
  <2>4. CASE f /\ ~(msg'.len > 0)
    <3>1. wop' = [op |-> "flush", n |-> out.size - out.len + 1]
      BY <1>2, <2>4
    <3>2. msg'.len = 0
      BY <2>1, <2>4
    <3>3. out.size - out.len + 1 \in Int /\ out.size - out.len + 1 <= OutSize - Hdr
      BY <1>3, <1>4, <3>2
    <3> QED
      BY <3>1, <3>3 DEF WopOK
  <2> QED
    BY <2>2, <2>3, <2>4
<1>5. CASE msg.len = 0 /\ out.len = Hdr
  <2>1. PutMsg(msg, "data", 0)
    BY <1>5 DEF maybe_send_keepalive
  <2>2. 0 \in 0 .. MaxLen
    BY Sizes
  <2>3. "data" \in {"data", "msg"} /\ (MsgRoom(Needed(0)) \/ (msg.len = 0 /\ 0 = 0))
    BY <1>5
  <2>4. MsgOK(msg', nmsg', A) /\ msg'.len = msg.len + Hdr + 0
    BY <1>0, <2>1, <2>2, <2>3, SendOK, Zenon
  <2>5. CountOK(msgLen', nmsg') /\ UNCHANGED <<out, nraw>>
    BY <1>0, <2>1, <2>2, PutMsgCounts
  <2>6. msg'.len # 0
    BY <1>3, <1>5, <2>4
  <2>7. WopOK(wop', A)
    BY <1>4, <2>4, <2>6
  <2> QED
    BY <1>1, <2>4, <2>5, <2>7 DEF WriterOK
<1>6. CASE ~(msg.len = 0 /\ out.len = Hdr)
  <2>1. UNCHANGED <<out, msg, nraw, nmsg, stamp, msgLen>>
    BY <1>6 DEF maybe_send_keepalive
  <2>2. MsgOK(msg', nmsg', A) /\ (msg'.len = 0 => out.len # Hdr)
    BY <1>0, <1>6, <2>1
  <2>3. WopOK(wop', A)
    BY <1>4, <2>2
  <2> QED
    BY <1>1, <2>1, <2>3 DEF WriterOK
<1> QED
  BY <1>5, <1>6

LEMMA FlushMsgsOK ==
  ASSUME NEW A, MsgOK(msg, nmsg, A)
  PROVE  WopOK(FlushMsgs, A)
<1>1. msg.size \in Int /\ msg.size <= A
  BY MsgFacts
<1>2. CASE msg.len > 0
  <2>1. FlushMsgs = [op |-> "flushmsg", n |-> msg.size]
    BY <1>2 DEF FlushMsgs
  <2> QED
    BY <1>1, <2>1 DEF WopOK
<1>3. CASE ~(msg.len > 0)
  BY <1>3, IdleOK DEF FlushMsgs
<1> QED
  BY <1>2, <1>3

LEMMA io_flush_OK ==
  ASSUME NEW A, WriterOK(A), NEW t, io_flush(t)
  PROVE  WriterOK(A)'
<1>1. UNCHANGED <<out, msg, raw_data_header_pos, raw_flushing_ends_before, nraw, nmsg, msgLen>>
  BY DEF io_flush
<1>2. wop' = IF out.len > Hdr /\ t # "msg"
             THEN IF t = "full" THEN [op |-> "flushfull", n |-> out.size - Hdr]
                                ELSE [op |-> "flush", n |-> out.size - out.len + 1]
             ELSE FlushMsgs
  BY DEF io_flush
<1>3. out.len \in Nat /\ out.size \in Nat /\ out.size <= OutSize /\ Hdr \in Nat /\ OutSize \in Nat
  BY OutFacts, Sizes DEF WriterOK
<1>4. WopOK(FlushMsgs, A)
  BY FlushMsgsOK DEF WriterOK
<1>5. CASE out.len > Hdr /\ t # "msg"
  <2>1. /\ out.size - Hdr \in Int /\ out.size - Hdr <= OutSize - Hdr
        /\ out.size - out.len + 1 \in Int /\ out.size - out.len + 1 <= OutSize - Hdr
    BY <1>3, <1>5
  <2>2. WopOK(wop', A)
    BY <1>2, <1>5, <2>1 DEF WopOK
  <2> QED
    BY <1>1, <2>2 DEF WriterOK
<1>6. CASE ~(out.len > Hdr /\ t # "msg")
  BY <1>1, <1>2, <1>4, <1>6 DEF WriterOK
<1> QED
  BY <1>5, <1>6

LEMMA AwaitInputOK ==
  ASSUME NEW A, WriterOK(A), AwaitInput
  PROVE  WriterOK(A)'
BY DEF AwaitInput, WriterOK, WopOK

LEMMA ResumeOK ==
  ASSUME NEW A, WriterOK(A), Resume
  PROVE  WriterOK(A)'
<1>0. /\ nmsg \in Nat /\ CountOK(msgLen, nmsg) /\ MsgOK(msg, nmsg, A) /\ WopOK(wop, A)
      /\ OutOK(out, raw_flushing_ends_before, raw_data_header_pos) /\ nraw \in Nat
  BY DEF WriterOK, CountOK
<1>1. UNCHANGED <<raw_data_header_pos, raw_flushing_ends_before>>
  BY DEF Resume
<1>2. WopOK(Idle, A) /\ WopOK(FlushMsgs, A)
  BY <1>0, IdleOK, FlushMsgsOK
<1>3. CASE wop.op = "write" /\ PutRaw(wop.n) /\ wop' = Idle
  <2>1. OutRoom(wop.n)
    BY <1>3 DEF Resume, Satisfied
  <2>2. wop.n \in Nat /\ wop.n >= 1
    BY <1>0, <1>3, Sizes DEF WopOK
  <2>3. OutOK(out', raw_flushing_ends_before, raw_data_header_pos) /\ nraw' \in Nat
    BY <1>0, <1>3, <2>1, <2>2, PutRawOK
  <2>4. UNCHANGED <<msg, nmsg, msgLen>>
    BY <1>3 DEF PutRaw
  <2> QED
    BY <1>0, <1>1, <1>2, <1>3, <2>3, <2>4 DEF WriterOK
<1>4. CASE wop.op = "send" /\ PutMsg(msg, "msg", wop.n) /\ wop' = Idle
  <2>1. MsgRoom(Needed(wop.n))
    BY <1>4 DEF Resume, Satisfied
  <2>2. wop.n \in 0 .. MaxLen
    BY <1>0, <1>4 DEF WopOK
  <2>3. "msg" \in {"data", "msg"}
    OBVIOUS
  <2>4. MsgOK(msg', nmsg', A)
    <3>1. MsgRoom(Needed(wop.n)) \/ (msg.len = 0 /\ wop.n = 0)
      BY <2>1, Zenon
    <3> QED
      BY <1>0, <1>4, <3>1, <2>2, <2>3, SendOK, Zenon
  <2>5. CountOK(msgLen', nmsg') /\ UNCHANGED <<out, nraw>>
    BY <1>0, <1>4, <2>2, PutMsgCounts
  <2> QED
    BY <1>0, <1>1, <1>2, <1>4, <2>4, <2>5 DEF WriterOK
<1>5. CASE /\ UNCHANGED <<out, msg, nraw, nmsg, stamp, msgLen>> /\ wop' \in {Idle, FlushMsgs}
  BY <1>0, <1>1, <1>2, <1>5 DEF WriterOK
<1> QED
  BY <1>3, <1>4, <1>5 DEF Resume

LEMMA PipeFacts ==
  ASSUME NEW p, PipeOK(p)
  PROVE  /\ Len(p) \in Nat
         /\ \A n \in Nat : \A c \in CellsOf(Cells, n) : PipeOK(p \o c)
         /\ \A n \in 0 .. Len(p) : SubSeq(p, 1, n) \in CellsOf(Cells, n) /\ PipeOK(SubSeq(p, n + 1, Len(p)))
<1>1. p \in Seq(Cells) /\ Len(p) \in Nat
  BY DEF PipeOK
<1>2. \A n \in Nat : \A c \in CellsOf(Cells, n) : PipeOK(p \o c)
  BY <1>1 DEF PipeOK, CellsOf
<1>3. ASSUME NEW n \in 0 .. Len(p)
      PROVE  SubSeq(p, 1, n) \in CellsOf(Cells, n) /\ PipeOK(SubSeq(p, n + 1, Len(p)))
  BY <1>1 DEF PipeOK, CellsOf
<1> QED
  BY <1>1, <1>2, <1>3

\* the n bytes at the start of a buffer
LEMMA FirstBytes ==
  ASSUME NEW d \in Int, NEW f \in [0 .. d -> Cells], NEW P \in Nat, NEW n \in Nat, P + n <= d + 1
  PROVE  [k \in 1 .. n |-> f[P + k - 1]] \in CellsOf(Cells, n)
<1>1. \A k \in 1 .. n : P + k - 1 \in 0 .. d
  OBVIOUS
<1>2. \A k \in 1 .. n : f[P + k - 1] \in Cells
  BY <1>1
<1> QED
  BY <1>2 DEF CellsOf

LEMMA PerformWriteOK ==
  ASSUME NEW A, WriterOK(A), PipeOK(pipe), PerformWrite
  PROVE  WriterOK(A)' /\ PipeOK(pipe')
<1>0. /\ nmsg \in Nat /\ CountOK(msgLen, nmsg) /\ MsgOK(msg, nmsg, A) /\ WopOK(wop, A)
      /\ OutOK(out, raw_flushing_ends_before, raw_data_header_pos) /\ nraw \in Nat
  BY DEF WriterOK, CountOK
<1>1. UNCHANGED <<wop, nraw, nmsg, msgLen>>
  BY DEF PerformWrite
<1>2. PipeCap - Len(pipe) \in Int
  BY PipeFacts, Sizes
<1>3. CASE OutFirst
  <2> DEFINE c == IF raw_flushing_ends_before = 0 THEN StartChunk
                  ELSE [out |-> out, hdr |-> raw_data_header_pos, ends |-> raw_flushing_ends_before]
             o == c.out
             len == Min({c.ends - o.pos, o.size - o.pos})
  <2>1. PICK n \in 1 .. Min({len, PipeCap - Len(pipe)}) :
          /\ pipe' = pipe \o [k \in 1 .. n |-> o.buf[o.pos + k - 1]]
          /\ out' = Written(o, n, Hdr)
          /\ raw_flushing_ends_before' = IF o.pos + n = o.size THEN c.ends - o.size
                                         ELSE IF o.pos + n = c.ends THEN 0 ELSE c.ends
          /\ raw_data_header_pos' = IF o.len - n = Hdr THEN 0 ELSE c.hdr
          /\ UNCHANGED msg
    BY <1>3, Zenon DEF PerformWrite
  <2>2. OutOK(o, c.ends, c.hdr) /\ c.ends # 0
    <3>1. CASE raw_flushing_ends_before = 0
      <4>1. out.len > Hdr
        BY <1>3, <3>1 DEF OutFirst
      <4>2. OutOK(out, 0, raw_data_header_pos)
        BY <1>0, <3>1
      <4>3. OutOK(StartChunk.out, StartChunk.ends, StartChunk.hdr) /\ StartChunk.ends # 0
        BY <4>1, <4>2, StartChunkOK
      <4> QED
        BY <3>1, <4>3, Zenon
    <3>2. CASE raw_flushing_ends_before # 0
      BY <1>0, <3>2
    <3> QED
      BY <3>1, <3>2
  <2> HIDE DEF c, o
  <2>3. /\ o.pos \in Nat /\ o.len \in Nat /\ o.size \in Nat /\ c.ends \in Nat /\ o.size <= OutSize
        /\ o.buf \in [0 .. OutSize + Hdr - 1 -> Cells]
    BY <2>2, OutFacts
  <2>4. n \in Nat /\ n >= 1 /\ o.pos + n <= c.ends /\ o.pos + n <= o.size
    <3> DEFINE x == c.ends - o.pos
               y == o.size - o.pos
               z == PipeCap - Len(pipe)
    <3>1. x \in Int /\ y \in Int /\ z \in Int
      BY <2>3, <1>2
    <3>2. len = IF x <= y THEN x ELSE y
      BY <3>1, Minimum2
    <3>3. len \in Int
      BY <3>1, <3>2
    <3>4. Min({len, z}) = IF len <= z THEN len ELSE z
      BY <3>1, <3>3, Minimum2
    <3> HIDE DEF len, z
    <3>5. n \in Nat /\ n >= 1 /\ n <= x /\ n <= y
      BY <3>1, <3>2, <3>3, <3>4 DEF z
    <3> QED
      BY <2>3, <3>5
  <2>5. OutOK(out', raw_flushing_ends_before', raw_data_header_pos')
    BY <2>1, <2>2, <2>4, ChunkWriteOK
  <2>6. PipeOK(pipe')
    <3>1. [k \in 1 .. n |-> o.buf[o.pos + k - 1]] \in CellsOf(Cells, n)
      <4>1. OutSize + Hdr - 1 \in Int /\ o.pos + n <= (OutSize + Hdr - 1) + 1
        BY <2>3, <2>4, Sizes
      <4> QED
        BY <2>3, <2>4, <4>1, FirstBytes
    <3> QED
      BY <2>1, <2>4, <3>1, PipeFacts
  <2> QED
    BY <1>0, <1>1, <2>1, <2>5, <2>6 DEF WriterOK
<1>4. CASE ~OutFirst
  <2>1. /\ msg.pos \in Nat /\ msg.len \in Nat /\ msg.size \in Nat /\ msg.size <= A /\ A \in Nat
        /\ msg.buf \in [0 .. A + Hdr - 1 -> Cells]
    BY <1>0, MsgFacts
  <2>2. PICK n \in 1 .. Min({msg.len, msg.size - msg.pos, PipeCap - Len(pipe)}) :
          /\ pipe' = pipe \o [k \in 1 .. n |-> msg.buf[msg.pos + k - 1]]
          /\ msg' = Written(msg, n, 0)
          /\ UNCHANGED <<out, raw_data_header_pos, raw_flushing_ends_before>>
    BY <1>4, Zenon DEF PerformWrite
  <2>3. n \in Nat /\ n >= 1 /\ n <= msg.len /\ msg.pos + n <= msg.size
    <3> DEFINE x == msg.len
               y == msg.size - msg.pos
               z == PipeCap - Len(pipe)
               m == Min({x, y, z})
    <3>1. x \in Int /\ y \in Int /\ z \in Int
      BY <2>1, <1>2
    <3>2. m \in {x, y, z} /\ m <= x /\ m <= y
      BY <3>1, Minimum3
    <3>3. n \in 1 .. m
      OBVIOUS
    <3> HIDE DEF m, z
    <3>4. n \in Nat /\ n >= 1 /\ n <= x /\ n <= y
      BY <3>1, <3>2, <3>3 DEF z
    <3> QED
      BY <2>1, <3>4
  <2>4. MsgOK(msg', nmsg, A)
    BY <1>0, <2>2, <2>3, MsgWriteOK
  <2>5. PipeOK(pipe')
    <3>1. [k \in 1 .. n |-> msg.buf[msg.pos + k - 1]] \in CellsOf(Cells, n)
      <4>1. A + Hdr - 1 \in Int /\ msg.pos + n <= (A + Hdr - 1) + 1
        BY <2>1, <2>3, Sizes
      <4> QED
        BY <2>1, <2>3, <4>1, FirstBytes
    <3> QED
      BY <2>2, <2>3, <3>1, PipeFacts
  <2> QED
    BY <1>0, <1>1, <2>2, <2>4, <2>5 DEF WriterOK
<1> QED
  BY <1>3, <1>4

----------------------------------------------------------------------------
(* The reader *)

InNums(P, l, E) ==
  /\ P \in Nat /\ l \in Nat /\ E \in Nat
  /\ P < InSize /\ l <= InSize
  /\ E # 0 => P < E
InOK(b, E) == \E P \in Nat, l \in Nat : IsBuf(b, Cells, InSize - 1, P, l, InSize) /\ InNums(P, l, E)

\* A header is read between the chunks, raw data only from one.
RopOK(r, P, E) ==
  \/ r = Idle
  \/ /\ r.op \in {"hdr", "raw", "body"} /\ r.n \in Nat
     /\ r.op = "hdr" => r.n = Hdr /\ E = 0
     /\ r.op = "raw" => E # 0 /\ P + r.n <= E
     /\ r.op = "body" => E = 0
ReaderOK == InOK(in, raw_input_ends_before) /\ RopOK(rop, in.pos, raw_input_ends_before) /\ PipeOK(pipe)

LEMMA InFacts ==
  ASSUME NEW b, NEW E, InOK(b, E)
  PROVE  /\ b.pos \in Nat /\ b.len \in Nat /\ b.size = InSize /\ E \in Nat
         /\ b.pos < InSize /\ b.len <= InSize /\ (E # 0 => b.pos < E)
         /\ b.buf \in [0 .. InSize - 1 -> Cells]
<1>1. PICK P \in Nat, l \in Nat : IsBuf(b, Cells, InSize - 1, P, l, InSize) /\ InNums(P, l, E)
  BY DEF InOK
<1>2. b.pos = P /\ b.len = l /\ b.size = InSize /\ b.buf \in [0 .. InSize - 1 -> Cells]
  BY <1>1 DEF IsBuf, Bufs
<1>3. E \in Nat /\ P < InSize /\ l <= InSize /\ (E # 0 => P < E)
  BY <1>1 DEF InNums
<1> QED
  BY <1>2, <1>3

\* An empty buffer starts over at its start, and the end of the chunk moves
\* with it.
LEMMA ResetOK ==
  ASSUME InOK(in, raw_input_ends_before)
  PROVE  /\ InOK(in0, ends0)
         /\ raw_input_ends_before = 0 => ends0 = 0
         /\ raw_input_ends_before # 0 =>
              ends0 # 0 /\ ends0 - in0.pos = raw_input_ends_before - in.pos
<1> DEFINE E == raw_input_ends_before
<1>1. PICK P \in Nat, l \in Nat : IsBuf(in, Cells, InSize - 1, P, l, InSize) /\ InNums(P, l, E)
  BY DEF InOK
<1>2. in.pos = P /\ in.len = l
  BY <1>1 DEF IsBuf
<1>3. CASE Reset
  <2>1. in0 = [in EXCEPT !.pos = 0] /\ ends0 = IF E # 0 THEN E - P ELSE E
    BY <1>2, <1>3 DEF in0, ends0
  <2>2. IsBuf(in0, Cells, InSize - 1, 0, l, InSize)
    BY <1>1, <2>1, Fields
  <2>3. in0.pos = 0
    BY <2>2 DEF IsBuf
  <2>4. InNums(0, l, ends0)
    BY <1>1, <2>1, Sizes DEF InNums
  <2>5. E \in Nat /\ (E # 0 => P < E)
    BY <1>1 DEF InNums
  <2>6. InOK(in0, ends0)
    BY <2>2, <2>4 DEF InOK
  <2> QED
    BY <1>2, <2>1, <2>3, <2>5, <2>6
<1>4. CASE ~Reset
  BY <1>4 DEF in0, ends0
<1> QED
  BY <1>3, <1>4

LEMMA read_buf_OK ==
  ASSUME ReaderOK, NEW n \in 1 .. MaxLen, read_buf(n)
  PROVE  ReaderOK'
<1>1. /\ InOK(in0, ends0)
      /\ raw_input_ends_before = 0 => ends0 = 0
      /\ raw_input_ends_before # 0 => ends0 # 0 /\ ends0 - in0.pos = raw_input_ends_before - in.pos
  BY ResetOK DEF ReaderOK
<1>2. /\ in.pos \in Nat /\ in.size = InSize /\ raw_input_ends_before \in Nat
      /\ (raw_input_ends_before # 0 => in.pos < raw_input_ends_before)
      /\ in0.pos \in Nat /\ ends0 \in Nat
  BY <1>1, InFacts DEF ReaderOK
<1>3. PipeOK(pipe')
  BY DEF read_buf, ReaderOK
<1>4. CASE raw_input_ends_before = 0
  <2>1. Call("hdr", Hdr, "none", 0)
    BY <1>4 DEF read_buf
  <2>2. in' = in0 /\ raw_input_ends_before' = ends0 /\ rop'.op = "hdr" /\ rop'.n = Hdr
    BY <2>1 DEF Call
  <2>3. RopOK(rop', in'.pos, raw_input_ends_before')
    BY <1>1, <1>4, <2>2, Sizes DEF RopOK
  <2> QED
    BY <1>1, <1>3, <2>2, <2>3 DEF ReaderOK
<1>5. CASE raw_input_ends_before # 0
  <2> DEFINE x == raw_input_ends_before - in.pos
             m == Min({n, x, in.size})
  <2>1. Call("raw", m, "none", 0)
    BY <1>5 DEF read_buf
  <2>2. in' = in0 /\ raw_input_ends_before' = ends0 /\ rop'.op = "raw" /\ rop'.n = m
    BY <2>1 DEF Call
  <2>3. x \in Nat /\ n \in Nat /\ InSize \in Nat
    BY <1>2, <1>5, Sizes
  <2>4. m \in {n, x, InSize} /\ m <= x
    <3>1. m = Min({n, x, InSize})
      BY <1>2
    <3> HIDE DEF m, x
    <3>2. n \in Int /\ x \in Int /\ InSize \in Int
      BY <2>3
    <3>3. Min({n, x, InSize}) \in {n, x, InSize} /\ Min({n, x, InSize}) <= x
      BY <3>2, Minimum3, Zenon
    <3> QED
      BY <3>1, <3>3
  <2> HIDE DEF m
  <2>5. m \in Nat /\ in0.pos + m <= ends0
    BY <1>1, <1>2, <1>5, <2>3, <2>4
  <2>6. RopOK(rop', in'.pos, raw_input_ends_before')
    BY <1>1, <1>5, <2>2, <2>5 DEF RopOK
  <2> QED
    BY <1>1, <1>3, <2>2, <2>6 DEF ReaderOK
<1> QED
  BY <1>4, <1>5

LEMMA PerformReadOK ==
  ASSUME ReaderOK, PerformRead
  PROVE  ReaderOK'
<1> DEFINE b == IF rop = Idle THEN in0 ELSE in
           E == IF rop = Idle THEN ends0 ELSE raw_input_ends_before
           p == IF b.pos + b.len >= b.size THEN b.pos + b.len - b.size ELSE b.pos + b.len
           len == IF b.pos + b.len >= b.size THEN b.size - b.len ELSE b.size - p
<1>1. PICK n \in 1 .. Min({len, Len(pipe)}) :
        /\ in' = [Poke(b, p, SubSeq(pipe, 1, n)) EXCEPT !.len = @ + n]
        /\ pipe' = SubSeq(pipe, n + 1, Len(pipe))
  BY Zenon DEF PerformRead
<1>2. rop' = rop /\ raw_input_ends_before' = E /\ b.len < b.size
  BY DEF PerformRead
<1>3. InOK(b, E)
  <2>1. InOK(in0, ends0) /\ InOK(in, raw_input_ends_before)
    BY ResetOK DEF ReaderOK
  <2> QED
    BY <2>1
<1>4. RopOK(rop, b.pos, E)
  BY DEF ReaderOK, RopOK
<1> HIDE DEF b, E
<1>5. PICK P \in Nat, l \in Nat : IsBuf(b, Cells, InSize - 1, P, l, InSize) /\ InNums(P, l, E)
  BY <1>3 DEF InOK
<1>6. b.pos = P /\ b.len = l /\ b.size = InSize
  BY <1>5 DEF IsBuf
<1>7. Len(pipe) \in Nat /\ InSize \in Nat
  BY PipeFacts, Sizes DEF ReaderOK
<1>8. n \in 0 .. Len(pipe) /\ n \in Nat /\ p \in Nat /\ l + n <= InSize
  <2>1. P < InSize /\ l < InSize
    BY <1>2, <1>5, <1>6 DEF InNums
  <2>2. /\ p = IF P + l >= InSize THEN P + l - InSize ELSE P + l
        /\ len = IF P + l >= InSize THEN InSize - l ELSE InSize - p
    BY <1>6
  <2> HIDE DEF p, len
  <2>3. p \in Nat /\ len \in Int /\ l + len <= InSize
    BY <2>1, <2>2, <1>7
  <2>4. Min({len, Len(pipe)}) = IF len <= Len(pipe) THEN len ELSE Len(pipe)
    BY <2>3, <1>7, Minimum2
  <2> DEFINE k == Len(pipe)
  <2>5. n \in 1 .. IF len <= k THEN len ELSE k
    BY <2>4
  <2>6. k \in Nat
    BY <1>7
  <2> HIDE DEF k
  <2>7. n \in 0 .. k /\ n \in Nat /\ l + n <= InSize
    BY <2>3, <2>5, <2>6, <1>7
  <2> QED
    BY <2>3, <2>7 DEF k
<1> HIDE DEF p, len
<1>9. SubSeq(pipe, 1, n) \in CellsOf(Cells, n) /\ PipeOK(pipe')
  BY <1>1, <1>8, PipeFacts DEF ReaderOK
<1> DEFINE c == Poke(b, p, SubSeq(pipe, 1, n))
<1>10. IsBuf(c, Cells, InSize - 1, P, l, InSize)
  BY <1>5, <1>7, <1>8, <1>9, PokeType
<1>11. in' = [c EXCEPT !.len = @ + n]
  BY <1>1
<1> HIDE DEF c
<1>12. c.len = l
  BY <1>10 DEF IsBuf
<1>13. IsBuf(in', Cells, InSize - 1, P, l + n, InSize) /\ l + n \in Nat
  BY <1>8, <1>10, <1>11, <1>12, Fields
<1>14. in'.pos = P
  BY <1>13 DEF IsBuf
<1>15. InNums(P, l + n, E)
  BY <1>5, <1>8 DEF InNums
<1>16. InOK(in', E)
  BY <1>13, <1>15 DEF InOK
<1> QED
  BY <1>2, <1>4, <1>6, <1>9, <1>14, <1>16 DEF ReaderOK

\* What read_a_msg sees first is a byte that was stored.
LEMMA FirstCell ==
  ASSUME InOK(in, raw_input_ends_before), NEW n \in Nat, n >= 1, n <= in.len
  PROVE  RawRead(n)[1] \in Cells
<1>1. /\ in.pos \in Nat /\ in.size = InSize /\ in.pos < InSize /\ in.len <= InSize /\ in.len \in Nat
      /\ in.buf \in [0 .. InSize - 1 -> Cells] /\ InSize \in Nat
  BY InFacts, Sizes
<1> DEFINE pos == ConsumedPos(n)
           siz == n - pos
<1>2. siz <= 0 => pos = in.pos + n
  BY <1>1 DEF ConsumedPos
<1>3. pos \in Int /\ siz \in Int
  BY <1>1 DEF ConsumedPos
<1>4. 1 \in 1 .. n /\ in.pos + 1 - 1 = in.pos
  BY <1>1
<1>5. CASE ~rop.direct /\ pos <= rop.pos0 /\ n > 0
  <2>1. RawRead(n) = [k \in 1 .. n |-> IF k <= siz THEN in.buf[in.pos + k - 1] ELSE in.buf[k - siz - 1]]
    BY <1>5 DEF RawRead
  <2> HIDE DEF pos, siz
  <2>2. RawRead(n)[1] = IF 1 <= siz THEN in.buf[in.pos + 1 - 1] ELSE in.buf[1 - siz - 1]
    BY <2>1, <1>4
  <2>3. ~(1 <= siz) => 1 - siz - 1 = in.pos
    BY <1>1, <1>2, <1>3 DEF siz
  <2>4. RawRead(n)[1] = in.buf[in.pos]
    BY <2>2, <2>3, <1>4
  <2> QED
    BY <2>4, <1>1
<1>6. CASE ~(~rop.direct /\ pos <= rop.pos0 /\ n > 0)
  <2>1. RawRead(n) = [k \in 1 .. n |-> in.buf[in.pos + k - 1]]
    BY <1>6 DEF RawRead
  <2>2. RawRead(n)[1] = in.buf[in.pos]
    BY <2>1, <1>4
  <2> QED
    BY <2>2, <1>1
<1> QED
  BY <1>5, <1>6

LEMMA HeaderCell ==
  ASSUME NEW c \in Cells, c # Blank, c[1] = "hdr"
  PROVE  c[4] \in Nat
BY DEF Cells, Blank

LEMMA ConsumeOK ==
  ASSUME ReaderOK, Consume
  PROVE  ReaderOK'
<1> DEFINE n == rop.n
           data == RawRead(n)
           pos == ConsumedPos(n)
           IsHdr(code) == rop.op = "hdr" /\ data[1] # Blank /\ data[1][1] = "hdr" /\ data[1][2] = code
           c == Copy(in, in.pos, Blanks(n))
           E == raw_input_ends_before
<1>1. /\ rop # Idle /\ in.len >= n /\ in' = [c EXCEPT !.pos = pos, !.len = @ - n] /\ pipe' = pipe
  BY DEF Consume
<1>2. /\ rop.op \in {"hdr", "raw", "body"} /\ n \in Nat
      /\ rop.op = "hdr" => n = Hdr /\ E = 0
      /\ rop.op = "raw" => E # 0 /\ in.pos + n <= E
      /\ rop.op = "body" => E = 0
  BY <1>1 DEF ReaderOK, RopOK
<1>3. \/ /\ IsHdr("data")
         /\ raw_input_ends_before' = IF data[1][4] = 0 THEN 0 ELSE pos + data[1][4]
         /\ rop' = Idle
      \/ /\ IsHdr("msg")
         /\ rop' = [op |-> "body", n |-> data[1][4], code |-> "msg", id |-> data[1][3], pos0 |-> pos, direct |-> FALSE]
         /\ raw_input_ends_before' = 0
      \/ /\ rop.op = "body" /\ rop' = Idle /\ raw_input_ends_before' = 0
      \/ /\ rop' = Idle /\ raw_input_ends_before' = ConsumedEnds(n)
  BY DEF Consume
<1>4. InOK(in, E)
  BY DEF ReaderOK
<1>5. rop.op = "hdr" => data[1] \in Cells
  BY <1>1, <1>2, <1>4, FirstCell, Sizes
<1>6. \A code \in {"data", "msg"} : IsHdr(code) => data[1][4] \in Nat
  BY <1>5, HeaderCell
<1> HIDE DEF data
<1>7. PICK P \in Nat, l \in Nat : IsBuf(in, Cells, InSize - 1, P, l, InSize) /\ InNums(P, l, E)
  BY <1>4 DEF InOK
<1>8. in.pos = P /\ in.len = l /\ in.size = InSize
  BY <1>7 DEF IsBuf
<1>9. /\ P < InSize /\ l <= InSize /\ n <= l /\ E \in Nat /\ (E # 0 => P < E) /\ InSize \in Nat /\ l - n \in Nat
      /\ rop.op = "raw" => E # 0 /\ P + n <= E
  BY <1>1, <1>2, <1>7, <1>8, Sizes DEF InNums
<1>10. /\ pos = (IF P + n >= InSize THEN P + n - InSize ELSE P + n)
       /\ pos \in Nat /\ pos < InSize
  BY <1>2, <1>8, <1>9 DEF ConsumedPos
<1>11. ConsumedEnds(n) = IF P + n = E \/ E = 0 THEN 0 ELSE IF P + n >= InSize THEN E - InSize ELSE E
  BY <1>8 DEF ConsumedEnds
<1> HIDE DEF pos, n, E
<1>12. IsBuf(c, Cells, InSize - 1, P, l, InSize)
  <2>1. in.pos = Ring(P, InSize, 0)
    BY <1>8, <1>9 DEF Ring
  <2>2. Blanks(n) \in CellsOf(Cells, n)
    BY <1>2, BlanksAre
  <2> DEFINE d == InSize - 1
  <2>3. d \in Int /\ InSize <= d + 1 /\ 0 + n <= InSize /\ 0 \in Nat /\ n \in Nat /\ P < InSize /\ InSize \in Nat
    BY <1>2, <1>9
  <2>4. IsBuf(in, Cells, d, P, l, InSize)
    BY <1>7
  <2> HIDE DEF d
  <2>5. Stored(c, in, Cells, d, P, l, InSize, 0, n, Blanks(n))
    BY <2>1, <2>2, <2>3, <2>4, CopyFacts, Zenon
  <2> QED
    BY <2>5 DEF Stored, d
<1> HIDE DEF c
<1>13. IsBuf(in', Cells, InSize - 1, pos, l - n, InSize)
  <2>1. c.len = l
    BY <1>12 DEF IsBuf
  <2>2. in' = [[c EXCEPT !.pos = pos] EXCEPT !.len = l - n]
    BY <1>1, <1>12, <2>1 DEF IsBuf, Bufs
  <2>3. IsBuf([c EXCEPT !.pos = pos], Cells, InSize - 1, pos, l, InSize)
    BY <1>10, <1>12, Fields
  <2> QED
    BY <1>9, <2>2, <2>3, Fields
<1>14. in'.pos = pos
  BY <1>13 DEF IsBuf
<1>15. ASSUME NEW F \in Nat, F # 0 => pos < F
       PROVE  InOK(in', F)
  <2>1. InNums(pos, l - n, F)
    BY <1>9, <1>10, <1>15, <1>2 DEF InNums
  <2> QED
    BY <1>9, <1>10, <1>13, <2>1 DEF InOK
<1>16. RopOK(Idle, in'.pos, raw_input_ends_before')
  BY DEF RopOK
<1>17. CASE /\ IsHdr("data")
            /\ raw_input_ends_before' = IF data[1][4] = 0 THEN 0 ELSE pos + data[1][4]
            /\ rop' = Idle
  <2>1. data[1][4] \in Nat
    BY <1>6, <1>17
  <2>2. raw_input_ends_before' \in Nat /\ (raw_input_ends_before' # 0 => pos < raw_input_ends_before')
    BY <1>10, <1>17, <2>1
  <2> QED
    BY <1>1, <1>15, <1>16, <1>17, <2>2 DEF ReaderOK
<1>18. CASE /\ IsHdr("msg")
            /\ rop' = [op |-> "body", n |-> data[1][4], code |-> "msg", id |-> data[1][3], pos0 |-> pos, direct |-> FALSE]
            /\ raw_input_ends_before' = 0
  <2>1. data[1][4] \in Nat
    BY <1>6, <1>18
  <2>2. RopOK(rop', in'.pos, 0)
    BY <1>18, <2>1 DEF RopOK
  <2>3. InOK(in', 0)
    BY <1>15
  <2> QED
    BY <1>1, <1>18, <2>2, <2>3 DEF ReaderOK
<1>19. CASE rop.op = "body" /\ rop' = Idle /\ raw_input_ends_before' = 0
  <2>1. InOK(in', 0)
    BY <1>15
  <2> QED
    BY <1>1, <1>16, <1>19, <2>1 DEF ReaderOK
<1>20. CASE rop' = Idle /\ raw_input_ends_before' = ConsumedEnds(n)
  <2>1. raw_input_ends_before' \in Nat /\ (raw_input_ends_before' # 0 => pos < raw_input_ends_before')
    BY <1>2, <1>9, <1>10, <1>11, <1>20 DEF E
  <2> QED
    BY <1>1, <1>15, <1>16, <1>20, <2>1 DEF ReaderOK
<1> QED
  BY <1>3, <1>17, <1>18, <1>19, <1>20

----------------------------------------------------------------------------
(* The connection *)

\* What io.c keeps true of its buffers, whatever is written and read.
BufferInv == (\E A \in Nat : WriterOK(A)) /\ ReaderOK

LEMMA BufferInit ==
  ASSUME StreamInit
  PROVE  BufferInv
<1>1. IoInit
  BY DEF StreamInit
<1>2. Blank \in Cells
  BY DEF Cells
<1>3. ASSUME NEW S \in Nat, NEW x \in Nat, S + x >= 1
      PROVE  /\ IsBuf(Xbuf(S, x), Cells, S + x - 1, 0, 0, S)
             /\ \A i \in 0 .. S + x - 1 : Xbuf(S, x).buf[i] = Blank
  BY <1>2 DEF Xbuf, IsBuf, Bufs
<1>4. Sound(Xbuf(OutSize, Hdr), OutSize, 0, 0, OutSize) /\ Sound(Xbuf(MsgSize, Hdr), MsgSize, 0, 0, MsgSize)
  <2>1. ASSUME NEW S \in Nat PROVE Sound(Xbuf(S, Hdr), S, 0, 0, S)
    <3>1. Hdr \in Nat /\ S + Hdr >= 1
      BY Sizes
    <3>2. /\ IsBuf(Xbuf(S, Hdr), Cells, S + Hdr - 1, 0, 0, S)
          /\ \A i \in 0 .. S + Hdr - 1 : Xbuf(S, Hdr).buf[i] = Blank
      BY <1>3, <3>1
    <3>3. \A i \in S .. S + Hdr - 1 : i \in 0 .. S + Hdr - 1
      BY <3>1
    <3> QED
      BY <3>2, <3>3 DEF Sound
  <2> QED
    BY <2>1, Sizes
<1>5. WriterOK(MsgSize)
  <2>1. Sound(out, OutSize, 0, Hdr, OutSize)
    BY <1>1, <1>4, Sizes, SoundFields DEF IoInit
  <2>2. OutNums(0, Hdr, OutSize, 0, 0)
    BY Sizes DEF OutNums, ToWrite, Ring
  <2>3. OutOK(out, raw_flushing_ends_before, raw_data_header_pos) /\ nraw \in Nat
    BY <1>1, <2>1, <2>2, Sizes DEF OutOK, IoInit
  <2>4. MsgNums(MsgSize, 0, 0, MsgSize)
    BY Sizes DEF MsgNums
  <2>5. MsgCount(MsgSize, 0, 0)
    BY Sizes DEF MsgCount
  <2>6. MsgOK(msg, nmsg, MsgSize)
    BY <1>1, <1>4, <2>4, <2>5, Sizes DEF MsgOK, IoInit
  <2>7. CountOK(msgLen, nmsg)
    BY <1>1 DEF CountOK, IoInit
  <2> QED
    BY <1>1, <2>3, <2>6, <2>7, IdleOK DEF WriterOK, IoInit
<1>6. ReaderOK
  <2>1. IsBuf(in, Cells, InSize - 1, 0, 0, InSize)
    <3>1. in = Xbuf(InSize, 0) /\ InSize \in Nat /\ InSize + 0 >= 1 /\ InSize + 0 - 1 = InSize - 1 /\ 0 \in Nat
      BY <1>1, Sizes DEF IoInit
    <3>2. IsBuf(Xbuf(InSize, 0), Cells, InSize + 0 - 1, 0, 0, InSize)
      BY <3>1, <1>3
    <3> QED
      BY <3>1, <3>2
  <2>2. InNums(0, 0, 0)
    BY Sizes DEF InNums
  <2>3. InOK(in, raw_input_ends_before)
    BY <1>1, <2>1, <2>2 DEF InOK, IoInit
  <2> QED
    BY <1>1, <2>3 DEF ReaderOK, RopOK, PipeOK, IoInit
<1> QED
  BY <1>5, <1>6, Sizes DEF BufferInv

LEMMA WriterKeepsReader ==
  ASSUME ReaderOK, UNCHANGED reader, PipeOK(pipe')
  PROVE  ReaderOK'
BY DEF ReaderOK, reader

LEMMA ReaderKeepsWriter ==
  ASSUME NEW A, WriterOK(A), UNCHANGED writer
  PROVE  WriterOK(A)'
BY DEF WriterOK, writer

LEMMA BufferStep ==
  ASSUME BufferInv, IoNext
  PROVE  BufferInv'
<1>1. PICK A \in Nat : WriterOK(A)
  BY DEF BufferInv
<1>2. ReaderOK /\ PipeOK(pipe)
  BY DEF BufferInv, ReaderOK
<1>3. CASE Writer
  <2>1. /\ UNCHANGED reader
        /\ PerformWrite \/ UNCHANGED pipe
    BY <1>3 DEF Writer, write_buf, send_msg, maybe_send_keepalive, io_flush, AwaitInput, Resume, PerformWrite
  <2>2. \E B \in Nat : WriterOK(B)'
    <3>1. ASSUME NEW n \in 1 .. MaxLen, write_buf(n) PROVE \E B \in Nat : WriterOK(B)'
      BY <1>1, <3>1, write_buf_OK
    <3>2. ASSUME NEW n \in 0 .. MaxLen, send_msg(n) PROVE \E B \in Nat : WriterOK(B)'
      BY <1>1, <3>2, send_msg_OK
    <3>3. ASSUME NEW f \in BOOLEAN, maybe_send_keepalive(f) PROVE \E B \in Nat : WriterOK(B)'
      BY <1>1, <3>3, maybe_send_keepalive_OK
    <3>4. ASSUME NEW t \in {"full", "normal", "msg"}, io_flush(t) PROVE \E B \in Nat : WriterOK(B)'
      BY <1>1, <3>4, io_flush_OK
    <3>5. ASSUME AwaitInput PROVE \E B \in Nat : WriterOK(B)'
      BY <1>1, <3>5, AwaitInputOK
    <3>6. ASSUME Resume PROVE \E B \in Nat : WriterOK(B)'
      BY <1>1, <3>6, ResumeOK
    <3>7. ASSUME PerformWrite PROVE \E B \in Nat : WriterOK(B)'
      BY <1>1, <1>2, <3>7, PerformWriteOK
    <3> QED
      BY <1>3, <3>1, <3>2, <3>3, <3>4, <3>5, <3>6, <3>7 DEF Writer
  <2>3. PipeOK(pipe')
    BY <1>1, <1>2, <2>1, PerformWriteOK
  <2>4. ReaderOK'
    BY <1>2, <2>1, <2>3, WriterKeepsReader
  <2> QED
    BY <2>2, <2>4 DEF BufferInv
<1>4. CASE Reader
  <2>1. UNCHANGED writer
    BY <1>4 DEF Reader, read_buf, PerformRead, Consume
  <2>2. ReaderOK'
    BY <1>2, <1>4, read_buf_OK, PerformReadOK, ConsumeOK DEF Reader
  <2>3. WriterOK(A)'
    BY <1>1, <2>1, ReaderKeepsWriter
  <2> QED
    BY <2>2, <2>3 DEF BufferInv
<1> QED
  BY <1>3, <1>4 DEF IoNext

\* Whatever the descriptors take and give, the buffers of both processes stay
\* as io.c relies on (perform_io, send_msg, write_buf, read_buf).
THEOREM BuffersSound == StreamSpec => []BufferInv
<1>1. ASSUME BufferInv, UNCHANGED ioVars PROVE BufferInv'
  BY <1>1 DEF BufferInv, WriterOK, ReaderOK, ioVars, writer, reader
<1>2. BufferInv /\ [Values \/ Transport \/ Transfer \/ Rest]_allVars => BufferInv'
  BY <1>1, BufferStep DEF Values, Transport, Transfer, Rest, allVars
<1> QED
  BY <1>2, BufferInit, PTL DEF StreamSpec

\* No process waits for ever for room (perform_io): whoever waits has something
\* to write that makes room, for buffers of every size.
THEOREM NobodyStuck == StreamSpec => []NeverStuck
<1>1. ASSUME BufferInv PROVE NeverStuck
  <2>1. PICK A \in Nat : WriterOK(A)
    BY <1>1 DEF BufferInv
  <2> SUFFICES ASSUME wop.op \notin {"idle", "input"}, ~Satisfied, ~OutFirst, ~(msg.len > 0)
               PROVE  FALSE
    BY DEF NeverStuck
  <2>2. /\ msg.len \in Nat /\ msg.size \in Nat /\ A >= MsgSize /\ (msg.len = 0 => msg.size = A)
        /\ out.len \in Nat /\ out.size \in Nat /\ out.len >= Hdr
        /\ (raw_flushing_ends_before = 0 => out.size = OutSize)
    BY <2>1, MsgFacts, OutFacts DEF WriterOK
  <2>3. msg.len = 0 /\ msg.size = A
    BY <2>2
  <2>4. raw_flushing_ends_before = 0 /\ out.size = OutSize
    BY <2>2 DEF OutFirst
  <2>5. WopOK(wop, A)
    BY <2>1 DEF WriterOK
  <2>6. CASE wop.op \in {"write", "flush", "flushfull"}
    <3>1. out.len = Hdr
      BY <2>2, <2>3, <2>6, Sizes DEF OutFirst
    <3>2. wop.n \in Int /\ wop.n <= OutSize - Hdr
      BY <2>5, <2>6, Sizes DEF WopOK
    <3>3. OutRoom(wop.n)
      BY <2>4, <3>1, <3>2, Sizes DEF OutRoom
    <3> QED
      BY <2>6, <3>3 DEF Satisfied
  <2>7. CASE wop.op = "send"
    <3>1. MsgRoom(Needed(wop.n))
      BY <2>2, <2>3, <2>5, <2>7, Sizes DEF WopOK, MsgRoom, Needed
    <3> QED
      BY <2>7, <3>1 DEF Satisfied
  <2>8. CASE wop.op \in {"flushmsg", "lull"}
    <3>1. MsgRoom(wop.n)
      BY <2>3, <2>5, <2>8 DEF WopOK, MsgRoom
    <3> QED
      BY <2>8, <3>1 DEF Satisfied
  <2> QED
    BY <2>5, <2>6, <2>7, <2>8 DEF WopOK
<1> QED
  BY <1>1, BuffersSound, PTL

\* The positions of every buffer stay inside what is allocated, and no store
\* goes past the end of it, whatever their sizes and however often the message
\* buffer of the receiver has grown (send_msg, perform_io).
THEOREM StoresInside == StreamSpec => [](PositionsInside /\ NoOverrun)
<1>1. ASSUME BufferInv PROVE PositionsInside /\ NoOverrun
  <2>1. PICK A \in Nat : WriterOK(A)
    BY <1>1 DEF BufferInv
  <2>2. /\ msg.pos \in Nat /\ msg.size \in Nat /\ msg.pos < msg.size /\ msg.size <= A /\ A - Hdr < msg.size
        /\ A <= (nmsg + 1) * (OutSize + MsgSize) * 4
        /\ DOMAIN msg.buf = 0 .. A + Hdr - 1
        /\ \A i \in A .. A + Hdr - 1 : msg.buf[i] = Blank
        /\ restore_iobuf_size(msg).size = A
    BY <2>1, MsgFacts DEF WriterOK
  <2>3. /\ out.pos \in Nat /\ out.size \in Nat /\ raw_flushing_ends_before \in Nat
        /\ out.pos < out.size /\ out.size <= OutSize /\ OutSize - Hdr < out.size
        /\ \A i \in OutSize .. OutSize + Hdr - 1 : out.buf[i] = Blank
    BY <2>1, OutFacts DEF WriterOK
  <2>4. restore_iobuf_size(out).size = OutSize
    <3>1. PICK P \in Nat, l \in Nat, S \in Nat :
            Sound(out, OutSize, P, l, S) /\ OutNums(P, l, S, raw_flushing_ends_before, raw_data_header_pos)
      BY <2>1 DEF WriterOK, OutOK
    <3>2. S <= OutSize /\ OutSize - Hdr < S
      BY <3>1 DEF OutNums
    <3>3. Sound(restore_iobuf_size(out), OutSize, P, l, OutSize)
      BY <3>1, <3>2, Sizes, Restored
    <3> QED
      BY <3>3 DEF Sound, IsBuf
  <2>5. /\ in.pos \in Nat /\ in.len \in Nat /\ in.size = InSize /\ raw_input_ends_before \in Nat
        /\ in.pos < InSize /\ in.len <= InSize
    BY <1>1, InFacts DEF BufferInv, ReaderOK
  <2>6. Len(msgLen) = nmsg /\ nmsg \in Nat
    BY <2>1 DEF WriterOK, CountOK
  <2>7. NoOverrun
    <3>1. \A i \in DOMAIN msg.buf : i >= A => msg.buf[i] = Blank
      <4> DEFINE dom == DOMAIN msg.buf
      <4>1. \A i \in 0 .. A + Hdr - 1 : i >= A => i \in A .. A + Hdr - 1
        BY Sizes
      <4>2. dom = 0 .. A + Hdr - 1
        BY <2>2
      <4> HIDE DEF dom
      <4>3. \A i \in dom : i >= A => msg.buf[i] = Blank
        BY <4>1, <4>2, <2>2
      <4> QED
        BY <4>3 DEF dom
    <3> QED
      BY <2>2, <2>3, <3>1 DEF NoOverrun
  <2>8. PositionsInside
    <3> DEFINE k == OutSize + MsgSize
               x == (nmsg + 1) * k * 4
    <3>1. k \in Nat /\ nmsg * k \in Nat /\ x = 4 * (nmsg * k) + 4 * k
      BY <2>6, Products, Sizes
    <3>2. x \in Int /\ out.size <= x /\ msg.size <= x
      <4> DEFINE y == nmsg * k
      <4>1. y \in Nat /\ x = 4 * y + 4 * k /\ k \in Nat /\ k >= OutSize /\ A <= x
        BY <3>1, <2>2, Sizes
      <4> HIDE DEF y, x, k
      <4> QED
        BY <4>1, <2>2, <2>3, Sizes
    <3>3. (Len(msgLen) + 1) * (OutSize + MsgSize) * 4 = x
      BY <2>6
    <3> HIDE DEF x
    <3>4. \A b \in {out, msg} : /\ b.pos \in 0 .. b.size
                                /\ b.size \in 1 .. x
                                /\ restore_iobuf_size(b).size - b.size < Hdr
      <4>1. out.pos \in 0 .. out.size /\ out.size \in 1 .. x /\ restore_iobuf_size(out).size - out.size < Hdr
        BY <2>3, <2>4, <3>2, Sizes
      <4>2. msg.pos \in 0 .. msg.size /\ msg.size \in 1 .. x /\ restore_iobuf_size(msg).size - msg.size < Hdr
        <5>1. A - msg.size < Hdr
          BY <2>2, Sizes
        <5>2. msg.pos \in 0 .. msg.size /\ msg.size \in 1 .. x
          <6>1. msg.pos \in Nat /\ msg.size \in Nat /\ msg.pos < msg.size
            BY <2>2
          <6> QED
            BY <6>1, <3>2
        <5> QED
          BY <5>1, <5>2, <2>2
      <4> QED
        BY <4>1, <4>2
    <3>5. /\ in.pos \in 0 .. (in.size - 1) /\ in.len \in 0 .. in.size
          /\ raw_input_ends_before >= 0 /\ raw_flushing_ends_before >= 0
      BY <2>3, <2>5, Sizes
    <3> QED
      BY <3>3, <3>4, <3>5 DEF PositionsInside
  <2> QED
    BY <2>7, <2>8
<1> QED
  BY <1>1, BuffersSound, PTL

----------------------------------------------------------------------------
(* What the buffers hold *)

\* k bytes from the off-th on are those of F from a on.
Holds(f, P, S, off, k, F, a) == \A j \in 0 .. k - 1 : f[Ring(P, S, off + j)] = F[a + j]

\* The m bytes from the n-th on are the first m of the new buffer.
Kept(f2, P2, S2, f, P, S, n, m) == \A j \in 0 .. m - 1 : f2[Ring(P2, S2, j)] = f[Ring(P, S, n + j)]

LEMMA KeptDrop ==
  ASSUME NEW f2, NEW P2, NEW S2, NEW f, NEW P, NEW S, NEW n \in Nat, NEW m \in Nat, Kept(f2, P2, S2, f, P, S, n, m),
         NEW k \in Nat, NEW F, NEW a \in Nat, Holds(f, P, S, 0, k, F, a), n <= k, k <= n + m
  PROVE  Holds(f2, P2, S2, 0, k - n, F, a + n)
<1> SUFFICES ASSUME NEW j \in 0 .. k - n - 1 PROVE f2[Ring(P2, S2, 0 + j)] = F[a + n + j]
  BY DEF Holds
<1>1. j \in 0 .. m - 1 /\ n + j \in 0 .. k - 1 /\ 0 + j = j /\ 0 + (n + j) = n + j /\ a + (n + j) = a + n + j
  OBVIOUS
<1>2. f2[Ring(P2, S2, j)] = f[Ring(P, S, n + j)]
  BY <1>1 DEF Kept
<1>3. f[Ring(P, S, 0 + (n + j))] = F[a + (n + j)]
  BY <1>1 DEF Holds
<1> QED
  BY <1>1, <1>2, <1>3

LEMMA KeptShift ==
  ASSUME NEW f2, NEW P2, NEW S2, NEW f, NEW P, NEW S, NEW n \in Nat, NEW m \in Nat, Kept(f2, P2, S2, f, P, S, n, m),
         NEW off \in Nat, NEW k \in Nat, NEW F, NEW a \in Nat, Holds(f, P, S, off, k, F, a), n <= off, off + k <= n + m
  PROVE  Holds(f2, P2, S2, off - n, k, F, a)
<1> SUFFICES ASSUME NEW j \in 0 .. k - 1 PROVE f2[Ring(P2, S2, off - n + j)] = F[a + j]
  BY DEF Holds
<1>1. off - n + j \in 0 .. m - 1 /\ n + (off - n + j) = off + j
  OBVIOUS
<1>2. f2[Ring(P2, S2, off - n + j)] = f[Ring(P, S, n + (off - n + j))]
  BY <1>1 DEF Kept
<1>3. f[Ring(P, S, off + j)] = F[a + j]
  BY DEF Holds
<1> QED
  BY <1>1, <1>2, <1>3

LEMMA HoldsLess ==
  ASSUME NEW f, NEW P, NEW S, NEW off, NEW k \in Nat, NEW F, NEW a, Holds(f, P, S, off, k, F, a), NEW n \in 0 .. k
  PROVE  Holds(f, P, S, off, n, F, a)
BY DEF Holds

LEMMA RestoredBuf ==
  ASSUME NEW b, {"buf", "pos", "len", "size"} \subseteq DOMAIN b
  PROVE  restore_iobuf_size(b).buf = b.buf /\ DOMAIN restore_iobuf_size(b) = DOMAIN b
BY DEF restore_iobuf_size

\* perform_io blanks what it has written and moves nothing else.
LEMMA WrittenBuf ==
  ASSUME NEW A, NEW P, NEW l, NEW S, NEW b, Sound(b, A, P, l, S), NEW n \in Nat, NEW e
  PROVE  Written(b, n, e).buf = Poke(b, P, Blanks(n)).buf
<1> DEFINE f == Poke(b, b.pos, Blanks(n))
           c == IF b.pos + n = b.size THEN restore_iobuf_size([f EXCEPT !.pos = 0]) ELSE [f EXCEPT !.pos = @ + n]
           g == [c EXCEPT !.len = @ - n]
<1>0. Written(b, n, e) = (IF g.len = e THEN restore_iobuf_size([g EXCEPT !.pos = 0]) ELSE g) /\ b.pos = P
  BY SoundFields DEF Written
<1>1. {"buf", "pos", "len", "size"} \subseteq DOMAIN f
  <2>1. {"buf", "pos", "len", "size"} \subseteq DOMAIN b
    BY DEF Sound, IsBuf, Bufs
  <2> QED
    BY <2>1 DEF Poke
<1>2. f.buf = Poke(b, P, Blanks(n)).buf
  BY <1>0
<1> HIDE DEF f
<1>3. c.buf = f.buf /\ {"buf", "pos", "len", "size"} \subseteq DOMAIN c
  <2>1. /\ {"buf", "pos", "len", "size"} \subseteq DOMAIN [f EXCEPT !.pos = 0] /\ [f EXCEPT !.pos = 0].buf = f.buf
        /\ {"buf", "pos", "len", "size"} \subseteq DOMAIN [f EXCEPT !.pos = @ + n] /\ [f EXCEPT !.pos = @ + n].buf = f.buf
    BY <1>1
  <2> QED
    BY <2>1, RestoredBuf
<1> HIDE DEF c
<1>4. g.buf = c.buf /\ {"buf", "pos", "len", "size"} \subseteq DOMAIN [g EXCEPT !.pos = 0] /\ [g EXCEPT !.pos = 0].buf = g.buf
  BY <1>3
<1> HIDE DEF g
<1>5. restore_iobuf_size([g EXCEPT !.pos = 0]).buf = g.buf
  BY <1>4, RestoredBuf
<1> QED
  BY <1>0, <1>2, <1>3, <1>4, <1>5

LEMMA WrittenKept ==
  ASSUME NEW A \in Nat, A % Unit = 0, NEW P \in Nat, NEW l \in Nat, NEW S \in Nat, S <= A, A - Hdr < S, P < S,
         NEW b, Sound(b, A, P, l, S), NEW n \in Nat, n >= 1, n <= l, P + n <= S, NEW e \in Nat
  PROVE  /\ P + n = S => Kept(Written(b, n, e).buf, 0, A, b.buf, P, S, n, S - n)
         /\ P + n # S => Kept(Written(b, n, e).buf, P + n, S, b.buf, P, S, n, S - n)
<1> DEFINE f2 == Written(b, n, e).buf
           d == A + Hdr - 1
<1>1. f2 = Poke(b, P, Blanks(n)).buf
  BY WrittenBuf
<1>2. IsBuf(b, Cells, d, P, l, S) /\ d \in Int /\ S - 1 <= d
  BY Sizes DEF Sound
<1> HIDE DEF d
<1>3. \A i \in 0 .. d : i < P \/ i >= P + n => f2[i] = b.buf[i]
  <2> TAKE i \in 0 .. d
  <2>1. Blanks(n) \in CellsOf(Cells, n)
    BY BlanksAre
  <2>2. i < P \/ i >= P + n => Poke(b, P, Blanks(n)).buf[i] = b.buf[i]
    BY <1>2, <2>1, PokeAt
  <2> QED
    BY <1>1, <2>2
<1> HIDE DEF f2
<1>4. \A j \in 0 .. S - n - 1 : Ring(P, S, n + j) \in 0 .. d /\ (Ring(P, S, n + j) < P \/ Ring(P, S, n + j) >= P + n)
  BY <1>2 DEF Ring
<1>5. \A j \in 0 .. S - n - 1 : f2[Ring(P, S, n + j)] = b.buf[Ring(P, S, n + j)]
  BY <1>3, <1>4
<1>6. P + n = S => \A j \in 0 .. S - n - 1 : Ring(0, A, j) = Ring(P, S, n + j)
  BY DEF Ring
<1>7. P + n # S => \A j \in 0 .. S - n - 1 : Ring(P + n, S, j) = Ring(P, S, n + j)
  BY DEF Ring
<1> QED
  BY <1>5, <1>6, <1>7 DEF Kept, f2

\* The first m bytes of two buffers are the same.
SameStart(f2, f, P, S, m) == \A j \in 0 .. m - 1 : f2[Ring(P, S, j)] = f[Ring(P, S, j)]

\* F2 differs from F only from e on.
Extends(F2, F, e) == \A x \in Nat : x < e => F2[x] = F[x]

\* The n cells are those of F from a on.
Lists(F, a, n, cells) == \A i \in 1 .. n : F[a + i - 1] = cells[i]

LEMMA HoldsSame ==
  ASSUME NEW f, NEW f2, NEW P, NEW S, NEW off \in Nat, NEW k \in Int, NEW F, NEW F2, NEW a \in Nat,
         NEW m \in Int, NEW e \in Int, SameStart(f2, f, P, S, m), off + k <= m, Extends(F2, F, e), a + k <= e,
         Holds(f, P, S, off, k, F, a)
  PROVE  Holds(f2, P, S, off, k, F2, a)
<1> SUFFICES ASSUME NEW j \in 0 .. k - 1 PROVE f2[Ring(P, S, off + j)] = F2[a + j]
  BY DEF Holds
<1>1. off + j \in 0 .. m - 1 /\ a + j \in Nat /\ a + j < e
  OBVIOUS
<1>2. f[Ring(P, S, off + j)] = F[a + j]
  BY DEF Holds
<1> QED
  BY <1>1, <1>2 DEF SameStart, Extends

LEMMA HoldsJoin ==
  ASSUME NEW f, NEW P, NEW S, NEW off \in Nat, NEW k \in Nat, NEW n \in Nat, NEW F, NEW a \in Nat,
         Holds(f, P, S, off, k, F, a), Holds(f, P, S, off + k, n, F, a + k)
  PROVE  Holds(f, P, S, off, k + n, F, a)
<1> SUFFICES ASSUME NEW j \in 0 .. k + n - 1 PROVE f[Ring(P, S, off + j)] = F[a + j]
  BY DEF Holds
<1>1. CASE j < k
  BY <1>1 DEF Holds
<1>2. CASE j >= k
  <2>1. j - k \in 0 .. n - 1 /\ off + k + (j - k) = off + j /\ a + k + (j - k) = a + j
    BY <1>2
  <2>2. f[Ring(P, S, off + k + (j - k))] = F[a + k + (j - k)]
    BY <2>1 DEF Holds
  <2> QED
    BY <2>1, <2>2
<1> QED
  BY <1>1, <1>2

LEMMA StoredHolds ==
  ASSUME NEW c, NEW b, NEW C, NEW d, NEW P, NEW l, NEW S \in Nat, NEW L \in Nat, NEW n \in Nat, NEW cells,
         L + n <= S, Stored(c, b, C, d, P, l, S, L, n, cells),
         NEW F, NEW a \in Nat, Lists(F, a, n, cells)
  PROVE  /\ Holds(c.buf, P, S, L, n, F, a)
         /\ SameStart(c.buf, b.buf, P, S, L)
<1>1. Holds(c.buf, P, S, L, n, F, a)
  <2> SUFFICES ASSUME NEW j \in 0 .. n - 1 PROVE c.buf[Ring(P, S, L + j)] = F[a + j]
    BY DEF Holds
  <2>1. j + 1 \in 1 .. n /\ a + (j + 1) - 1 = a + j /\ L + (j + 1) - 1 = L + j
    OBVIOUS
  <2>2. c.buf[Ring(P, S, L + (j + 1) - 1)] = cells[j + 1] /\ F[a + (j + 1) - 1] = cells[j + 1]
    BY <2>1 DEF Stored, Lists
  <2> QED
    BY <2>1, <2>2
<1> QED
  BY <1>1 DEF Stored, SameStart

\* All raw bytes, in the order in which they are written.
Raws == [x \in Nat |-> RawCell(x + 1)]

\* b holds the bytes of F from a on.
BufHas(b, F, a) == Holds(b.buf, b.pos, b.size, 0, b.len, F, a)

\* The rest of a chunk, which is F from w on, and behind the room for a header
\* the raw bytes after the first q.
OutHas(b, E, F, w, q) ==
  /\ Holds(b.buf, b.pos, b.size, 0, ToWrite(b.pos, E), F, w)
  /\ Holds(b.buf, b.pos, b.size, ToWrite(b.pos, E) + Hdr, b.len - ToWrite(b.pos, E) - Hdr, Raws, q)

\* Raw bytes that wait for a chunk.
Waiting(b, E) == b.len - ToWrite(b.pos, E) - Hdr

LEMMA PutRawHas ==
  ASSUME NEW E, NEW H, OutOK(out, E, H), NEW n \in Nat, n >= 1, OutRoom(n), PutRaw(n), nraw \in Nat,
         NEW F, NEW w \in Nat, NEW q \in Nat, OutHas(out, E, F, w, q), q + Waiting(out, E) = nraw
  PROVE  OutHas(out', E, F, w, q) /\ Waiting(out', E) = Waiting(out, E) + n /\ out'.pos = out.pos
<1>1. PICK P \in Nat, l \in Nat, S \in Nat : Sound(out, OutSize, P, l, S) /\ OutNums(P, l, S, E, H)
  BY DEF OutOK
<1>2. out.pos = P /\ out.len = l /\ out.size = S
  BY <1>1 DEF Sound, IsBuf
<1> DEFINE c0 == ToWrite(P, E)
           d == OutSize + Hdr - 1
           k == l - c0 - Hdr
           p == IF out.pos + out.len >= out.size THEN out.pos + out.len - out.size ELSE out.pos + out.len
           cells == [i \in 1 .. n |-> RawCell(nraw + i)]
           c == Copy(out, p, cells)
<1>3. /\ l + n <= S /\ P < S /\ S <= OutSize /\ c0 \in Nat /\ k \in Nat /\ c0 + Hdr + k = l
      /\ d \in Int /\ S <= d + 1
  <2>1. c0 \in Nat /\ k \in Nat
    BY <1>1, Sizes DEF OutNums, ToWrite
  <2> HIDE DEF c0
  <2> QED
    BY <2>1, <1>1, <1>2, Sizes DEF OutRoom, OutNums
<1>4. p = Ring(P, S, l)
  BY <1>2, <1>3 DEF Ring
<1>5. cells \in CellsOf(Cells, n)
  <2>1. nraw \in Int
    OBVIOUS
  <2> QED
    BY <2>1, RawCellsAre, Zenon
<1>6. out' = [c EXCEPT !.len = @ + n]
  BY DEF PutRaw
<1>7. Lists(Raws, nraw, n, cells)
  BY DEF Raws, RawCell, Lists
<1> HIDE DEF p, cells
<1>8. IsBuf(out, Cells, d, P, l, S)
  BY <1>1 DEF Sound
<1>8a. q + k = nraw /\ Holds(out.buf, P, S, 0, c0, F, w) /\ Holds(out.buf, P, S, c0 + Hdr, k, Raws, q)
  BY <1>2 DEF OutHas, Waiting
<1> HIDE DEF d, c0, k
<1>9. Stored(c, out, Cells, d, P, l, S, l, n, cells)
  BY <1>3, <1>4, <1>5, <1>8, CopyFacts, Zenon
<1>10. /\ Holds(c.buf, P, S, l, n, Raws, nraw)
       /\ SameStart(c.buf, out.buf, P, S, l)
  BY <1>3, <1>7, <1>9, StoredHolds, Zenon
<1>11. IsBuf(c, Cells, d, P, l, S)
  BY <1>9 DEF Stored
<1> HIDE DEF c
<1>12. out'.pos = P /\ out'.size = S /\ out'.len = l + n /\ out'.buf = c.buf
  BY <1>6, <1>11 DEF IsBuf, Bufs
<1>h. Hdr \in Nat
  BY Sizes
<1>13. Holds(c.buf, P, S, 0, c0, F, w)
  <2>1. 0 + c0 <= l /\ w + c0 <= w + c0 /\ w + c0 \in Int /\ l \in Int /\ c0 \in Int /\ Extends(F, F, w + c0)
    BY <1>3, <1>h DEF Extends
  <2> QED
    BY <1>8a, <1>10, <2>1, HoldsSame
<1>14. Holds(c.buf, P, S, c0 + Hdr, k, Raws, q)
  <2>1. /\ c0 + Hdr \in Nat /\ (c0 + Hdr) + k <= l /\ q + k <= q + k /\ q + k \in Int /\ l \in Int /\ k \in Int
        /\ Extends(Raws, Raws, q + k)
    BY <1>3, <1>h DEF Extends
  <2> QED
    BY <1>8a, <1>10, <2>1, HoldsSame
<1>15. Holds(c.buf, P, S, c0 + Hdr, k + n, Raws, q)
  <2>1. c0 + Hdr \in Nat
    BY <1>3, <1>h
  <2>2. Holds(c.buf, P, S, c0 + Hdr + k, n, Raws, q + k)
    BY <1>3, <1>8a, <1>10
  <2> QED
    BY <1>3, <1>14, <2>1, <2>2, HoldsJoin
<1>16. (l + n) - c0 - Hdr = k + n /\ l - c0 - Hdr = k
  BY <1>3, <1>h
<1> QED
  BY <1>2, <1>12, <1>13, <1>15, <1>16 DEF OutHas, Waiting, c0

\* F with a header and a body put at e.
WithFrame(F, e, h, g) ==
  [x \in Nat |-> IF x < e THEN F[x] ELSE IF x < e + Hdr THEN h[x - e + 1] ELSE g[x - e - Hdr + 1]]

LEMMA WithFrameIs ==
  ASSUME NEW F, NEW e \in Nat, NEW h, NEW g, NEW n \in Nat
  PROVE  /\ Extends(WithFrame(F, e, h, g), F, e)
         /\ Lists(WithFrame(F, e, h, g), e, Hdr, h)
         /\ Lists(WithFrame(F, e, h, g), e + Hdr, n, g)
<1>h. Hdr \in Nat
  BY Sizes
<1>1. Extends(WithFrame(F, e, h, g), F, e)
  BY <1>h DEF WithFrame, Extends
<1>2. Lists(WithFrame(F, e, h, g), e, Hdr, h)
  <2> SUFFICES ASSUME NEW i \in 1 .. Hdr PROVE WithFrame(F, e, h, g)[e + i - 1] = h[i]
    BY DEF Lists
  <2>1. e + i - 1 \in Nat /\ ~(e + i - 1 < e) /\ e + i - 1 < e + Hdr /\ (e + i - 1) - e + 1 = i
    BY <1>h
  <2> QED
    BY <2>1 DEF WithFrame
<1>3. Lists(WithFrame(F, e, h, g), e + Hdr, n, g)
  <2> SUFFICES ASSUME NEW i \in 1 .. n PROVE WithFrame(F, e, h, g)[e + Hdr + i - 1] = g[i]
    BY DEF Lists
  <2>1. /\ e + Hdr + i - 1 \in Nat /\ ~(e + Hdr + i - 1 < e) /\ ~(e + Hdr + i - 1 < e + Hdr)
        /\ (e + Hdr + i - 1) - e - Hdr + 1 = i
    BY <1>h
  <2> QED
    BY <2>1 DEF WithFrame
<1> QED
  BY <1>1, <1>2, <1>3

\* A header that fits before the end of the buffer is stored in one piece.
LEMMA OnePiece ==
  ASSUME NEW b, NEW p \in Nat, NEW cells, b.size \in Nat, Len(cells) \in Nat, p + Len(cells) <= b.size
  PROVE  Poke(b, p, cells) = Copy(b, p, cells)
<1>1. ~(b.size - p < Len(cells))
  OBVIOUS
<1> QED
  BY <1>1 DEF Copy

\* send_msg stores the message behind those that wait.
LEMMA PutMsgHas ==
  ASSUME NEW A, NEW P, NEW l, NEW S, NEW b, Sound(b, A, P, l, S), MsgNums(A, P, l, S),
         NEW n \in Nat, l + n + Hdr + Hdr - 1 <= S, NEW code \in {"data", "msg"}, nmsg \in Nat,
         PutMsg(b, code, n), NEW F, NEW a \in Nat, BufHas(b, F, a)
  PROVE  /\ BufHas(msg', WithFrame(F, a + l, HdrCells(code, nmsg + 1, n), MsgCells(nmsg + 1, n)), a)
         /\ msg'.len = l + Hdr + n
<1>1. b.pos = P /\ b.len = l /\ b.size = S /\ P \in Nat /\ l \in Nat /\ S \in Nat /\ A \in Nat
  BY DEF Sound, IsBuf, MsgNums
<1> DEFINE p0 == b.pos + b.len
           w == HeaderWraps(b, p0)
           r == IF w THEN reduce_iobuf_size(b, p0) ELSE b
           p == IF p0 >= b.size THEN p0 - b.size ELSE IF w THEN 0 ELSE p0
           q == IF p + Hdr = r.size THEN 0 ELSE p + Hdr
           hc == HdrCells(code, nmsg + 1, n)
           mc == MsgCells(nmsg + 1, n)
           h == Poke(r, p, hc)
           c == Copy(h, q, mc)
           T == IF w THEN P + l ELSE S
           F2 == WithFrame(F, a + l, hc, mc)
           d == A + Hdr - 1
<1>2. msg' = [c EXCEPT !.len = @ + Hdr + n]
  BY DEF PutMsg
<1>3. /\ w \in BOOLEAN /\ (w <=> P + l < S /\ P + l + Hdr > S)
      /\ p = IF P + l >= S THEN P + l - S ELSE IF w THEN 0 ELSE P + l
  BY <1>1 DEF HeaderWraps
<1>4. (w => T = P + l) /\ (~w => T = S)
  OBVIOUS
<1>5. Sound(r, A, P, l, T) /\ r.size = T /\ r.buf = b.buf
  <2>1. CASE w
    <3>1. r = [b EXCEPT !.size = P + l] /\ P + l \in Nat
      BY <1>1, <1>3, <2>1 DEF reduce_iobuf_size
    <3>2. Sound([b EXCEPT !.size = P + l], A, P, l, P + l)
      BY <3>1, SoundFields
    <3>3. [b EXCEPT !.size = P + l].size = P + l /\ [b EXCEPT !.size = P + l].buf = b.buf
      BY <3>2 DEF Sound, IsBuf, Bufs
    <3> QED
      BY <3>1, <3>2, <3>3, <2>1
  <2>2. CASE ~w
    BY <1>1, <2>2
  <2> QED
    BY <2>1, <2>2
<1>g. hc \in CellsOf(Cells, Hdr) /\ mc \in CellsOf(Cells, n) /\ Len(hc) = Hdr
  <2>1. nmsg + 1 \in Int
    OBVIOUS
  <2>2. hc \in CellsOf(Cells, Hdr) /\ mc \in CellsOf(Cells, n)
    BY <2>1, HdrCellsAre, MsgCellsAre, Zenon
  <2> QED
    BY <2>2 DEF CellsOf
<1> HIDE DEF r, p, w, T, p0, hc, mc
<1>6. /\ p \in Nat /\ p + Hdr <= A /\ T \in Nat /\ P < T /\ T <= A /\ l + Hdr + n <= T
      /\ (IF p + Hdr = T THEN 0 ELSE p + Hdr) = Ring(P, T, l + Hdr)
      /\ MsgNums(A, P, l + Hdr + n, T)
  BY <1>3, <1>4, MsgPlaces
<1>7. /\ p = Ring(P, T, l) /\ p + Hdr <= T /\ l + Hdr <= T /\ l \in Nat /\ Hdr \in Nat /\ l + Hdr \in Nat
      /\ d \in Int /\ T <= d + 1 /\ l + Hdr + n \in Nat /\ a + l \in Nat /\ a + l + Hdr \in Nat
  BY <1>1, <1>3, <1>4, <1>6, Sizes DEF Ring
<1>8. Holds(r.buf, P, T, 0, l, F, a)
  <2>1. Holds(b.buf, P, S, 0, l, F, a)
    BY <1>1 DEF BufHas
  <2>2. \A j \in 0 .. l - 1 : Ring(P, T, 0 + j) = Ring(P, S, 0 + j)
    BY <1>1, <1>3, <1>4 DEF Ring
  <2> QED
    BY <1>5, <2>1, <2>2 DEF Holds
<1>9. h = Copy(r, p, hc)
  <2>1. r.size \in Nat /\ Len(hc) \in Nat /\ p + Len(hc) <= r.size
    BY <1>5, <1>6, <1>7, <1>g
  <2> QED
    BY <1>6, <2>1, OnePiece
<1>10. IsBuf(r, Cells, d, P, l, T)
  BY <1>5 DEF Sound
<1>11. q = Ring(P, T, l + Hdr)
  BY <1>5, <1>6
<1> HIDE DEF h, q, d
<1>12. Stored(h, r, Cells, d, P, l, T, l, Hdr, hc)
  BY <1>1, <1>6, <1>7, <1>9, <1>10, <1>g, CopyFacts, Zenon
<1>13. IsBuf(h, Cells, d, P, l, T)
  BY <1>12 DEF Stored
<1>14. Stored(c, h, Cells, d, P, l, T, l + Hdr, n, mc)
  BY <1>1, <1>6, <1>7, <1>11, <1>13, <1>g, CopyFacts, Zenon
<1>15. IsBuf(c, Cells, d, P, l, T)
  BY <1>14 DEF Stored
<1> HIDE DEF c
<1>16. msg'.pos = P /\ msg'.size = T /\ msg'.buf = c.buf /\ msg'.len = l + Hdr + n
  <2>1. c.len = l /\ DOMAIN c = {"buf", "pos", "len", "size"} /\ c.pos = P /\ c.size = T
    BY <1>15 DEF IsBuf, Bufs
  <2> QED
    BY <1>2, <2>1
<1>17. Extends(F2, F, a + l) /\ Lists(F2, a + l, Hdr, hc) /\ Lists(F2, a + l + Hdr, n, mc)
  BY <1>7, WithFrameIs
<1> HIDE DEF F2
<1>18. Holds(h.buf, P, T, l, Hdr, F2, a + l) /\ SameStart(h.buf, r.buf, P, T, l)
  BY <1>6, <1>7, <1>12, <1>17, StoredHolds, Zenon
<1>19. Holds(c.buf, P, T, l + Hdr, n, F2, a + l + Hdr) /\ SameStart(c.buf, h.buf, P, T, l + Hdr)
  BY <1>6, <1>7, <1>14, <1>17, StoredHolds, Zenon
<1>20. Holds(h.buf, P, T, 0, l, F2, a)
  <2>1. 0 \in Nat /\ l \in Int /\ 0 + l <= l /\ a + l <= a + l /\ a + l \in Int
    BY <1>7
  <2> QED
    BY <1>8, <1>17, <1>18, <2>1, HoldsSame
<1>21. Holds(h.buf, P, T, 0, l + Hdr, F2, a)
  <2>1. 0 + l = l /\ 0 \in Nat
    BY <1>7
  <2> QED
    BY <1>7, <1>18, <1>20, <2>1, HoldsJoin
<1>22. Holds(c.buf, P, T, 0, l + Hdr, F2, a)
  <2>1. /\ 0 \in Nat /\ l + Hdr \in Int /\ 0 + (l + Hdr) <= l + Hdr /\ a + (l + Hdr) <= a + (l + Hdr) /\ a + (l + Hdr) \in Int
        /\ Extends(F2, F2, a + (l + Hdr))
    BY <1>7 DEF Extends
  <2> QED
    BY <1>19, <1>21, <2>1, HoldsSame
<1>23. Holds(c.buf, P, T, 0, (l + Hdr) + n, F2, a)
  <2>1. 0 + (l + Hdr) = l + Hdr /\ 0 \in Nat /\ a + (l + Hdr) = a + l + Hdr
    BY <1>7
  <2> QED
    BY <1>7, <1>19, <1>22, <2>1, HoldsJoin
<1>24. BufHas(msg', F2, a)
  BY <1>16, <1>23 DEF BufHas
<1> QED
  BY <1>16, <1>24 DEF F2, hc, mc

\* What had wrapped is found behind the rest in the larger buffer.
LEMMA GrownHas ==
  ASSUME NEW A, NEW P, NEW l, NEW S, NEW b, Sound(b, A, P, l, S), MsgNums(A, P, l, S),
         NEW F, NEW a \in Nat, BufHas(b, F, a)
  PROVE  BufHas(Grown(b), F, a)
<1>1. /\ b.pos = P /\ b.len = l /\ b.size = S /\ P \in Nat /\ l \in Nat /\ S \in Nat /\ A \in Nat
      /\ P < S /\ S <= A /\ A - Hdr < S /\ l <= S /\ A % Unit = 0 /\ A >= Hdr /\ 2 * A \in Nat /\ Hdr \in Nat
  BY Sizes DEF Sound, IsBuf, MsgNums
<1> DEFINE r == restore_iobuf_size(b)
           f == [i \in 0 .. (2 * r.size + Hdr - 1) |-> IF i \in DOMAIN r.buf THEN r.buf[i] ELSE Blank]
           g == [r EXCEPT !.size = 2 * @, !.buf = f]
           wrapped == b.pos + b.len - b.size
           moved == [k \in 1 .. wrapped |-> g.buf[k - 1]]
<1>2. Grown(b) = IF wrapped > 0 THEN Poke(g, b.size, moved) ELSE g
  BY DEF Grown
<1>3. Sound(r, A, P, l, A) /\ r.buf = b.buf
  <2>1. Sound(r, A, P, l, A)
    BY <1>1, Restored
  <2>2. {"buf", "pos", "len", "size"} \subseteq DOMAIN b
    BY DEF Sound, IsBuf, Bufs
  <2> QED
    BY <2>1, <2>2, RestoredBuf
<1> HIDE DEF r
<1>4. r.size = A /\ DOMAIN r.buf = 0 .. A + Hdr - 1 /\ {"buf", "pos", "len", "size"} \subseteq DOMAIN r
  BY <1>3 DEF Sound, IsBuf, Bufs
<1>5. \A i \in 0 .. A - 1 : f[i] = b.buf[i]
  <2>1. f = [i \in 0 .. 2 * A + Hdr - 1 |-> IF i \in 0 .. A + Hdr - 1 THEN b.buf[i] ELSE Blank]
    BY <1>3, <1>4
  <2>2. \A i \in 0 .. A - 1 : i \in 0 .. 2 * A + Hdr - 1 /\ i \in 0 .. A + Hdr - 1
    BY <1>1
  <2> HIDE DEF f
  <2> QED
    BY <2>1, <2>2
<1>6. DOMAIN f = 0 .. 2 * A + Hdr - 1
  BY <1>4
<1> HIDE DEF f
<1>7. g.buf = f
  BY <1>4
<1>8. Sound(Grown(b), 2 * A, P, l, 2 * A)
  BY GrownOK
<1>9. Grown(b).pos = P /\ Grown(b).len = l /\ Grown(b).size = 2 * A
  BY <1>8, SoundFields
<1>d. {"buf", "pos", "len", "size"} \subseteq DOMAIN g
  BY <1>4
<1> HIDE DEF g
<1>10. \A j \in 0 .. l - 1 : Grown(b).buf[P + j] = b.buf[Ring(P, S, j)]
  <2>1. CASE wrapped > 0
    <3>1. wrapped = P + l - S /\ wrapped \in Nat /\ S + wrapped <= 2 * A
      BY <1>1, <2>1
    <3>2. moved = [k \in 1 .. wrapped |-> f[k - 1]]
      BY <1>7
    <3> DEFINE f3 == [i \in DOMAIN g.buf |-> IF i >= S /\ i < S + Len(moved) THEN moved[i - S + 1] ELSE g.buf[i]]
    <3>3. Grown(b) = [g EXCEPT !.buf = f3]
      BY <1>1, <1>2, <2>1 DEF Poke
    <3>4. Grown(b).buf = f3
      <4> HIDE DEF f3
      <4> QED
        BY <3>3, <1>d
    <3>5. Len(moved) = wrapped
      BY <3>1
    <3> HIDE DEF wrapped, moved
    <3>6. \A i \in 0 .. 2 * A + Hdr - 1 : f3[i] = IF i >= S /\ i < S + wrapped THEN moved[i - S + 1] ELSE f[i]
      BY <1>6, <1>7, <3>5
    <3> HIDE DEF f3
    <3> TAKE j \in 0 .. l - 1
    <3>7. P + j \in 0 .. 2 * A + Hdr - 1
      BY <1>1
    <3>8. CASE P + j < S
      <4>1. f3[P + j] = f[P + j] /\ Ring(P, S, j) = P + j /\ P + j \in 0 .. A - 1
        BY <1>1, <3>6, <3>7, <3>8 DEF Ring
      <4> QED
        BY <4>1, <3>4, <1>5
    <3>9. CASE ~(P + j < S)
      <4>1. /\ P + j >= S /\ P + j < S + wrapped /\ Ring(P, S, j) = P + j - S /\ P + j - S \in 0 .. A - 1
            /\ P + j - S + 1 \in 1 .. wrapped /\ (P + j - S + 1) - 1 = P + j - S
        BY <1>1, <3>1, <3>9 DEF Ring
      <4>2. f3[P + j] = moved[P + j - S + 1]
        BY <1>1, <4>1, <3>6, <3>7
      <4>3. moved[P + j - S + 1] = f[P + j - S]
        BY <4>1, <3>2
      <4> QED
        BY <4>1, <4>2, <4>3, <3>4, <1>5
    <3> QED
      BY <3>8, <3>9
  <2>2. CASE ~(wrapped > 0)
    <3>1. P + l <= S
      BY <1>1, <2>2
    <3>2. Grown(b).buf = f
      BY <1>2, <1>7, <2>2
    <3>3. \A j \in 0 .. l - 1 : Ring(P, S, j) = P + j /\ P + j \in 0 .. A - 1
      BY <1>1, <3>1 DEF Ring
    <3> QED
      BY <3>2, <3>3, <1>5
  <2> QED
    BY <2>1, <2>2
<1>11. \A j \in 0 .. l - 1 : Ring(P, 2 * A, 0 + j) = P + j /\ 0 + j = j
  BY <1>1 DEF Ring
<1>12. Holds(b.buf, P, S, 0, l, F, a)
  BY <1>1 DEF BufHas
<1>13. Holds(Grown(b).buf, P, 2 * A, 0, l, F, a)
  <2> SUFFICES ASSUME NEW j \in 0 .. l - 1 PROVE Grown(b).buf[Ring(P, 2 * A, 0 + j)] = F[a + j]
    BY DEF Holds
  <2>1. b.buf[Ring(P, S, 0 + j)] = F[a + j]
    BY <1>12 DEF Holds
  <2> QED
    BY <2>1, <1>10, <1>11
<1> QED
  BY <1>9, <1>13 DEF BufHas

\* The raw bytes after the first q, as the body of a chunk.
RawFrom(q) == [i \in Nat |-> RawCell(q + i)]

LEMMA NothingHeld ==
  ASSUME NEW f, NEW P, NEW S, NEW off, NEW F, NEW a
  PROVE  Holds(f, P, S, off, 0, F, a)
BY DEF Holds

\* perform_io makes a chunk of the raw bytes that wait.
LEMMA StartChunkHas ==
  ASSUME NEW H, H = raw_data_header_pos, OutOK(out, 0, H), out.len > Hdr,
         NEW F, NEW w \in Nat, NEW q \in Nat, OutHas(out, 0, F, w, q),
         NEW k, k = Waiting(out, 0)
  PROVE  /\ OutHas(StartChunk.out, StartChunk.ends, WithFrame(F, w, HdrCells("data", 0, k), RawFrom(q)), w, q + k)
         /\ k \in Nat /\ k >= 1 /\ k + Hdr = out.len
         /\ Waiting(StartChunk.out, StartChunk.ends) = 0
         /\ ToWrite(StartChunk.out.pos, StartChunk.ends) = Hdr + k
<1>1. PICK P \in Nat, l \in Nat, S \in Nat : Sound(out, OutSize, P, l, S) /\ OutNums(P, l, S, 0, H)
  BY DEF OutOK
<1>2. out.pos = P /\ out.len = l /\ out.size = S /\ l > Hdr
  BY <1>1 DEF Sound, IsBuf
<1>3. S = OutSize /\ H + Hdr <= S /\ l <= S /\ H \in Nat /\ H = Ring(P, S, 0) /\ P < S /\ Hdr \in Nat
  <2>1. l > Hdr /\ H \in Nat /\ H = Ring(P, S, 0) /\ P < S
    BY <1>1, <1>2 DEF OutNums, ToWrite
  <2> QED
    BY <1>1, <2>1, ChunkStarts, Sizes
<1>k. k = l - Hdr /\ k \in Nat /\ k >= 1 /\ Hdr + k = l /\ P + l # 0 /\ P + l - P = l /\ l + Hdr - l - Hdr = 0 /\ q + k \in Nat
  BY <1>2, <1>3 DEF Waiting, ToWrite
<1> DEFINE d == OutSize + Hdr - 1
           hc == HdrCells("data", 0, k)
           F2 == WithFrame(F, w, hc, RawFrom(q))
           filled == Poke(out, raw_data_header_pos, HdrCells("data", 0, out.len - Hdr))
           wraps == HeaderWraps(out, out.pos + out.len)
           r == IF wraps THEN reduce_iobuf_size(filled, out.pos + out.len) ELSE filled
<1>4. /\ StartChunk.out = [r EXCEPT !.len = @ + Hdr]
      /\ StartChunk.ends = P + l
  BY <1>2 DEF StartChunk
<1>5. wraps <=> P + l < S /\ P + l + Hdr > S
  BY <1>2 DEF HeaderWraps
<1>6. filled = Poke(out, H, hc)
  BY <1>2, <1>k
<1>7. hc \in CellsOf(Cells, Hdr) /\ Len(hc) = Hdr
  <2>1. hc \in CellsOf(Cells, Hdr)
    BY <1>k, HdrCellsAre
  <2> QED
    BY <2>1 DEF CellsOf
<1>8. Extends(F2, F, w) /\ Lists(F2, w, Hdr, hc) /\ Lists(F2, w + Hdr, k, RawFrom(q))
  BY <1>k, WithFrameIs
<1> HIDE DEF hc, F2, filled, wraps
<1>9. filled = Copy(out, H, hc)
  BY <1>2, <1>3, <1>6, <1>7, OnePiece
<1>10. d \in Int /\ S <= d + 1 /\ 0 + Hdr <= S /\ 0 \in Nat
  BY <1>3, Sizes
<1>11. IsBuf(out, Cells, d, P, l, S)
  BY <1>1 DEF Sound
<1> HIDE DEF d
<1>12. Stored(filled, out, Cells, d, P, l, S, 0, Hdr, hc)
  BY <1>3, <1>7, <1>9, <1>10, <1>11, CopyFacts, Zenon
<1>13. Holds(filled.buf, P, S, 0, Hdr, F2, w)
  BY <1>3, <1>8, <1>10, <1>12, StoredHolds, Zenon
<1>14. IsBuf(filled, Cells, d, P, l, S) /\ \A j \in 0 .. S - 1 : j >= 0 + Hdr => filled.buf[Ring(P, S, j)] = out.buf[Ring(P, S, j)]
  BY <1>12 DEF Stored
<1>15. Holds(out.buf, P, S, Hdr, k, Raws, q)
  <2>1. ToWrite(P, 0) = 0 /\ 0 + Hdr = Hdr /\ l - 0 - Hdr = k
    BY <1>k, <1>2, <1>3 DEF ToWrite
  <2> QED
    BY <2>1, <1>2 DEF OutHas
<1>16. Holds(filled.buf, P, S, Hdr, k, F2, w + Hdr)
  <2> SUFFICES ASSUME NEW j \in 0 .. k - 1 PROVE filled.buf[Ring(P, S, Hdr + j)] = F2[w + Hdr + j]
    BY DEF Holds
  <2>1. /\ Hdr + j \in 0 .. S - 1 /\ Hdr + j >= 0 + Hdr /\ j + 1 \in 1 .. k /\ w + Hdr + (j + 1) - 1 = w + Hdr + j
        /\ q + j \in Nat /\ q + j + 1 = q + (j + 1) /\ j + 1 \in Nat
    BY <1>3, <1>k
  <2>2. filled.buf[Ring(P, S, Hdr + j)] = out.buf[Ring(P, S, Hdr + j)]
    BY <2>1, <1>14
  <2>3. out.buf[Ring(P, S, Hdr + j)] = Raws[q + j]
    BY <1>15 DEF Holds
  <2>4. F2[w + Hdr + (j + 1) - 1] = RawFrom(q)[j + 1]
    BY <2>1, <1>8 DEF Lists
  <2>5. Raws[q + j] = RawCell(q + (j + 1)) /\ RawFrom(q)[j + 1] = RawCell(q + (j + 1))
    BY <2>1 DEF Raws, RawFrom
  <2> QED
    BY <2>1, <2>2, <2>3, <2>4, <2>5
<1>17. Holds(filled.buf, P, S, 0, l, F2, w)
  <2>1. 0 + Hdr = Hdr /\ 0 \in Nat
    BY <1>3
  <2> QED
    BY <1>3, <1>k, <1>13, <1>16, <2>1, HoldsJoin
<1>18. /\ StartChunk.out.buf = filled.buf /\ StartChunk.out.pos = P /\ StartChunk.out.len = l + Hdr
       /\ StartChunk.out.size = IF wraps THEN P + l ELSE S
  <2>1. /\ filled.len = l /\ filled.pos = P /\ filled.size = S
        /\ DOMAIN filled = {"buf", "pos", "len", "size"}
    BY <1>14 DEF IsBuf, Bufs
  <2>2. CASE wraps
    <3>1. r = [filled EXCEPT !.size = P + l]
      BY <1>2, <1>5, <2>1, <2>2 DEF reduce_iobuf_size
    <3> QED
      BY <3>1, <2>1, <2>2, <1>4
  <2>3. CASE ~wraps
    <3>1. r = filled
      BY <2>3
    <3> HIDE DEF r
    <3> QED
      BY <3>1, <2>1, <2>3, <1>4
  <2> QED
    BY <2>2, <2>3
<1> DEFINE o == StartChunk.out
<1>19. Holds(o.buf, o.pos, o.size, 0, l, F2, w)
  <2>1. \A j \in 0 .. l - 1 : Ring(P, P + l, 0 + j) = Ring(P, S, 0 + j) \/ ~wraps
    BY <1>3, <1>5 DEF Ring
  <2>2. wraps => Holds(filled.buf, P, P + l, 0, l, F2, w)
    BY <1>17, <2>1 DEF Holds
  <2> QED
    BY <1>17, <1>18, <2>2
<1>20. ToWrite(o.pos, StartChunk.ends) = l /\ o.len - l - Hdr = 0
  <2>1. ToWrite(P, P + l) = l
    BY <1>k DEF ToWrite
  <2> QED
    <3>1. o.pos = P /\ StartChunk.ends = P + l /\ o.len = l + Hdr
      BY <1>4, <1>18, Zenon
    <3> HIDE DEF o
    <3> QED
      <4>1. ToWrite(o.pos, StartChunk.ends) = l
        BY <3>1, <2>1, Zenon
      <4>2. o.len - l - Hdr = 0
        BY <3>1, <1>3
      <4> QED
        BY <4>1, <4>2
<1> HIDE DEF o
<1>21. OutHas(o, StartChunk.ends, F2, w, q + k)
  BY <1>19, <1>20, NothingHeld DEF OutHas
<1>22. Waiting(o, StartChunk.ends) = 0
  BY <1>20 DEF Waiting
<1>23. k + Hdr = out.len /\ Hdr + k = l
  BY <1>2, <1>3, <1>k
<1> QED
  BY <1>k, <1>20, <1>21, <1>22, <1>23, Zenon DEF o, F2, hc

\* The n bytes that go to the pipe are the first ones of the buffer.
LEMMA FirstAre ==
  ASSUME NEW f, NEW P \in Nat, NEW S \in Nat, NEW k \in Nat, NEW F, NEW a \in Nat, Holds(f, P, S, 0, k, F, a),
         NEW n \in Nat, n <= k, P + n <= S, NEW cells, cells = [i \in 1 .. n |-> f[P + i - 1]]
  PROVE  Lists(F, a, n, cells)
<1> SUFFICES ASSUME NEW i \in 1 .. n PROVE F[a + i - 1] = f[P + i - 1]
  BY DEF Lists
<1>1. i - 1 \in 0 .. k - 1 /\ a + (i - 1) = a + i - 1 /\ Ring(P, S, 0 + (i - 1)) = P + i - 1
  BY DEF Ring
<1>2. f[Ring(P, S, 0 + (i - 1))] = F[a + (i - 1)]
  BY <1>1 DEF Holds
<1> QED
  BY <1>1, <1>2

\* The first n bytes of a buffer, and the end of the chunk once they are written.
FirstOf(b, n) == [i \in 1 .. n |-> b.buf[b.pos + i - 1]]
EndsAfter(b, n, E) == IF b.pos + n = b.size THEN E - b.size ELSE IF b.pos + n = E THEN 0 ELSE E

\* perform_io has written n bytes of a chunk.
LEMMA ChunkWriteHas ==
  ASSUME NEW b, NEW E, NEW H, OutOK(b, E, H), E # 0, NEW n \in Nat, n >= 1,
         b.pos + n <= E, b.pos + n <= b.size, NEW E2, E2 = EndsAfter(b, n, E),
         NEW F, NEW w \in Nat, NEW q \in Nat, OutHas(b, E, F, w, q)
  PROVE  /\ OutHas(Written(b, n, Hdr), E2, F, w + n, q)
         /\ Waiting(Written(b, n, Hdr), E2) = Waiting(b, E)
         /\ ToWrite(Written(b, n, Hdr).pos, E2) = ToWrite(b.pos, E) - n
         /\ Lists(F, w, n, FirstOf(b, n))
<1>0. E2 = IF b.pos + n = b.size THEN E - b.size ELSE IF b.pos + n = E THEN 0 ELSE E
  BY DEF EndsAfter
<1>1. PICK P \in Nat, l \in Nat, S \in Nat : Sound(b, OutSize, P, l, S) /\ OutNums(P, l, S, E, H)
  BY DEF OutOK
<1>2. b.pos = P /\ b.len = l /\ b.size = S
  BY <1>1 DEF Sound, IsBuf
<1> DEFINE c0 == ToWrite(P, E)
           k == l - c0 - Hdr
           x == Written(b, n, Hdr)
<1>3. /\ P + n <= S /\ S <= OutSize /\ OutSize - Hdr < S /\ P < S /\ n <= l
      /\ c0 = E - P /\ c0 \in Nat /\ n <= c0 /\ c0 <= S /\ k \in Nat /\ (k = 0 \/ l <= S) /\ c0 + Hdr + k = l
      /\ E2 = (IF P + n = S THEN E - S ELSE IF P + n = E THEN 0 ELSE E) /\ E \in Nat
      /\ OutSize \in Nat /\ OutSize % Unit = 0 /\ Hdr \in Nat
  <2>1. c0 = E - P
    BY DEF ToWrite
  <2>2. /\ P < S /\ S <= OutSize /\ OutSize - Hdr < S /\ E \in Nat /\ P < E /\ c0 <= S /\ c0 + Hdr <= l
        /\ (l > c0 + Hdr => l <= S)
    BY <1>1 DEF OutNums
  <2> HIDE DEF c0
  <2> QED
    BY <1>0, <1>2, <2>1, <2>2, Sizes
<1>4. /\ l - n = Hdr \/ P + n = S => Sound(x, OutSize, 0, l - n, OutSize)
      /\ l - n # Hdr /\ P + n # S => Sound(x, OutSize, P + n, l - n, S)
  BY <1>1, <1>3, WrittenSound
<1>5. /\ P + n = S => Kept(x.buf, 0, OutSize, b.buf, P, S, n, S - n)
      /\ P + n # S => Kept(x.buf, P + n, S, b.buf, P, S, n, S - n)
  BY <1>1, <1>3, WrittenKept
<1>6. Holds(b.buf, P, S, 0, c0, F, w) /\ Holds(b.buf, P, S, c0 + Hdr, k, Raws, q)
  BY <1>2 DEF OutHas
<1> HIDE DEF c0, k, x
<1>7. Lists(F, w, n, FirstOf(b, n))
  <2> DEFINE cells == FirstOf(b, n)
  <2>1. cells = [i \in 1 .. n |-> b.buf[P + i - 1]]
    BY <1>2 DEF FirstOf
  <2> HIDE DEF cells
  <2>2. P + n <= S /\ n <= c0 /\ c0 \in Nat
    BY <1>3
  <2>3. Lists(F, w, n, cells)
    BY <1>6, <2>1, <2>2, FirstAre, Zenon
  <2> QED
    BY <2>3 DEF cells
<1>8. ASSUME NEW P2, NEW S2, Kept(x.buf, P2, S2, b.buf, P, S, n, S - n)
      PROVE  Holds(x.buf, P2, S2, 0, c0 - n, F, w + n) /\ Holds(x.buf, P2, S2, c0 - n + Hdr, k, Raws, q)
  <2>0. S - n \in Nat /\ n <= c0 /\ c0 <= n + (S - n) /\ c0 + Hdr \in Nat /\ n <= c0 + Hdr
        /\ (c0 + Hdr) - n = c0 - n + Hdr
    BY <1>3
  <2>1. Holds(x.buf, P2, S2, 0, c0 - n, F, w + n)
    BY <1>3, <1>6, <1>8, <2>0, KeptDrop
  <2>2. CASE k = 0
    BY <2>1, <2>2, NothingHeld
  <2>3. CASE k # 0
    <3>1. c0 + Hdr + k <= n + (S - n)
      BY <1>3, <2>3
    <3>2. Holds(x.buf, P2, S2, (c0 + Hdr) - n, k, Raws, q)
      <4>1. \A z \in Nat : n <= z /\ z + k <= n + (S - n) /\ Holds(b.buf, P, S, z, k, Raws, q)
                            => Holds(x.buf, P2, S2, z - n, k, Raws, q)
        BY <1>3, <1>8, <2>0, KeptShift
      <4> QED
        BY <2>0, <3>1, <1>6, <4>1, Zenon
    <3> QED
      BY <2>0, <2>1, <3>2
  <2> QED
    BY <2>2, <2>3
<1>9. x.len = l - n
  BY <1>4, SoundFields
<1>10. ASSUME NEW P2, NEW S2, x.pos = P2, x.size = S2, ToWrite(P2, E2) = c0 - n,
              Holds(x.buf, P2, S2, 0, c0 - n, F, w + n) /\ Holds(x.buf, P2, S2, c0 - n + Hdr, k, Raws, q)
       PROVE  OutHas(x, E2, F, w + n, q) /\ Waiting(x, E2) = k /\ ToWrite(x.pos, E2) = c0 - n
  <2>1. x.len - (c0 - n) - Hdr = k
    BY <1>3, <1>9
  <2> QED
    BY <1>10, <2>1 DEF OutHas, Waiting
<1>11. OutHas(x, E2, F, w + n, q) /\ Waiting(x, E2) = k /\ ToWrite(x.pos, E2) = c0 - n
  <2>1. CASE P + n = S
    <3>1. x.pos = 0 /\ x.size = OutSize
      BY <1>4, <2>1, SoundFields
    <3>2. ToWrite(0, E2) = c0 - n
      BY <1>3, <2>1 DEF ToWrite
    <3> QED
      BY <1>5, <1>8, <1>10, <2>1, <3>1, <3>2
  <2>2. CASE P + n # S /\ l - n # Hdr
    <3>1. x.pos = P + n /\ x.size = S
      BY <1>4, <2>2, SoundFields
    <3>2. ToWrite(P + n, E2) = c0 - n
      BY <1>3, <2>2 DEF ToWrite
    <3> QED
      BY <1>5, <1>8, <1>10, <2>2, <3>1, <3>2
  <2>3. CASE P + n # S /\ l - n = Hdr
    <3>1. x.pos = 0 /\ x.size = OutSize
      BY <1>4, <2>3, SoundFields
    <3>2. c0 - n = 0 /\ k = 0 /\ E2 = 0
      BY <1>3, <2>3
    <3>3. ToWrite(0, E2) = c0 - n
      BY <3>2 DEF ToWrite
    <3> QED
      BY <1>10, <3>1, <3>2, <3>3, NothingHeld
  <2> QED
    BY <2>1, <2>2, <2>3
<1>12. Waiting(b, E) = k /\ ToWrite(b.pos, E) = c0
  BY <1>2 DEF Waiting, k, c0
<1> QED
  BY <1>7, <1>11, <1>12 DEF x

\* perform_io has written n bytes of the messages.
LEMMA MsgWriteHas ==
  ASSUME NEW A, NEW m, NEW b, MsgOK(b, m, A), NEW n \in Nat, n >= 1, n <= b.len, b.pos + n <= b.size,
         NEW F, NEW a \in Nat, BufHas(b, F, a)
  PROVE  /\ BufHas(Written(b, n, 0), F, a + n) /\ Written(b, n, 0).len = b.len - n
         /\ Lists(F, a, n, FirstOf(b, n))
<1>1. PICK P \in Nat, l \in Nat, S \in Nat : Sound(b, A, P, l, S) /\ MsgNums(A, P, l, S)
  BY DEF MsgOK
<1>2. b.pos = P /\ b.len = l /\ b.size = S
  BY <1>1 DEF Sound, IsBuf
<1> DEFINE x == Written(b, n, 0)
<1>3. P + n <= S /\ S <= A /\ A - Hdr < S /\ P < S /\ n <= l /\ l <= S /\ A \in Nat /\ A % Unit = 0 /\ 0 \in Nat
  BY <1>1, <1>2 DEF MsgNums
<1>4. /\ l - n = 0 \/ P + n = S => Sound(x, A, 0, l - n, A)
      /\ l - n # 0 /\ P + n # S => Sound(x, A, P + n, l - n, S)
  BY <1>1, <1>3, WrittenSound
<1>5. /\ P + n = S => Kept(x.buf, 0, A, b.buf, P, S, n, S - n)
      /\ P + n # S => Kept(x.buf, P + n, S, b.buf, P, S, n, S - n)
  BY <1>1, <1>3, WrittenKept
<1>6. Holds(b.buf, P, S, 0, l, F, a)
  BY <1>2 DEF BufHas
<1>7. Lists(F, a, n, FirstOf(b, n))
  <2> DEFINE cells == FirstOf(b, n)
  <2>1. cells = [i \in 1 .. n |-> b.buf[P + i - 1]]
    BY <1>2 DEF FirstOf
  <2> HIDE DEF cells
  <2>2. Lists(F, a, n, cells)
    BY <1>3, <1>6, <2>1, FirstAre, Zenon
  <2> QED
    BY <2>2 DEF cells
<1> HIDE DEF x
<1>8. ASSUME NEW P2, NEW S2, Kept(x.buf, P2, S2, b.buf, P, S, n, S - n)
      PROVE  Holds(x.buf, P2, S2, 0, l - n, F, a + n)
  <2>0. S - n \in Nat /\ l <= n + (S - n)
    BY <1>3
  <2> QED
    BY <1>3, <1>6, <1>8, <2>0, KeptDrop
<1>9. x.len = l - n
  BY <1>4, SoundFields
<1>10. Holds(x.buf, x.pos, x.size, 0, l - n, F, a + n)
  <2>1. CASE P + n = S
    <3>1. x.pos = 0 /\ x.size = A
      BY <1>4, <2>1, SoundFields
    <3> QED
      BY <1>5, <1>8, <2>1, <3>1
  <2>2. CASE P + n # S /\ l - n # 0
    <3>1. x.pos = P + n /\ x.size = S
      BY <1>4, <2>2, SoundFields
    <3> QED
      BY <1>5, <1>8, <2>2, <3>1
  <2>3. CASE l - n = 0
    BY <2>3, NothingHeld
  <2> QED
    BY <2>1, <2>2, <2>3
<1> QED
  BY <1>2, <1>7, <1>9, <1>10 DEF BufHas, x

----------------------------------------------------------------------------
(* What is on its way *)

\* The first n elements are the same.
SamePrefix(s2, s, n) == \A i \in 1 .. n : s2[i] = s[i]

Kinds == {"chunk", "msg", "alive"}

\* At b, behind q raw bytes and m messages: a chunk of l raw bytes that were
\* written when no more than m messages had been sent, message m + 1 of l
\* bytes, or a keep-alive.
Frame(F, b, k, l, q, m, st, ml) ==
  /\ b \in Nat /\ l \in Nat /\ q \in Nat /\ m \in Nat /\ k \in Kinds
  /\ F[b] = <<"hdr", IF k = "msg" THEN "msg" ELSE "data", IF k = "chunk" THEN 0 ELSE m + 1, l, 1>>
  /\ k = "chunk" => l >= 1 /\ Lists(F, b + Hdr, l, RawFrom(q)) /\ \A i \in 1 .. l : st[q + i] <= m
  /\ k = "msg" => Lists(F, b + Hdr, l, MsgCells(m + 1, l)) /\ ml[m + 1] = l
  /\ k = "alive" => l = 0 /\ ml[m + 1] = KeepAlive

\* The frame after it begins where this one ends.
NextFrame(x, y) ==
  /\ y.b = x.b + Hdr + x.l
  /\ y.q = IF x.k = "chunk" THEN x.q + x.l ELSE x.q
  /\ y.m = IF x.k = "chunk" THEN x.m ELSE x.m + 1

Before(y, z) == y.b <= z.b /\ y.q <= z.q /\ y.m <= z.m
Place(z) == z.b \in Nat /\ z.q \in Nat /\ z.m \in Nat

\* The frames from t up to c, where the next one will begin.
Frames(F, T, t, c, st, ml) ==
  /\ t \in Nat /\ c \in Nat /\ t <= c /\ Place(T[c])
  /\ \A i \in t .. c - 1 :
       /\ Frame(F, T[i].b, T[i].k, T[i].l, T[i].q, T[i].m, st, ml)
       /\ NextFrame(T[i], T[i + 1]) /\ Before(T[i + 1], T[c])

LEMMA ListsExtended ==
  ASSUME NEW F, NEW F2, NEW e \in Int, Extends(F2, F, e), NEW a \in Nat, NEW n \in Nat, a + n <= e,
         NEW cells, Lists(F, a, n, cells)
  PROVE  Lists(F2, a, n, cells)
<1> SUFFICES ASSUME NEW i \in 1 .. n PROVE F2[a + i - 1] = cells[i]
  BY DEF Lists
<1>1. a + i - 1 \in Nat /\ a + i - 1 < e
  OBVIOUS
<1>2. F[a + i - 1] = cells[i]
  BY DEF Lists
<1> QED
  BY <1>1, <1>2 DEF Extends

LEMMA FrameStays ==
  ASSUME NEW F, NEW F2, NEW b, NEW k, NEW l, NEW q, NEW m, NEW st, NEW ml, Frame(F, b, k, l, q, m, st, ml),
         NEW e \in Int, Extends(F2, F, e), b + Hdr + l <= e,
         NEW st2, NEW x \in Int, SamePrefix(st2, st, x), k = "chunk" => q + l <= x,
         NEW ml2, NEW y \in Int, SamePrefix(ml2, ml, y), k # "chunk" => m + 1 <= y
  PROVE  Frame(F2, b, k, l, q, m, st2, ml2)
<1>1. /\ b \in Nat /\ l \in Nat /\ q \in Nat /\ m \in Nat /\ k \in Kinds
      /\ F[b] = <<"hdr", IF k = "msg" THEN "msg" ELSE "data", IF k = "chunk" THEN 0 ELSE m + 1, l, 1>>
      /\ k = "chunk" => l >= 1 /\ Lists(F, b + Hdr, l, RawFrom(q)) /\ \A i \in 1 .. l : st[q + i] <= m
      /\ k = "msg" => Lists(F, b + Hdr, l, MsgCells(m + 1, l)) /\ ml[m + 1] = l
      /\ k = "alive" => l = 0 /\ ml[m + 1] = KeepAlive
  BY DEF Frame
<1>2. b + Hdr \in Nat /\ b < e /\ (b + Hdr) + l <= e
  BY <1>1, Sizes
<1>3. F2[b] = F[b]
  BY <1>1, <1>2 DEF Extends
<1>4. CASE k = "chunk"
  <2>1. Lists(F2, b + Hdr, l, RawFrom(q))
    BY <1>1, <1>2, <1>4, ListsExtended
  <2>2. \A i \in 1 .. l : q + i \in 1 .. x
    BY <1>1, <1>4
  <2>3. \A i \in 1 .. l : st2[q + i] <= m
    BY <1>1, <1>4, <2>2 DEF SamePrefix
  <2> QED
    BY <1>1, <1>3, <1>4, <2>1, <2>3 DEF Frame
<1>5. CASE k = "msg"
  <2>1. Lists(F2, b + Hdr, l, MsgCells(m + 1, l))
    BY <1>1, <1>2, <1>5, ListsExtended
  <2>2. ml2[m + 1] = l
    BY <1>1, <1>5 DEF SamePrefix
  <2> QED
    BY <1>1, <1>3, <1>5, <2>1, <2>2 DEF Frame
<1>6. CASE k = "alive"
  <2>2. ml2[m + 1] = KeepAlive
    BY <1>1, <1>6 DEF SamePrefix
  <2> QED
    BY <1>1, <1>3, <1>6, <2>2 DEF Frame
<1> QED
  BY <1>1, <1>4, <1>5, <1>6 DEF Kinds

\* What is written later does not disturb the frames.
LEMMA FramesStay ==
  ASSUME NEW F, NEW T, NEW t, NEW c, NEW st, NEW ml, Frames(F, T, t, c, st, ml),
         NEW F2, Extends(F2, F, T[c].b), NEW st2, SamePrefix(st2, st, T[c].q), NEW ml2, SamePrefix(ml2, ml, T[c].m)
  PROVE  Frames(F2, T, t, c, st2, ml2)
<1>1. t \in Nat /\ c \in Nat /\ t <= c /\ Place(T[c])
  BY DEF Frames
<1>2. T[c].b \in Int /\ T[c].q \in Int /\ T[c].m \in Int
  BY <1>1 DEF Place
<1>3. ASSUME NEW i \in t .. c - 1
      PROVE  /\ Frame(F2, T[i].b, T[i].k, T[i].l, T[i].q, T[i].m, st2, ml2)
             /\ NextFrame(T[i], T[i + 1]) /\ Before(T[i + 1], T[c])
  <2>1. /\ Frame(F, T[i].b, T[i].k, T[i].l, T[i].q, T[i].m, st, ml)
        /\ NextFrame(T[i], T[i + 1]) /\ Before(T[i + 1], T[c])
    BY DEF Frames
  <2>2. T[i].b + Hdr + T[i].l <= T[c].b /\ (T[i].k = "chunk" => T[i].q + T[i].l <= T[c].q) /\ (T[i].k # "chunk" => T[i].m + 1 <= T[c].m)
    BY <2>1 DEF NextFrame, Before
  <2>3. Frame(F2, T[i].b, T[i].k, T[i].l, T[i].q, T[i].m, st2, ml2)
    BY <1>2, <2>1, <2>2, FrameStays
  <2> QED
    BY <2>1, <2>3
<1> QED
  BY <1>1, <1>3 DEF Frames

\* T2 continues T.
Continues(T2, T, c) == /\ \A i \in Nat : i < c => T2[i] = T[i]
                       /\ T2[c].b = T[c].b /\ T2[c].q = T[c].q /\ T2[c].m = T[c].m

LEMMA FramesAdd ==
  ASSUME NEW F, NEW T, NEW t, NEW c, NEW st, NEW ml, Frames(F, T, t, c, st, ml),
         NEW k, NEW l, Frame(F, T[c].b, k, l, T[c].q, T[c].m, st, ml)
  PROVE  \E T2 : /\ Frames(F, T2, t, c + 1, st, ml) /\ Continues(T2, T, c)
                 /\ NextFrame([b |-> T[c].b, k |-> k, l |-> l, q |-> T[c].q, m |-> T[c].m], T2[c + 1])
<1>1. t \in Nat /\ c \in Nat /\ t <= c /\ T[c].b \in Nat /\ T[c].q \in Nat /\ T[c].m \in Nat /\ Hdr \in Nat
  BY Sizes DEF Frames, Place
<1>2. l \in Nat /\ k \in Kinds
  BY DEF Frame
<1> DEFINE x == [b |-> T[c].b, k |-> k, l |-> l, q |-> T[c].q, m |-> T[c].m]
           y == [b |-> T[c].b + Hdr + l, k |-> "alive", l |-> 0,
                 q |-> IF k = "chunk" THEN T[c].q + l ELSE T[c].q, m |-> IF k = "chunk" THEN T[c].m ELSE T[c].m + 1]
           T2 == [i \in Nat |-> IF i < c THEN T[i] ELSE IF i = c THEN x ELSE y]
<1>3. NextFrame(x, y) /\ Before(T[c], y) /\ Before(y, y) /\ Place(y)
  BY <1>1, <1>2 DEF NextFrame, Before, Place
<1>4. x.b = T[c].b /\ x.q = T[c].q /\ x.m = T[c].m /\ x.k = k /\ x.l = l
  OBVIOUS
<1> HIDE DEF x, y
<1>5. /\ \A i \in Nat : i < c => T2[i] = T[i]
      /\ T2[c] = x /\ T2[c + 1] = y /\ c + 1 \in Nat
  BY <1>1
<1> HIDE DEF T2
<1>6. Continues(T2, T, c)
  BY <1>4, <1>5 DEF Continues
<1>7. ASSUME NEW i \in t .. (c + 1) - 1
      PROVE  /\ Frame(F, T2[i].b, T2[i].k, T2[i].l, T2[i].q, T2[i].m, st, ml)
             /\ NextFrame(T2[i], T2[i + 1]) /\ Before(T2[i + 1], T2[c + 1])
  <2>1. CASE i = c
    <3>1. Frame(F, x.b, x.k, x.l, x.q, x.m, st, ml)
      BY <1>4
    <3> QED
      BY <2>1, <3>1, <1>3, <1>5
  <2>2. CASE i < c
    <3>1. i \in t .. c - 1 /\ i \in Nat /\ i + 1 \in Nat /\ i + 1 <= c
      BY <1>1, <2>2
    <3>2. /\ Frame(F, T[i].b, T[i].k, T[i].l, T[i].q, T[i].m, st, ml)
          /\ NextFrame(T[i], T[i + 1]) /\ Before(T[i + 1], T[c])
      BY <3>1 DEF Frames
    <3>3. T2[i] = T[i]
      BY <3>1, <2>2, <1>5
    <3>4. T2[i + 1].b = T[i + 1].b /\ T2[i + 1].q = T[i + 1].q /\ T2[i + 1].m = T[i + 1].m
      <4>1. CASE i + 1 = c
        BY <4>1, <1>4, <1>5
      <4>2. CASE i + 1 < c
        BY <4>2, <3>1, <1>5
      <4> QED
        BY <4>1, <4>2, <3>1, <1>1
    <3>5. NextFrame(T2[i], T2[i + 1])
      BY <3>2, <3>3, <3>4 DEF NextFrame
    <3>6. Before(T2[i + 1], y)
      <4>1. T[i + 1].b \in Int /\ T[i + 1].q \in Int /\ T[i + 1].m \in Int
        BY <3>2, Sizes DEF NextFrame, Frame
      <4>2. y.b \in Int /\ y.q \in Int /\ y.m \in Int
        BY <1>3 DEF Place
      <4> QED
        BY <4>1, <4>2, <3>2, <3>4, <1>1, <1>3 DEF Before
    <3> QED
      BY <3>2, <3>3, <3>5, <3>6, <1>5
  <2> QED
    BY <2>1, <2>2, <1>1
<1>8. Frames(F, T2, t, c + 1, st, ml)
  BY <1>1, <1>3, <1>5, <1>7 DEF Frames
<1>9. NextFrame(x, T2[c + 1])
  BY <1>3, <1>5
<1> QED
  BY <1>6, <1>8, <1>9 DEF x

\* The first frame, and the frames behind it.
LEMMA FirstFrame ==
  ASSUME NEW F, NEW T, NEW t, NEW c, NEW st, NEW ml, Frames(F, T, t, c, st, ml), t # c
  PROVE  /\ Frame(F, T[t].b, T[t].k, T[t].l, T[t].q, T[t].m, st, ml)
         /\ NextFrame(T[t], T[t + 1]) /\ Before(T[t + 1], T[c])
         /\ Frames(F, T, t + 1, c, st, ml)
<1>1. t \in Nat /\ c \in Nat /\ t < c /\ t \in t .. c - 1 /\ t + 1 \in Nat /\ t + 1 <= c
  BY DEF Frames
<1>2. \A i \in t + 1 .. c - 1 : i \in t .. c - 1
  BY <1>1
<1> QED
  BY <1>1, <1>2 DEF Frames

LEMMA FramesBounds ==
  ASSUME NEW F, NEW T, NEW t, NEW c, NEW st, NEW ml, Frames(F, T, t, c, st, ml)
  PROVE  Place(T[t]) /\ Place(T[c]) /\ Before(T[t], T[c]) /\ t \in Nat /\ c \in Nat
<1>0. Place(T[c]) /\ t \in Nat /\ c \in Nat
  BY DEF Frames
<1>1. CASE t = c
  BY <1>0, <1>1 DEF Place, Before
<1>2. CASE t # c
  <2>1. /\ Frame(F, T[t].b, T[t].k, T[t].l, T[t].q, T[t].m, st, ml)
        /\ NextFrame(T[t], T[t + 1]) /\ Before(T[t + 1], T[c])
    BY <1>2, FirstFrame
  <2>2. T[t].b \in Nat /\ T[t].q \in Nat /\ T[t].m \in Nat /\ T[t].l \in Nat
    BY <2>1 DEF Frame
  <2>3. Before(T[t], T[c])
    BY <2>1, <2>2, <1>0, Sizes DEF NextFrame, Before, Place
  <2> QED
    BY <1>0, <2>2, <2>3 DEF Place
<1> QED
  BY <1>1, <1>2

----------------------------------------------------------------------------
(* The stream of frames and who holds which part of it *)

\* What the reader was given: the first raw bytes, the first messages.
RawsGot(g, n) == g \in Seq(Cells) /\ Len(g) = n /\ n \in Nat /\ \A i \in 1 .. n : g[i] = RawCell(i)
MsgsGot(g, n, ml) ==
  /\ g \in Seq(Seq(Cells)) /\ Len(g) = n /\ n \in Nat
  /\ \A i \in 1 .. n : g[i] = IF ml[i] = KeepAlive THEN <<>> ELSE MsgCells(i, ml[i])

StampsOK(st, n, m) == CountOK(st, n) /\ \A i \in 1 .. n : st[i] <= m

\* The reader is at the r-th byte, in frame t: "left" bytes before the end of a
\* chunk, behind the header of a message, or before a header.
ReadAt(T, t, c, r, left, o, gr, gm) ==
  /\ gm = T[t].m
  /\ left # 0 => /\ t # c /\ T[t].k = "chunk" /\ left \in 1 .. T[t].l
                 /\ r + left = T[t + 1].b /\ gr + left = T[t + 1].q
  /\ left = 0 => gr = T[t].q
  /\ left = 0 /\ o.op = "body" => t # c /\ T[t].k = "msg" /\ r = T[t].b + Hdr /\ o.n = T[t].l
  /\ left = 0 /\ o.op # "body" => r = T[t].b

\* The reader finds its bytes although the buffer may start over while it waits.
RopAt(o, P) ==
  o # Idle => /\ o.pos0 \in Nat /\ (o.pos0 = P \/ P = 0)
              /\ o.direct => o.op = "hdr" /\ o.pos0 + Hdr <= InSize

ReaderHas(F, T, t, c, r) ==
  /\ BufHas(in, F, r) /\ RopAt(rop, in.pos)
  /\ ReadAt(T, t, c, r, ToWrite(in.pos, raw_input_ends_before), rop, Len(gotRaw), Len(gotMsg))
  /\ RawsGot(gotRaw, Len(gotRaw)) /\ MsgsGot(gotMsg, Len(gotMsg), msgLen) /\ NeverOvertaken

\* The pipe holds what lies between the reader's bytes and those of the writer.
PipeHas(F, r, w) == w = r + in.len + Len(pipe) /\ Lists(F, r + in.len, Len(pipe), pipe)

\* The writer holds the bytes from w on: the rest of a chunk, the messages, and
\* the raw bytes that wait for the next chunk.
WriterHas(o, E, F, T, c, w) ==
  /\ OutHas(o, E, F, w, T[c].q) /\ BufHas(msg, F, w + ToWrite(o.pos, E))
  /\ w + ToWrite(o.pos, E) + msg.len = T[c].b
  /\ T[c].q + Waiting(o, E) = nraw /\ T[c].m = nmsg /\ StampsOK(stamp, nraw, nmsg)

ContentInv ==
  \E F, T : \E t \in Nat, c \in Nat, r \in Nat, w \in Nat :
    /\ Frames(F, T, t, c, stamp, msgLen)
    /\ WriterHas(out, raw_flushing_ends_before, F, T, c, w)
    /\ PipeHas(F, r, w) /\ ReaderHas(F, T, t, c, r)

LEMMA ReadAtStays ==
  ASSUME NEW T, NEW T2, NEW t \in Nat, NEW c \in Nat, t <= c, Continues(T2, T, c), NEW c2 \in {c, c + 1},
         NEW r, NEW left, NEW o, NEW gr, NEW gm, ReadAt(T, t, c, r, left, o, gr, gm)
  PROVE  ReadAt(T2, t, c2, r, left, o, gr, gm)
<1>1. T2[t].b = T[t].b /\ T2[t].q = T[t].q /\ T2[t].m = T[t].m
  BY DEF Continues
<1>2. CASE t = c
  BY <1>1, <1>2 DEF ReadAt
<1>3. CASE t # c
  <2>1. t < c /\ t # c2 /\ t + 1 \in Nat /\ (t + 1 < c \/ t + 1 = c)
    BY <1>3
  <2>2. T2[t] = T[t] /\ T2[t + 1].b = T[t + 1].b /\ T2[t + 1].q = T[t + 1].q
    BY <2>1 DEF Continues
  <2> QED
    BY <2>1, <2>2, <1>3 DEF ReadAt
<1> QED
  BY <1>2, <1>3

\* What the reader has got lies before what the writer does next.
LEMMA GotBounds ==
  ASSUME NEW F, NEW T, NEW t, NEW c, NEW st, NEW ml, Frames(F, T, t, c, st, ml),
         NEW r, NEW left \in Nat, NEW o, NEW gr \in Nat, NEW gm \in Nat, ReadAt(T, t, c, r, left, o, gr, gm)
  PROVE  gr <= T[c].q /\ gm <= T[c].m
<1>1. Place(T[t]) /\ Place(T[c]) /\ Before(T[t], T[c])
  BY FramesBounds
<1>2. gm <= T[c].m
  BY <1>1 DEF ReadAt, Before
<1>3. CASE left = 0
  BY <1>1, <1>2, <1>3 DEF ReadAt, Before
<1>4. CASE left # 0
  <2>1. t # c /\ gr + left = T[t + 1].q
    BY <1>4 DEF ReadAt
  <2>2. T[t + 1].q <= T[c].q
    BY <2>1, FirstFrame DEF Before
  <2> QED
    BY <1>1, <1>2, <2>1, <2>2 DEF Place
<1> QED
  BY <1>3, <1>4

LEMMA LeftIs ==
  ASSUME NEW b, NEW E, InOK(b, E)
  PROVE  ToWrite(b.pos, E) \in Nat
BY InFacts DEF ToWrite

\* Steps of the writer leave the reader where it is.
LEMMA ReaderStays ==
  ASSUME ReaderOK, NEW F, NEW T, NEW t \in Nat, NEW c \in Nat, NEW r \in Nat, NEW w \in Nat,
         Frames(F, T, t, c, stamp, msgLen), PipeHas(F, r, w), ReaderHas(F, T, t, c, r), w <= T[c].b,
         NEW F2, Extends(F2, F, T[c].b), NEW T2, Continues(T2, T, c), NEW c2 \in {c, c + 1},
         UNCHANGED reader, SamePrefix(stamp', stamp, T[c].q), SamePrefix(msgLen', msgLen, T[c].m)
  PROVE  PipeHas(F2, r, w) /\ ReaderHas(F2, T2, t, c2, r)'
<1>0. t <= c /\ T[c].b \in Nat /\ T[c].q \in Nat /\ T[c].m \in Nat
  BY DEF Frames, Place
<1>1. UNCHANGED <<in, raw_input_ends_before, rop, gotRaw, gotMsg>>
  BY DEF reader
<1>2. in.len \in Nat /\ Len(pipe) \in Nat /\ ToWrite(in.pos, raw_input_ends_before) \in Nat
  BY InFacts, LeftIs, PipeFacts DEF ReaderOK
<1>3. Len(gotRaw) \in Nat /\ Len(gotMsg) \in Nat
  BY DEF ReaderHas, RawsGot, MsgsGot
<1>4. ReadAt(T, t, c, r, ToWrite(in.pos, raw_input_ends_before), rop, Len(gotRaw), Len(gotMsg))
  BY DEF ReaderHas
<1>5. Len(gotRaw) <= T[c].q /\ Len(gotMsg) <= T[c].m
  BY <1>2, <1>3, <1>4, GotBounds
<1>6. w = r + in.len + Len(pipe) /\ Lists(F, r + in.len, Len(pipe), pipe)
  BY DEF PipeHas
<1> DEFINE x == in.len
           y == Len(pipe)
           e == T[c].b
<1>7. r + x \in Nat /\ r + x <= e /\ (r + x) + y <= e /\ x \in Nat /\ y \in Nat /\ e \in Int
  <2>1. x \in Nat /\ y \in Nat /\ w = r + x + y /\ e \in Nat /\ w <= e
    BY <1>0, <1>2, <1>6
  <2> HIDE DEF x, y, e
  <2> QED
    BY <2>1
<1>8. PipeHas(F2, r, w)
  <2>1. Lists(F2, r + in.len, Len(pipe), pipe)
    BY <1>6, <1>7, ListsExtended
  <2> QED
    BY <1>6, <2>1 DEF PipeHas
<1>9. BufHas(in, F2, r)
  <2>1. Holds(in.buf, in.pos, in.size, 0, x, F, r) /\ SameStart(in.buf, in.buf, in.pos, in.size, x)
    BY DEF ReaderHas, BufHas, SameStart
  <2>2. 0 \in Nat /\ x \in Int /\ 0 + x <= x /\ Extends(F2, F, e)
    BY <1>7
  <2> HIDE DEF x, e
  <2>3. Holds(in.buf, in.pos, in.size, 0, x, F2, r)
    BY <1>7, <2>1, <2>2, HoldsSame
  <2> QED
    BY <2>3 DEF BufHas, x
<1>10. ReadAt(T2, t, c2, r, ToWrite(in.pos, raw_input_ends_before), rop, Len(gotRaw), Len(gotMsg))
  <2>1. t <= c
    BY <1>0
  <2>2. \A left, o, gr, gm : ReadAt(T, t, c, r, left, o, gr, gm) => ReadAt(T2, t, c2, r, left, o, gr, gm)
    BY <2>1, ReadAtStays
  <2> QED
    BY <1>4, <2>2, Zenon
<1>11. MsgsGot(gotMsg, Len(gotMsg), msgLen')
  <2>1. MsgsGot(gotMsg, Len(gotMsg), msgLen)
    BY DEF ReaderHas
  <2>2. \A i \in 1 .. Len(gotMsg) : msgLen'[i] = msgLen[i]
    BY <1>0, <1>3, <1>5 DEF SamePrefix
  <2> QED
    BY <2>1, <2>2 DEF MsgsGot
<1>12. NeverOvertaken'
  <2>1. \A i \in 1 .. Len(gotRaw) : stamp'[i] = stamp[i]
    BY <1>0, <1>3, <1>5 DEF SamePrefix
  <2> QED
    BY <1>1, <2>1 DEF ReaderHas, NeverOvertaken
<1> QED
  BY <1>1, <1>8, <1>9, <1>10, <1>11, <1>12 DEF ReaderHas

LEMMA SameItself == ASSUME NEW s, NEW n PROVE SamePrefix(s, s, n)
BY DEF SamePrefix

LEMMA Stamped ==
  ASSUME NEW st, NEW k \in Nat, NEW m \in Nat, StampsOK(st, k, m), NEW n \in Nat, NEW q \in Nat, q <= k
  PROVE  /\ StampsOK(st \o [i \in 1 .. n |-> m], k + n, m)
         /\ SamePrefix(st \o [i \in 1 .. n |-> m], st, q)
<1> DEFINE x == [i \in 1 .. n |-> m]
           s2 == st \o x
<1>1. st \in Seq(Int) /\ Len(st) = k /\ \A i \in 1 .. k : st[i] <= m
  BY DEF StampsOK, CountOK
<1>2. x \in Seq(Int) /\ Len(x) = n /\ \A i \in 1 .. n : x[i] = m
  OBVIOUS
<1> HIDE DEF x
<1>3. /\ s2 \in Seq(Int) /\ Len(s2) = k + n /\ \A i \in 1 .. k : s2[i] = st[i]
      /\ \A i \in k + 1 .. k + n : s2[i] = x[i - k]
  BY <1>1, <1>2
<1> HIDE DEF s2
<1>4. \A i \in 1 .. k + n : s2[i] <= m
  <2> TAKE i \in 1 .. k + n
  <2>1. CASE i <= k
    <3>1. i \in 1 .. k
      BY <2>1
    <3> QED
      BY <3>1, <1>1, <1>3
  <2>2. CASE i > k
    <3>1. i \in k + 1 .. k + n /\ i - k \in 1 .. n
      BY <2>2
    <3>2. s2[i] = m
      BY <3>1, <1>2, <1>3
    <3> QED
      BY <3>2
  <2> QED
    BY <2>1, <2>2
<1>5. SamePrefix(s2, st, q)
  <2>1. \A i \in 1 .. q : i \in 1 .. k
    OBVIOUS
  <2> QED
    BY <1>3, <2>1 DEF SamePrefix
<1>6. StampsOK(s2, k + n, m)
  BY <1>3, <1>4 DEF StampsOK, CountOK
<1> QED
  BY <1>5, <1>6 DEF s2, x

LEMMA Counted ==
  ASSUME NEW s, NEW m \in Nat, CountOK(s, m), NEW v \in Int
  PROVE  SamePrefix(Append(s, v), s, m) /\ Append(s, v)[m + 1] = v
<1>1. s \in Seq(Int) /\ Len(s) = m
  BY DEF CountOK
<1> QED
  BY <1>1 DEF SamePrefix

LEMMA WaitingIs ==
  ASSUME NEW b, NEW E, NEW H, OutOK(b, E, H)
  PROVE  Waiting(b, E) \in Nat /\ ToWrite(b.pos, E) \in Nat
<1>1. PICK P \in Nat, l \in Nat, S \in Nat : Sound(b, OutSize, P, l, S) /\ OutNums(P, l, S, E, H)
  BY DEF OutOK
<1>2. b.len = l /\ b.size = S /\ b.pos = P
  BY <1>1 DEF Sound, IsBuf
<1>3. ToWrite(P, E) \in Nat /\ ToWrite(P, E) + Hdr <= l
  BY <1>1 DEF OutNums, ToWrite
<1> QED
  BY <1>2, <1>3, Sizes DEF Waiting

----------------------------------------------------------------------------
(* The writer adds frames and moves them to the pipe *)

LEMMA ContentSame ==
  ASSUME ContentInv,
         UNCHANGED <<out, msg, raw_flushing_ends_before, nraw, nmsg, stamp, msgLen, pipe, reader>>
  PROVE  ContentInv'
<1>1. UNCHANGED <<in, raw_input_ends_before, rop, gotRaw, gotMsg>>
  BY DEF reader
<1> QED
  BY <1>1 DEF ContentInv, WriterHas, PipeHas, ReaderHas, NeverOvertaken

LEMMA ContinuesItself == ASSUME NEW T, NEW c PROVE Continues(T, T, c)
BY DEF Continues

LEMMA ExtendsItself == ASSUME NEW F, NEW e PROVE Extends(F, F, e)
BY DEF Extends

\* What the writer holds ends where the next frame begins.
LEMMA WriterEnd ==
  ASSUME NEW A, WriterOK(A), NEW F, NEW T, NEW t, NEW c, Frames(F, T, t, c, stamp, msgLen), NEW w \in Nat,
         WriterHas(out, raw_flushing_ends_before, F, T, c, w)
  PROVE  /\ ToWrite(out.pos, raw_flushing_ends_before) \in Nat /\ Waiting(out, raw_flushing_ends_before) \in Nat
         /\ msg.len \in Nat /\ w <= T[c].b /\ T[c].b \in Nat /\ T[c].q \in Nat /\ T[c].m \in Nat
         /\ T[c].q <= nraw /\ nraw \in Nat /\ nmsg \in Nat /\ T[c].m = nmsg
         /\ w + ToWrite(out.pos, raw_flushing_ends_before) + msg.len = T[c].b
         /\ w + ToWrite(out.pos, raw_flushing_ends_before) \in Nat
<1>1. /\ ToWrite(out.pos, raw_flushing_ends_before) \in Nat /\ Waiting(out, raw_flushing_ends_before) \in Nat
      /\ msg.len \in Nat /\ nraw \in Nat
  BY WaitingIs, MsgFacts DEF WriterOK
<1>2. T[c].b \in Nat /\ T[c].q \in Nat /\ T[c].m \in Nat
  BY DEF Frames, Place
<1>3. /\ w + ToWrite(out.pos, raw_flushing_ends_before) + msg.len = T[c].b
      /\ T[c].q + Waiting(out, raw_flushing_ends_before) = nraw /\ T[c].m = nmsg
  BY DEF WriterHas
<1> QED
  BY <1>1, <1>2, <1>3

\* write_buf, once there is room
LEMMA PutRawContent ==
  ASSUME NEW A, WriterOK(A), ReaderOK, ContentInv, NEW n \in Nat, n >= 1, OutRoom(n), PutRaw(n),
         UNCHANGED <<raw_flushing_ends_before, pipe, reader>>
  PROVE  ContentInv'
<1> DEFINE E == raw_flushing_ends_before
<1>1. PICK F, T : \E t \in Nat, c \in Nat, r \in Nat, w \in Nat :
        Frames(F, T, t, c, stamp, msgLen) /\ WriterHas(out, E, F, T, c, w) /\ PipeHas(F, r, w) /\ ReaderHas(F, T, t, c, r)
  BY DEF ContentInv
<1>2. PICK t \in Nat, c \in Nat, r \in Nat, w \in Nat :
        Frames(F, T, t, c, stamp, msgLen) /\ WriterHas(out, E, F, T, c, w) /\ PipeHas(F, r, w) /\ ReaderHas(F, T, t, c, r)
  BY <1>1
<1>3. /\ w <= T[c].b /\ T[c].q \in Nat /\ T[c].q <= nraw /\ nraw \in Nat /\ nmsg \in Nat
      /\ Waiting(out, E) \in Nat
  BY <1>2, WriterEnd
<1>4. UNCHANGED <<msg, nmsg, msgLen>> /\ nraw' = nraw + n /\ stamp' = stamp \o [k \in 1 .. n |-> nmsg]
  BY DEF PutRaw
<1>5. /\ OutHas(out, E, F, w, T[c].q) /\ T[c].q + Waiting(out, E) = nraw /\ StampsOK(stamp, nraw, nmsg)
      /\ BufHas(msg, F, w + ToWrite(out.pos, E)) /\ w + ToWrite(out.pos, E) + msg.len = T[c].b /\ T[c].m = nmsg
  BY <1>2 DEF WriterHas
<1>6. OutHas(out', E, F, w, T[c].q) /\ Waiting(out', E) = Waiting(out, E) + n /\ out'.pos = out.pos
  BY <1>3, <1>5, PutRawHas DEF WriterOK
<1>7. StampsOK(stamp', nraw + n, nmsg) /\ SamePrefix(stamp', stamp, T[c].q)
  <2> DEFINE s2 == stamp \o [k \in 1 .. n |-> nmsg]
  <2>1. StampsOK(s2, nraw + n, nmsg) /\ SamePrefix(s2, stamp, T[c].q)
    BY <1>3, <1>5, Stamped
  <2>2. stamp' = s2
    BY <1>4
  <2> HIDE DEF s2
  <2> QED
    BY <2>1, <2>2
<1>8. SamePrefix(msgLen', msgLen, T[c].m)
  BY <1>4, SameItself
<1>9. Frames(F, T, t, c, stamp', msgLen')
  BY <1>2, <1>7, <1>8, ExtendsItself, FramesStay
<1>10. PipeHas(F, r, w) /\ ReaderHas(F, T, t, c, r)'
  <2>1. c \in {c, c + 1}
    OBVIOUS
  <2> QED
    BY <1>2, <1>3, <1>7, <1>8, <2>1, ExtendsItself, ContinuesItself, ReaderStays, Zenon
<1>11. PipeHas(F, r, w)'
  BY <1>10 DEF PipeHas, reader
<1>12. WriterHas(out, E, F, T, c, w)'
  <2>1. T[c].q + (Waiting(out, E) + n) = nraw + n
    BY <1>3, <1>5
  <2> QED
    BY <1>4, <1>5, <1>6, <1>7, <2>1 DEF WriterHas
<1> QED
  BY <1>9, <1>10, <1>11, <1>12 DEF ContentInv

SameBytes(b2, b) == \A F : \A a \in Nat : BufHas(b, F, a) => BufHas(b2, F, a)

\* send_msg, once there is room in b
LEMMA PutMsgContent ==
  ASSUME NEW A, WriterOK(A), ReaderOK, ContentInv,
         NEW b, NEW B, NEW P, NEW l, NEW S, Sound(b, B, P, l, S), MsgNums(B, P, l, S), l = msg.len,
         SameBytes(b, msg),
         NEW n \in 0 .. MaxLen, l + n + Hdr + Hdr - 1 <= S, NEW code \in {"data", "msg"}, code = "data" => n = 0,
         PutMsg(b, code, n), UNCHANGED <<raw_flushing_ends_before, pipe, reader>>
  PROVE  ContentInv'
<1> DEFINE E == raw_flushing_ends_before
<1>1. PICK F, T : \E t \in Nat, c \in Nat, r \in Nat, w \in Nat :
        Frames(F, T, t, c, stamp, msgLen) /\ WriterHas(out, E, F, T, c, w) /\ PipeHas(F, r, w) /\ ReaderHas(F, T, t, c, r)
  BY DEF ContentInv
<1>2. PICK t \in Nat, c \in Nat, r \in Nat, w \in Nat :
        Frames(F, T, t, c, stamp, msgLen) /\ WriterHas(out, E, F, T, c, w) /\ PipeHas(F, r, w) /\ ReaderHas(F, T, t, c, r)
  BY <1>1
<1> DEFINE e == T[c].b
           a == w + ToWrite(out.pos, E)
           hc == HdrCells(code, nmsg + 1, n)
           mc == MsgCells(nmsg + 1, n)
           kind == IF code = "data" THEN "alive" ELSE "msg"
           v == IF code = "data" THEN KeepAlive ELSE n
<1>3. /\ w <= e /\ e \in Nat /\ T[c].q \in Nat /\ T[c].m \in Nat /\ nmsg \in Nat /\ T[c].m = nmsg
      /\ a \in Nat /\ l \in Nat /\ a + l = e /\ n \in Nat /\ v \in Int
  BY <1>2, WriterEnd, Sizes DEF KeepAlive
<1>4. UNCHANGED <<out, nraw, stamp>> /\ nmsg' = nmsg + 1 /\ msgLen' = Append(msgLen, v)
  BY DEF PutMsg
<1>5. /\ OutHas(out, E, F, w, T[c].q) /\ T[c].q + Waiting(out, E) = nraw /\ StampsOK(stamp, nraw, nmsg)
      /\ BufHas(msg, F, a) /\ Waiting(out, E) \in Nat /\ ToWrite(out.pos, E) \in Nat
  BY <1>2, WriterEnd DEF WriterHas
<1>f. PICK F2 : F2 = WithFrame(F, e, hc, mc)
  OBVIOUS
<1> HIDE DEF kind, v
<1>6. BufHas(msg', F2, a) /\ msg'.len = l + Hdr + n
  <2>1. BufHas(b, F, a)
    BY <1>3, <1>5 DEF SameBytes
  <2> HIDE DEF a, e
  <2>2. BufHas(msg', WithFrame(F, a + l, HdrCells(code, nmsg + 1, n), MsgCells(nmsg + 1, n)), a) /\ msg'.len = l + Hdr + n
    <3>1. n \in Nat /\ nmsg \in Nat /\ a \in Nat
      BY <1>3
    <3> QED
      BY <3>1, <2>1, PutMsgHas
  <2> QED
    BY <1>3, <1>f, <2>2
<1>7. Extends(F2, F, e) /\ Lists(F2, e, Hdr, hc) /\ Lists(F2, e + Hdr, n, mc)
  BY <1>3, <1>f, WithFrameIs
<1>8. hc[1] = <<"hdr", code, nmsg + 1, n, 1>>
  BY Sizes DEF HdrCells
<1> HIDE DEF hc, a
<1>9. F2[e] = hc[1]
  <2>1. 1 \in 1 .. Hdr /\ e + 1 - 1 = e
    BY <1>3, Sizes
  <2> QED
    BY <1>7, <2>1 DEF Lists
<1>10. SamePrefix(msgLen', msgLen, T[c].m) /\ msgLen'[nmsg + 1] = v
  <2>1. CountOK(msgLen, nmsg) /\ nmsg \in Nat /\ v \in Int
    BY <1>3 DEF WriterOK
  <2>2. SamePrefix(msgLen', msgLen, nmsg) /\ msgLen'[nmsg + 1] = v
    BY <1>4, <2>1, Counted, Zenon
  <2> QED
    BY <1>3, <2>2
<1>11. SamePrefix(stamp', stamp, T[c].q)
  BY <1>4, SameItself
<1>12. Frames(F2, T, t, c, stamp', msgLen')
  BY <1>2, <1>7, <1>10, <1>11, FramesStay
<1>13. Frame(F2, T[c].b, kind, n, T[c].q, T[c].m, stamp', msgLen')
  <2>1. /\ kind \in Kinds /\ kind # "chunk" /\ (kind = "alive" <=> code = "data") /\ (kind = "msg" <=> code = "msg")
    BY DEF kind, Kinds
  <2>2. F2[T[c].b] = <<"hdr", IF kind = "msg" THEN "msg" ELSE "data", IF kind = "chunk" THEN 0 ELSE T[c].m + 1, n, 1>>
    BY <1>3, <1>8, <1>9, <2>1
  <2>3. kind = "msg" => Lists(F2, T[c].b + Hdr, n, MsgCells(T[c].m + 1, n)) /\ msgLen'[T[c].m + 1] = n
    BY <1>3, <1>7, <1>10, <2>1 DEF v
  <2>4. kind = "alive" => n = 0 /\ msgLen'[T[c].m + 1] = KeepAlive
    BY <1>3, <1>10, <2>1 DEF v
  <2> QED
    BY <1>3, <2>1, <2>2, <2>3, <2>4 DEF Frame
<1>14. PICK T2 : /\ Frames(F2, T2, t, c + 1, stamp', msgLen') /\ Continues(T2, T, c)
                 /\ NextFrame([b |-> T[c].b, k |-> kind, l |-> n, q |-> T[c].q, m |-> T[c].m], T2[c + 1])
  BY <1>12, <1>13, FramesAdd
<1>15. T2[c + 1].b = e + Hdr + n /\ T2[c + 1].q = T[c].q /\ T2[c + 1].m = nmsg + 1
  BY <1>3, <1>14 DEF NextFrame, kind
<1>16. PipeHas(F2, r, w) /\ ReaderHas(F2, T2, t, c + 1, r)'
  <2>1. c + 1 \in {c, c + 1}
    OBVIOUS
  <2> QED
    <3>1. w <= T[c].b /\ Extends(F2, F, T[c].b) /\ Continues(T2, T, c)
      BY <1>3, <1>7, <1>14
    <3>2. UNCHANGED reader
      OBVIOUS
    <3> QED
      BY <1>2, <1>10, <1>11, <2>1, <3>1, <3>2, ReaderStays, Zenon
<1>17. PipeHas(F2, r, w)'
  BY <1>16 DEF PipeHas, reader
<1>18. OutHas(out, E, F2, w, T[c].q)
  <2>1. /\ Holds(out.buf, out.pos, out.size, 0, ToWrite(out.pos, E), F, w)
        /\ Holds(out.buf, out.pos, out.size, ToWrite(out.pos, E) + Hdr, out.len - ToWrite(out.pos, E) - Hdr, Raws, T[c].q)
    BY <1>5 DEF OutHas
  <2> DEFINE m == ToWrite(out.pos, E)
  <2>2. m \in Int /\ 0 + m <= m /\ w + m <= e /\ e \in Int /\ 0 \in Nat
    BY <1>3, <1>5 DEF a
  <2>3. SameStart(out.buf, out.buf, out.pos, out.size, m)
    BY DEF SameStart
  <2>4. Holds(out.buf, out.pos, out.size, 0, m, F2, w)
    <3> HIDE DEF m, e
    <3>1. Holds(out.buf, out.pos, out.size, 0, m, F, w)
      BY <2>1 DEF m
    <3> QED
      BY <3>1, <2>2, <2>3, <1>7, HoldsSame
  <2> QED
    BY <2>1, <2>4 DEF OutHas
<1>19. StampsOK(stamp, nraw, nmsg + 1)
  BY <1>3, <1>5 DEF StampsOK, CountOK
<1>20. WriterHas(out, E, F2, T2, c + 1, w)'
  <2>1. a + msg'.len = T2[c + 1].b
    BY <1>3, <1>6, <1>15, Sizes
  <2>2. w + ToWrite(out.pos, E) = a
    BY DEF a
  <2> QED
    BY <1>4, <1>5, <1>6, <1>15, <1>18, <1>19, <2>1, <2>2 DEF WriterHas
<1>21. c + 1 \in Nat
  OBVIOUS
<1> QED
  BY <1>14, <1>16, <1>17, <1>20, <1>21 DEF ContentInv

LEMMA PipeGrows ==
  ASSUME NEW p, PipeOK(p), NEW F, NEW x \in Nat, Lists(F, x, Len(p), p),
         NEW n \in Nat, NEW cells \in CellsOf(Cells, n), Lists(F, x + Len(p), n, cells)
  PROVE  Lists(F, x, Len(p \o cells), p \o cells) /\ Len(p \o cells) = Len(p) + n
<1> DEFINE y == Len(p)
           s == p \o cells
<1>1. p \in Seq(Cells) /\ y \in Nat /\ cells \in Seq(Cells) /\ Len(cells) = n
  BY DEF PipeOK, CellsOf
<1>2. /\ Len(s) = y + n /\ \A i \in 1 .. y : s[i] = p[i]
      /\ \A i \in y + 1 .. y + n : s[i] = cells[i - y]
  BY <1>1
<1> HIDE DEF s, y
<1>3. \A i \in 1 .. y + n : F[x + i - 1] = s[i]
  <2> TAKE i \in 1 .. y + n
  <2>1. CASE i <= y
    <3>1. i \in 1 .. y
      BY <1>1, <2>1
    <3>2. F[x + i - 1] = p[i]
      BY <3>1 DEF Lists, y
    <3> QED
      BY <3>1, <3>2, <1>2
  <2>2. CASE i > y
    <3>1. i \in y + 1 .. y + n /\ i - y \in 1 .. n /\ x + y + (i - y) - 1 = x + i - 1
      BY <1>1, <2>2
    <3>2. F[x + y + (i - y) - 1] = cells[i - y]
      BY <3>1 DEF Lists, y
    <3> QED
      BY <3>1, <3>2, <1>2
  <2> QED
    BY <1>1, <2>1, <2>2
<1>4. Lists(F, x, Len(s), s)
  BY <1>2, <1>3 DEF Lists
<1> QED
  BY <1>2, <1>4 DEF s, y

\* A chunk is one more frame.
LEMMA StartChunkContent ==
  ASSUME NEW A, WriterOK(A), raw_flushing_ends_before = 0, out.len > Hdr, msg.len = 0,
         NEW F, NEW T, NEW t \in Nat, NEW c \in Nat, NEW w \in Nat, Frames(F, T, t, c, stamp, msgLen),
         WriterHas(out, 0, F, T, c, w)
  PROVE  \E F2, T2 : /\ Frames(F2, T2, t, c + 1, stamp, msgLen) /\ Extends(F2, F, T[c].b) /\ Continues(T2, T, c)
                     /\ WriterHas(StartChunk.out, StartChunk.ends, F2, T2, c + 1, w)
<1> DEFINE k == Waiting(out, 0)
           q == T[c].q
           hc == HdrCells("data", 0, k)
           F2 == WithFrame(F, w, hc, RawFrom(q))
           o == StartChunk.out
           E == StartChunk.ends
<1>1. /\ ToWrite(out.pos, 0) = 0 /\ T[c].b \in Nat /\ q \in Nat /\ T[c].m \in Nat /\ nraw \in Nat /\ nmsg \in Nat
      /\ T[c].m = nmsg /\ w + ToWrite(out.pos, 0) + msg.len = T[c].b
  BY WriterEnd DEF ToWrite
<1>2. w = T[c].b
  BY <1>1
<1>3. /\ OutHas(out, 0, F, w, q) /\ q + k = nraw /\ StampsOK(stamp, nraw, nmsg)
  BY DEF WriterHas
<1>4. OutOK(out, 0, raw_data_header_pos)
  BY DEF WriterOK
<1>5. /\ OutHas(o, E, F2, w, q + k)
      /\ k \in Nat /\ k >= 1
      /\ Waiting(o, E) = 0
      /\ ToWrite(o.pos, E) = Hdr + k
  BY <1>1, <1>3, <1>4, StartChunkHas
<1> HIDE DEF k, o, E
<1>6. Extends(F2, F, w) /\ Lists(F2, w, Hdr, hc) /\ Lists(F2, w + Hdr, k, RawFrom(q))
  BY <1>5, WithFrameIs
<1>7. hc[1] = <<"hdr", "data", 0, k, 1>>
  BY Sizes DEF HdrCells
<1> HIDE DEF F2, hc
<1>8. F2[w] = hc[1]
  <2>1. 1 \in 1 .. Hdr /\ w + 1 - 1 = w
    BY Sizes
  <2> QED
    BY <1>6, <2>1 DEF Lists
<1>9. \A i \in 1 .. k : stamp[q + i] <= nmsg
  <2>1. \A i \in 1 .. k : q + i \in 1 .. nraw
    BY <1>1, <1>3, <1>5
  <2> QED
    BY <1>3, <2>1 DEF StampsOK
<1>10. Frames(F2, T, t, c, stamp, msgLen)
  BY <1>2, <1>6, SameItself, FramesStay
<1>11. Frame(F2, T[c].b, "chunk", k, T[c].q, T[c].m, stamp, msgLen)
  BY <1>1, <1>2, <1>5, <1>6, <1>7, <1>8, <1>9 DEF Frame, Kinds
<1>12. PICK T2 : /\ Frames(F2, T2, t, c + 1, stamp, msgLen) /\ Continues(T2, T, c)
                 /\ NextFrame([b |-> T[c].b, k |-> "chunk", l |-> k, q |-> T[c].q, m |-> T[c].m], T2[c + 1])
  BY <1>10, <1>11, FramesAdd
<1>13. T2[c + 1].b = w + Hdr + k /\ T2[c + 1].q = q + k /\ T2[c + 1].m = nmsg
  BY <1>1, <1>2, <1>12 DEF NextFrame
<1>14. BufHas(msg, F2, w + ToWrite(o.pos, E))
  BY NothingHeld DEF BufHas
<1>15. WriterHas(o, E, F2, T2, c + 1, w)
  <2>1. w + ToWrite(o.pos, E) + msg.len = T2[c + 1].b /\ T2[c + 1].q + Waiting(o, E) = nraw
    BY <1>1, <1>3, <1>5, <1>13, Sizes
  <2> QED
    BY <1>3, <1>5, <1>13, <1>14, <2>1 DEF WriterHas
<1> QED
  BY <1>2, <1>6, <1>12, <1>15 DEF o, E

\* perform_io writes n bytes of o, in which a chunk is begun.
LEMMA ChunkContent ==
  ASSUME NEW o, NEW E, NEW H, OutOK(o, E, H), E # 0, NEW n \in Nat, n >= 1, o.pos + n <= E, o.pos + n <= o.size,
         msg.len \in Nat,
         NEW F, NEW T, NEW c \in Nat, NEW w \in Nat, T[c].q \in Nat,
         WriterHas(o, E, F, T, c, w)
  PROVE  /\ WriterHas(Written(o, n, Hdr), EndsAfter(o, n, E), F, T, c, w + n)
         /\ Lists(F, w, n, FirstOf(o, n)) /\ FirstOf(o, n) \in CellsOf(Cells, n)
<1>d. PICK o2, E2, c0 : o2 = Written(o, n, Hdr) /\ E2 = EndsAfter(o, n, E) /\ c0 = ToWrite(o.pos, E)
  OBVIOUS
<1>1. /\ OutHas(o, E, F, w, T[c].q) /\ BufHas(msg, F, w + c0) /\ w + c0 + msg.len = T[c].b
      /\ T[c].q + Waiting(o, E) = nraw /\ T[c].m = nmsg /\ StampsOK(stamp, nraw, nmsg)
  BY <1>d DEF WriterHas
<1>2. /\ OutHas(o2, E2, F, w + n, T[c].q) /\ Waiting(o2, E2) = Waiting(o, E)
      /\ ToWrite(o2.pos, E2) = c0 - n /\ Lists(F, w, n, FirstOf(o, n))
  <2>1. PICK q \in Nat : q = T[c].q
    OBVIOUS
  <2>2. OutHas(o, E, F, w, q)
    BY <1>1, <2>1
  <2>3. /\ OutHas(Written(o, n, Hdr), E2, F, w + n, q)
        /\ Waiting(Written(o, n, Hdr), E2) = Waiting(o, E)
        /\ ToWrite(Written(o, n, Hdr).pos, E2) = ToWrite(o.pos, E) - n
        /\ Lists(F, w, n, FirstOf(o, n))
    BY <1>d, <2>2, ChunkWriteHas
  <2> QED
    BY <1>d, <2>1, <2>3
<1>3. c0 \in Nat
  BY <1>d, WaitingIs
<1>4. FirstOf(o, n) \in CellsOf(Cells, n)
  <2>1. o.pos \in Nat /\ o.size \in Nat /\ o.size <= OutSize /\ o.buf \in [0 .. OutSize + Hdr - 1 -> Cells]
    BY OutFacts
  <2>2. OutSize + Hdr - 1 \in Int /\ o.pos + n <= (OutSize + Hdr - 1) + 1
    BY <2>1, Sizes
  <2> QED
    BY <2>1, <2>2, FirstBytes DEF FirstOf
<1>6. (w + n) + (c0 - n) = w + c0
  BY <1>3
<1>7. WriterHas(o2, E2, F, T, c, w + n)
  BY <1>1, <1>2, <1>6 DEF WriterHas
<1> QED
  BY <1>d, <1>2, <1>4, <1>7

\* What is written goes to the pipe.
LEMMA PipeMoves ==
  ASSUME ReaderOK, NEW F, NEW r \in Nat, NEW w \in Nat, PipeHas(F, r, w), NEW n \in Nat,
         NEW cells \in CellsOf(Cells, n), Lists(F, w, n, cells), pipe' = pipe \o cells, UNCHANGED in
  PROVE  PipeHas(F, r, w + n)'
<1>1. w = r + in.len + Len(pipe) /\ Lists(F, r + in.len, Len(pipe), pipe)
  BY DEF PipeHas
<1>2. PipeOK(pipe) /\ in.len \in Nat /\ Len(pipe) \in Nat
  BY InFacts, PipeFacts DEF ReaderOK
<1>d. PICK x : x = r + in.len
  OBVIOUS
<1>3. x \in Nat /\ x + Len(pipe) = w
  BY <1>d, <1>1, <1>2
<1>4. Lists(F, x, Len(pipe), pipe) /\ Lists(F, x + Len(pipe), n, cells)
  BY <1>d, <1>1, <1>3
<1>5. Lists(F, x, Len(pipe \o cells), pipe \o cells) /\ Len(pipe \o cells) = Len(pipe) + n
  BY <1>2, <1>3, <1>4, PipeGrows
<1>6. Lists(F, x, Len(pipe'), pipe') /\ Len(pipe') = Len(pipe) + n
  BY <1>5
<1>7. w + n = r + in.len + Len(pipe')
  <2>1. PICK y, z : y = Len(pipe') /\ z = in.len
    OBVIOUS
  <2>2. y = Len(pipe) + n /\ x = r + z /\ z \in Nat
    BY <1>d, <1>2, <1>6, <2>1
  <2>3. w + n = r + z + y
    BY <1>2, <1>3, <2>2
  <2> QED
    BY <2>1, <2>3
<1> QED
  BY <1>d, <1>6, <1>7 DEF PipeHas

\* What a round of perform_io writes.
LEMMA ChunkRound ==
  ASSUME NEW A, WriterOK(A), PipeOK(pipe), PerformWrite, OutFirst
  PROVE  \E o, E, H : \E n \in Nat :
           /\ OutOK(o, E, H) /\ E # 0 /\ n >= 1 /\ o.pos + n <= E /\ o.pos + n <= o.size
           /\ pipe' = pipe \o FirstOf(o, n) /\ out' = Written(o, n, Hdr)
           /\ raw_flushing_ends_before' = EndsAfter(o, n, E) /\ UNCHANGED msg
           /\ raw_flushing_ends_before = 0 => o = StartChunk.out /\ E = StartChunk.ends
           /\ raw_flushing_ends_before # 0 => o = out /\ E = raw_flushing_ends_before
<1>0. OutOK(out, raw_flushing_ends_before, raw_data_header_pos)
  BY DEF WriterOK
<1>2. PipeCap - Len(pipe) \in Int
  BY PipeFacts, Sizes
<1> DEFINE c == IF raw_flushing_ends_before = 0 THEN StartChunk
                ELSE [out |-> out, hdr |-> raw_data_header_pos, ends |-> raw_flushing_ends_before]
           o == c.out
           E == c.ends
           H == c.hdr
           len == Min({E - o.pos, o.size - o.pos})
<1>3. PICK n \in 1 .. Min({len, PipeCap - Len(pipe)}) :
        /\ pipe' = pipe \o [k \in 1 .. n |-> o.buf[o.pos + k - 1]]
        /\ out' = Written(o, n, Hdr)
        /\ raw_flushing_ends_before' = IF o.pos + n = o.size THEN E - o.size
                                       ELSE IF o.pos + n = E THEN 0 ELSE E
        /\ UNCHANGED msg
  BY Zenon DEF PerformWrite
<1>4. /\ raw_flushing_ends_before = 0 => o = StartChunk.out /\ E = StartChunk.ends /\ H = StartChunk.hdr
      /\ raw_flushing_ends_before # 0 => o = out /\ E = raw_flushing_ends_before /\ H = raw_data_header_pos
  OBVIOUS
<1> HIDE DEF c, o, E, H
<1>5. OutOK(o, E, H) /\ E # 0
  <2>1. CASE raw_flushing_ends_before = 0
    <3>1. out.len > Hdr
      BY <2>1 DEF OutFirst
    <3>2. OutOK(out, 0, raw_data_header_pos)
      BY <1>0, <2>1
    <3>3. OutOK(StartChunk.out, StartChunk.ends, StartChunk.hdr) /\ StartChunk.ends # 0
      BY <3>1, <3>2, StartChunkOK
    <3> QED
      BY <1>4, <2>1, <3>3, Zenon
  <2>2. CASE raw_flushing_ends_before # 0
    BY <1>0, <1>4, <2>2
  <2> QED
    BY <2>1, <2>2
<1>6. o.pos \in Nat /\ o.size \in Nat /\ E \in Nat
  BY <1>5, OutFacts
<1>7. n \in Nat /\ n >= 1 /\ o.pos + n <= E /\ o.pos + n <= o.size
  <2> DEFINE x == E - o.pos
             y == o.size - o.pos
             z == PipeCap - Len(pipe)
  <2>1. x \in Int /\ y \in Int /\ z \in Int
    BY <1>6, <1>2
  <2>2. len = IF x <= y THEN x ELSE y
    BY <2>1, Minimum2
  <2>3. len \in Int
    BY <2>1, <2>2
  <2>4. Min({len, z}) = IF len <= z THEN len ELSE z
    BY <2>1, <2>3, Minimum2
  <2> HIDE DEF len, z
  <2>5. n \in Nat /\ n >= 1 /\ n <= x /\ n <= y
    BY <2>1, <2>2, <2>3, <2>4 DEF z
  <2> QED
    BY <1>6, <2>5
<1>8. pipe' = pipe \o FirstOf(o, n) /\ out' = Written(o, n, Hdr) /\ UNCHANGED msg
  BY <1>3, Zenon DEF FirstOf
<1>9. raw_flushing_ends_before' = EndsAfter(o, n, E)
  BY <1>3, Zenon DEF EndsAfter
<1>10. /\ raw_flushing_ends_before = 0 => o = StartChunk.out /\ E = StartChunk.ends
       /\ raw_flushing_ends_before # 0 => o = out /\ E = raw_flushing_ends_before
  BY <1>4, Zenon
<1> QED
  BY <1>5, <1>7, <1>8, <1>9, <1>10, Zenon

LEMMA MsgRound ==
  ASSUME NEW A, WriterOK(A), PipeOK(pipe), PerformWrite, ~OutFirst
  PROVE  \E n \in Nat :
           /\ n >= 1 /\ n <= msg.len /\ msg.pos + n <= msg.size
           /\ FirstOf(msg, n) \in CellsOf(Cells, n)
           /\ pipe' = pipe \o FirstOf(msg, n) /\ msg' = Written(msg, n, 0)
           /\ UNCHANGED <<out, raw_flushing_ends_before>>
<1>1. /\ msg.pos \in Nat /\ msg.len \in Nat /\ msg.size \in Nat /\ msg.size <= A /\ A \in Nat
      /\ msg.buf \in [0 .. A + Hdr - 1 -> Cells]
  BY MsgFacts DEF WriterOK
<1>2. PipeCap - Len(pipe) \in Int
  BY PipeFacts, Sizes
<1>3. PICK n \in 1 .. Min({msg.len, msg.size - msg.pos, PipeCap - Len(pipe)}) :
        /\ pipe' = pipe \o [k \in 1 .. n |-> msg.buf[msg.pos + k - 1]]
        /\ msg' = Written(msg, n, 0)
        /\ UNCHANGED <<out, raw_flushing_ends_before>>
  BY Zenon DEF PerformWrite
<1>4. n \in Nat /\ n >= 1 /\ n <= msg.len /\ msg.pos + n <= msg.size
  <2> DEFINE x == msg.len
             y == msg.size - msg.pos
             z == PipeCap - Len(pipe)
             m == Min({x, y, z})
  <2>1. x \in Int /\ y \in Int /\ z \in Int
    BY <1>1, <1>2
  <2>2. m \in {x, y, z} /\ m <= x /\ m <= y
    BY <2>1, Minimum3
  <2>3. n \in 1 .. m
    OBVIOUS
  <2> HIDE DEF m, z
  <2>4. n \in Nat /\ n >= 1 /\ n <= x /\ n <= y
    BY <2>1, <2>2, <2>3 DEF z
  <2> QED
    BY <1>1, <2>4
<1>5. FirstOf(msg, n) \in CellsOf(Cells, n)
  <2>1. A + Hdr - 1 \in Int /\ msg.pos + n <= (A + Hdr - 1) + 1
    BY <1>1, <1>4, Sizes
  <2> QED
    BY <1>1, <1>4, <2>1, FirstBytes DEF FirstOf
<1>6. pipe' = pipe \o FirstOf(msg, n) /\ msg' = Written(msg, n, 0) /\ UNCHANGED <<out, raw_flushing_ends_before>>
  BY <1>3, Zenon DEF FirstOf
<1> QED
  BY <1>4, <1>5, <1>6, Zenon

\* A round of perform_io moves bytes from a buffer to the pipe.
LEMMA ChunkRoundContent ==
  ASSUME NEW A, WriterOK(A), ReaderOK, ContentInv, PerformWrite, OutFirst
  PROVE  ContentInv'
<1> DEFINE Ef == raw_flushing_ends_before
<1>1. PICK F, T : \E t \in Nat, c \in Nat, r \in Nat, w \in Nat :
        Frames(F, T, t, c, stamp, msgLen) /\ WriterHas(out, Ef, F, T, c, w) /\ PipeHas(F, r, w) /\ ReaderHas(F, T, t, c, r)
  BY DEF ContentInv
<1>2. PICK t \in Nat, c \in Nat, r \in Nat, w \in Nat :
        Frames(F, T, t, c, stamp, msgLen) /\ WriterHas(out, Ef, F, T, c, w) /\ PipeHas(F, r, w) /\ ReaderHas(F, T, t, c, r)
  BY <1>1
<1>3. UNCHANGED <<nraw, nmsg, stamp, msgLen>> /\ UNCHANGED reader
  BY DEF PerformWrite
<1>4. UNCHANGED in
  BY <1>3 DEF reader
<1>5. PipeOK(pipe)
  BY DEF ReaderOK
<1>6. PICK o, E, H : \E n \in Nat :
           /\ OutOK(o, E, H) /\ E # 0 /\ n >= 1 /\ o.pos + n <= E /\ o.pos + n <= o.size
           /\ pipe' = pipe \o FirstOf(o, n) /\ out' = Written(o, n, Hdr)
           /\ raw_flushing_ends_before' = EndsAfter(o, n, E) /\ UNCHANGED msg
           /\ raw_flushing_ends_before = 0 => o = StartChunk.out /\ E = StartChunk.ends
           /\ raw_flushing_ends_before # 0 => o = out /\ E = raw_flushing_ends_before
  BY <1>5, ChunkRound
<1>7. PICK n \in Nat :
           /\ OutOK(o, E, H) /\ E # 0 /\ n >= 1 /\ o.pos + n <= E /\ o.pos + n <= o.size
           /\ pipe' = pipe \o FirstOf(o, n) /\ out' = Written(o, n, Hdr)
           /\ raw_flushing_ends_before' = EndsAfter(o, n, E) /\ UNCHANGED msg
           /\ raw_flushing_ends_before = 0 => o = StartChunk.out /\ E = StartChunk.ends
           /\ raw_flushing_ends_before # 0 => o = out /\ E = raw_flushing_ends_before
  BY <1>6
<1>8. msg.len \in Nat /\ w <= T[c].b
  BY <1>2, WriterEnd
<1>r. \A F2, T2 : Extends(F2, F, T[c].b) /\ Continues(T2, T, c) =>
        PipeHas(F2, r, w) /\ ReaderHas(F2, T2, t, c, r)' /\ ReaderHas(F2, T2, t, c + 1, r)'
  <2>1. SamePrefix(stamp', stamp, T[c].q) /\ SamePrefix(msgLen', msgLen, T[c].m)
    BY <1>3, SameItself
  <2>2. UNCHANGED reader /\ w <= T[c].b
    BY <1>3, <1>8
  <2> QED
    <3> SUFFICES ASSUME NEW F2, NEW T2, Extends(F2, F, T[c].b), Continues(T2, T, c)
                 PROVE  PipeHas(F2, r, w) /\ ReaderHas(F2, T2, t, c, r)' /\ ReaderHas(F2, T2, t, c + 1, r)'
      BY Zenon
    <3>1. c \in {c, c + 1}
      OBVIOUS
    <3>2. c + 1 \in {c, c + 1}
      OBVIOUS
    <3>3. PipeHas(F2, r, w) /\ ReaderHas(F2, T2, t, c, r)'
      BY <1>2, <2>1, <2>2, <3>1, ReaderStays, Zenon
    <3>4. ReaderHas(F2, T2, t, c + 1, r)'
      BY <1>2, <2>1, <2>2, <3>2, ReaderStays, Zenon
    <3> QED
      BY <3>3, <3>4
<1>9. \E F2, T2 : \E c2 \in {c, c + 1} :
        /\ Frames(F2, T2, t, c2, stamp, msgLen) /\ Extends(F2, F, T[c].b) /\ Continues(T2, T, c)
        /\ WriterHas(o, E, F2, T2, c2, w)
  <2>1. CASE raw_flushing_ends_before = 0
    <3>1. out.len > Hdr /\ msg.len = 0
      BY <2>1 DEF OutFirst
    <3>2. WriterHas(out, 0, F, T, c, w)
      BY <1>2, <2>1
    <3>3. \E F2, T2 : /\ Frames(F2, T2, t, c + 1, stamp, msgLen) /\ Extends(F2, F, T[c].b) /\ Continues(T2, T, c)
                      /\ WriterHas(StartChunk.out, StartChunk.ends, F2, T2, c + 1, w)
      BY <1>2, <2>1, <3>1, <3>2, StartChunkContent
    <3>4. o = StartChunk.out /\ E = StartChunk.ends
      BY <1>7, <2>1
    <3> QED
      BY <3>3, <3>4
  <2>2. CASE raw_flushing_ends_before # 0
    <3>1. WriterHas(o, E, F, T, c, w)
      BY <1>2, <1>7, <2>2
    <3>2. c \in {c, c + 1}
      OBVIOUS
    <3> QED
      BY <1>2, <3>1, <3>2, ExtendsItself, ContinuesItself, Zenon
  <2> QED
    BY <2>1, <2>2
<1>10. PICK F2, T2 : \E c2 \in {c, c + 1} :
        /\ Frames(F2, T2, t, c2, stamp, msgLen) /\ Extends(F2, F, T[c].b) /\ Continues(T2, T, c)
        /\ WriterHas(o, E, F2, T2, c2, w)
  BY <1>9
<1>11. PICK c2 \in {c, c + 1} :
        /\ Frames(F2, T2, t, c2, stamp, msgLen) /\ Extends(F2, F, T[c].b) /\ Continues(T2, T, c)
        /\ WriterHas(o, E, F2, T2, c2, w)
  BY <1>10
<1>12. PipeHas(F2, r, w) /\ ReaderHas(F2, T2, t, c2, r)'
  BY <1>11, <1>r
<1>13. c2 \in Nat /\ T2[c2].q \in Nat /\ w + n \in Nat
  BY <1>11 DEF Frames, Place
<1>14. /\ WriterHas(Written(o, n, Hdr), EndsAfter(o, n, E), F2, T2, c2, w + n)
       /\ Lists(F2, w, n, FirstOf(o, n)) /\ FirstOf(o, n) \in CellsOf(Cells, n)
  BY <1>7, <1>8, <1>11, <1>13, ChunkContent
<1>15. WriterHas(out, raw_flushing_ends_before, F2, T2, c2, w + n)'
  BY <1>3, <1>7, <1>14 DEF WriterHas
<1>16. PipeHas(F2, r, w + n)'
  BY <1>4, <1>7, <1>12, <1>14, PipeMoves
<1>17. Frames(F2, T2, t, c2, stamp, msgLen)'
  BY <1>3, <1>11
<1> QED
  BY <1>12, <1>13, <1>15, <1>16, <1>17 DEF ContentInv

LEMMA MsgRoundContent ==
  ASSUME NEW A, WriterOK(A), ReaderOK, ContentInv, PerformWrite, ~OutFirst
  PROVE  ContentInv'
<1> DEFINE E == raw_flushing_ends_before
<1>1. PICK F, T : \E t \in Nat, c \in Nat, r \in Nat, w \in Nat :
        Frames(F, T, t, c, stamp, msgLen) /\ WriterHas(out, E, F, T, c, w) /\ PipeHas(F, r, w) /\ ReaderHas(F, T, t, c, r)
  BY DEF ContentInv
<1>2. PICK t \in Nat, c \in Nat, r \in Nat, w \in Nat :
        Frames(F, T, t, c, stamp, msgLen) /\ WriterHas(out, E, F, T, c, w) /\ PipeHas(F, r, w) /\ ReaderHas(F, T, t, c, r)
  BY <1>1
<1>3. UNCHANGED <<nraw, nmsg, stamp, msgLen>> /\ UNCHANGED reader
  BY DEF PerformWrite
<1>4. UNCHANGED in
  BY <1>3 DEF reader
<1>5. PipeOK(pipe)
  BY DEF ReaderOK
<1>6. PICK n \in Nat :
           /\ n >= 1 /\ n <= msg.len /\ msg.pos + n <= msg.size
           /\ FirstOf(msg, n) \in CellsOf(Cells, n)
           /\ pipe' = pipe \o FirstOf(msg, n) /\ msg' = Written(msg, n, 0)
           /\ UNCHANGED <<out, raw_flushing_ends_before>>
  BY <1>5, MsgRound
<1>7. E = 0 /\ ToWrite(out.pos, E) = 0
  BY DEF OutFirst, ToWrite
<1>8. msg.len \in Nat /\ w <= T[c].b /\ T[c].b \in Nat
  BY <1>2, WriterEnd
<1>9. /\ OutHas(out, 0, F, w, T[c].q) /\ BufHas(msg, F, w) /\ w + msg.len = T[c].b
      /\ T[c].q + Waiting(out, 0) = nraw /\ T[c].m = nmsg /\ StampsOK(stamp, nraw, nmsg)
  <2>1. WriterHas(out, 0, F, T, c, w) /\ ToWrite(out.pos, 0) = 0 /\ w + 0 = w
    BY <1>2, <1>7
  <2> QED
    BY <2>1 DEF WriterHas
<1>10. /\ BufHas(msg', F, w + n) /\ msg'.len = msg.len - n /\ Lists(F, w, n, FirstOf(msg, n))
  <2>1. MsgOK(msg, nmsg, A)
    BY DEF WriterOK
  <2>2. /\ BufHas(Written(msg, n, 0), F, w + n) /\ Written(msg, n, 0).len = msg.len - n
        /\ Lists(F, w, n, FirstOf(msg, n))
    BY <1>6, <1>9, <2>1, MsgWriteHas
  <2> QED
    BY <1>6, <2>2
<1>11. PipeHas(F, r, w) /\ ReaderHas(F, T, t, c, r)'
  <2>1. SamePrefix(stamp', stamp, T[c].q) /\ SamePrefix(msgLen', msgLen, T[c].m)
    BY <1>3, SameItself
  <2>2. c \in {c, c + 1}
    OBVIOUS
  <2> QED
    BY <1>2, <1>3, <1>8, <2>1, <2>2, ExtendsItself, ContinuesItself, ReaderStays, Zenon
<1>12. PipeHas(F, r, w + n)'
  BY <1>4, <1>6, <1>11, <1>10, PipeMoves
<1>13. OutHas(out, 0, F, w + n, T[c].q)
  <2>1. Holds(out.buf, out.pos, out.size, 0, 0, F, w + n)
    BY NothingHeld
  <2> QED
    BY <1>9, <2>1 DEF OutHas, ToWrite
<1>14. WriterHas(out, raw_flushing_ends_before, F, T, c, w + n)'
  <2>1. out' = out /\ raw_flushing_ends_before' = 0 /\ ToWrite(out.pos, 0) = 0 /\ (w + n) + 0 = w + n
    BY <1>6, <1>7
  <2>2. (w + n) + msg'.len = T[c].b
    BY <1>8, <1>9, <1>10
  <2> QED
    BY <1>3, <1>9, <1>10, <1>13, <2>1, <2>2 DEF WriterHas
<1>15. w + n \in Nat /\ Frames(F, T, t, c, stamp, msgLen)'
  BY <1>2, <1>3
<1> QED
  BY <1>11, <1>12, <1>14, <1>15 DEF ContentInv

LEMMA SendContent ==
  ASSUME NEW A, WriterOK(A), ReaderOK, ContentInv, NEW n \in 0 .. MaxLen, NEW code \in {"data", "msg"},
         code = "data" => n = 0, PutMsg(msg, code, n), MsgRoom(Needed(n)) \/ (msg.len = 0 /\ n = 0),
         UNCHANGED <<raw_flushing_ends_before, pipe, reader>>
  PROVE  ContentInv'
<1>1. MsgOK(msg, nmsg, A)
  BY DEF WriterOK
<1>2. PICK P \in Nat, l \in Nat, S \in Nat : Sound(msg, A, P, l, S) /\ MsgNums(A, P, l, S)
  BY <1>1 DEF MsgOK
<1>3. msg.len = l /\ msg.size = S
  BY <1>2, SoundFields
<1>4. l + n + Hdr + Hdr - 1 <= S
  <2>1. CASE MsgRoom(Needed(n))
    BY <1>3, <2>1, Sizes DEF MsgRoom, Needed
  <2>2. CASE msg.len = 0 /\ n = 0
    <3>1. S = A /\ A >= MsgSize /\ A \in Nat
      BY <1>2, <1>3, <2>2, Sizes DEF MsgNums
    <3> QED
      BY <1>3, <2>2, <3>1, Sizes
  <2> QED
    BY <2>1, <2>2
<1>5. SameBytes(msg, msg)
  BY DEF SameBytes
<1>6. l = msg.len
  BY <1>3
<1> QED
  BY <1>2, <1>4, <1>5, <1>6, PutMsgContent

LEMMA GrowContent ==
  ASSUME NEW A, WriterOK(A), ReaderOK, ContentInv, NEW n \in 0 .. MaxLen,
         PutMsg(Grown(msg), "msg", n), UNCHANGED <<raw_flushing_ends_before, pipe, reader>>
  PROVE  ContentInv'
<1>1. MsgOK(msg, nmsg, A)
  BY DEF WriterOK
<1>2. PICK P \in Nat, l \in Nat, S \in Nat : Sound(msg, A, P, l, S) /\ MsgNums(A, P, l, S)
  BY <1>1 DEF MsgOK
<1>3. msg.len = l
  BY <1>2, SoundFields
<1>4. Sound(Grown(msg), 2 * A, P, l, 2 * A)
  BY <1>2, GrownOK
<1>5. MsgNums(2 * A, P, l, 2 * A) /\ l + MsgSize <= 2 * A
  BY <1>2, MsgGrown
<1>6. l + n + Hdr + Hdr - 1 <= 2 * A
  <2>1. PICK B : B = 2 * A
    OBVIOUS
  <2>2. B \in Nat /\ l + MsgSize <= B
    BY <1>5, <2>1 DEF MsgNums
  <2>3. l + n + Hdr + Hdr - 1 <= B
    BY <2>2, Sizes
  <2> QED
    BY <2>1, <2>3
<1>7. SameBytes(Grown(msg), msg)
  BY <1>2, GrownHas DEF SameBytes
<1>8. l = msg.len /\ "msg" \in {"data", "msg"} /\ ("msg" = "data" => n = 0)
  BY <1>3
<1>9. \A b, B : Sound(b, B, P, l, B) /\ MsgNums(B, P, l, B) /\ SameBytes(b, msg) /\ l + n + Hdr + Hdr - 1 <= B
                 /\ PutMsg(b, "msg", n) => ContentInv'
  BY <1>8, PutMsgContent
<1> QED
  BY <1>4, <1>5, <1>6, <1>7, <1>9, Zenon

LEMMA WriterContent ==
  ASSUME NEW A, WriterOK(A), ReaderOK, ContentInv, Writer
  PROVE  ContentInv'
<1>1. ASSUME NEW n \in 1 .. MaxLen, write_buf(n) PROVE ContentInv'
  <2>1. n \in Nat /\ n >= 1 /\ UNCHANGED <<raw_flushing_ends_before, pipe, reader>>
    BY <1>1, Sizes DEF write_buf
  <2>2. CASE OutRoom(n)
    <3>1. PutRaw(n)
      BY <1>1, <2>2 DEF write_buf
    <3> QED
      BY <2>1, <2>2, <3>1, PutRawContent
  <2>3. CASE ~OutRoom(n)
    <3>1. UNCHANGED <<out, msg, nraw, nmsg, stamp, msgLen>>
      BY <1>1, <2>3 DEF write_buf
    <3> QED
      BY <2>1, <3>1, ContentSame
  <2> QED
    BY <2>2, <2>3
<1>2. ASSUME NEW n \in 0 .. MaxLen, send_msg(n) PROVE ContentInv'
  <2>1. UNCHANGED <<raw_flushing_ends_before, pipe, reader>>
    BY <1>2 DEF send_msg
  <2>2. CASE MsgRoom(Needed(n))
    <3>1. PutMsg(msg, "msg", n) /\ "msg" \in {"data", "msg"} /\ ("msg" = "data" => n = 0)
      BY <1>2, <2>2 DEF send_msg
    <3> QED
      BY <1>2, <2>1, <2>2, <3>1, SendContent
  <2>3. CASE ~MsgRoom(Needed(n)) /\ am_receiver
    <3>1. PutMsg(Grown(msg), "msg", n)
      BY <1>2, <2>3 DEF send_msg
    <3> QED
      BY <1>2, <2>1, <3>1, GrowContent
  <2>4. CASE ~MsgRoom(Needed(n)) /\ ~am_receiver
    <3>1. UNCHANGED <<out, msg, nraw, nmsg, stamp, msgLen>>
      BY <1>2, <2>4 DEF send_msg
    <3> QED
      BY <2>1, <3>1, ContentSame
  <2> QED
    BY <2>2, <2>3, <2>4
<1>3. ASSUME NEW f \in BOOLEAN, maybe_send_keepalive(f) PROVE ContentInv'
  <2>1. UNCHANGED <<raw_flushing_ends_before, pipe, reader>>
    BY <1>3 DEF maybe_send_keepalive
  <2>2. CASE msg.len = 0 /\ out.len = Hdr
    <3>1. PutMsg(msg, "data", 0) /\ "data" \in {"data", "msg"} /\ 0 \in 0 .. MaxLen
      BY <1>3, <2>2, Sizes DEF maybe_send_keepalive
    <3> QED
      BY <2>1, <2>2, <3>1, SendContent
  <2>3. CASE ~(msg.len = 0 /\ out.len = Hdr)
    <3>1. UNCHANGED <<out, msg, nraw, nmsg, stamp, msgLen>>
      BY <1>3, <2>3 DEF maybe_send_keepalive
    <3> QED
      BY <2>1, <3>1, ContentSame
  <2> QED
    BY <2>2, <2>3
<1>4. ASSUME NEW type, io_flush(type) PROVE ContentInv'
  BY <1>4, ContentSame DEF io_flush
<1>5. CASE AwaitInput
  BY <1>5, ContentSame DEF AwaitInput
<1>6. CASE Resume
  <2>1. UNCHANGED <<raw_flushing_ends_before, pipe, reader>>
    BY <1>6 DEF Resume
  <2>2. CASE wop.op = "write" /\ PutRaw(wop.n) /\ wop' = Idle
    <3>1. OutRoom(wop.n)
      BY <1>6, <2>2 DEF Resume, Satisfied
    <3>2. wop.n \in Nat /\ wop.n >= 1
      BY <2>2, Sizes DEF WopOK, WriterOK
    <3> QED
      BY <2>1, <2>2, <3>1, <3>2, PutRawContent
  <2>3. CASE wop.op = "send" /\ PutMsg(msg, "msg", wop.n) /\ wop' = Idle
    <3>1. MsgRoom(Needed(wop.n))
      BY <1>6, <2>3 DEF Resume, Satisfied
    <3>2. wop.n \in 0 .. MaxLen /\ "msg" \in {"data", "msg"} /\ ("msg" = "data" => wop.n = 0)
      BY <2>3 DEF WopOK, WriterOK
    <3> QED
      BY <2>1, <2>3, <3>1, <3>2, SendContent
  <2>4. CASE UNCHANGED <<out, msg, nraw, nmsg, stamp, msgLen>>
    BY <2>1, <2>4, ContentSame
  <2> QED
    BY <1>6, <2>2, <2>3, <2>4 DEF Resume
<1>7. CASE PerformWrite
  BY <1>7, ChunkRoundContent, MsgRoundContent
<1> QED
  BY <1>1, <1>2, <1>3, <1>4, <1>5, <1>6, <1>7 DEF Writer

----------------------------------------------------------------------------
(* The reader takes frames apart *)

\* Steps of the reader leave the writer where it is.
LEMMA ReaderSteps ==
  ASSUME UNCHANGED writer, NEW F, NEW T, NEW t \in Nat, NEW c \in Nat, NEW r \in Nat, NEW w \in Nat,
         Frames(F, T, t, c, stamp, msgLen), WriterHas(out, raw_flushing_ends_before, F, T, c, w),
         PipeHas(F, r, w)', ReaderHas(F, T, t, c, r)'
  PROVE  ContentInv'
<1>1. UNCHANGED <<out, msg, raw_flushing_ends_before, nraw, nmsg, stamp, msgLen>>
  BY DEF writer
<1>2. WriterHas(out, raw_flushing_ends_before, F, T, c, w)'
  BY <1>1 DEF WriterHas
<1>3. Frames(F, T, t, c, stamp, msgLen)'
  BY <1>1
<1> QED
  BY <1>2, <1>3 DEF ContentInv

\* An empty buffer that starts over holds the same bytes: none.
LEMMA ResetHas ==
  ASSUME InOK(in, raw_input_ends_before), NEW F, NEW r, BufHas(in, F, r)
  PROVE  /\ BufHas(in0, F, r) /\ in0.len = in.len /\ (in0.pos = in.pos \/ in0.pos = 0)
         /\ ToWrite(in0.pos, ends0) = ToWrite(in.pos, raw_input_ends_before)
<1>1. ToWrite(in0.pos, ends0) = ToWrite(in.pos, raw_input_ends_before)
  BY ResetOK DEF ToWrite
<1>2. CASE Reset
  <2>1. in0 = [in EXCEPT !.pos = 0] /\ in.len = 0
    BY <1>2 DEF in0, Reset
  <2>2. PICK P \in Nat, l \in Nat : IsBuf(in, Cells, InSize - 1, P, l, InSize)
    BY DEF InOK
  <2>3. IsBuf(in0, Cells, InSize - 1, 0, l, InSize)
    BY <2>1, <2>2, Fields
  <2>4. in0.pos = 0 /\ in0.len = 0
    BY <2>1, <2>2, <2>3 DEF IsBuf
  <2>5. BufHas(in0, F, r)
    BY <2>4, NothingHeld DEF BufHas
  <2> QED
    BY <1>1, <2>1, <2>4, <2>5
<1>3. CASE ~Reset
  <2>1. in0 = in
    BY <1>3 DEF in0
  <2> QED
    BY <1>1, <2>1
<1> QED
  BY <1>2, <1>3

\* Which message is expected does not depend on the call that waits for it.
LEMMA OtherCall ==
  ASSUME NEW T, NEW t, NEW c, NEW r, NEW left, NEW o, NEW gr, NEW gm, ReadAt(T, t, c, r, left, o, gr, gm),
         o.op # "body", NEW o2, o2.op # "body"
  PROVE  ReadAt(T, t, c, r, left, o2, gr, gm)
BY DEF ReadAt

LEMMA read_buf_Content ==
  ASSUME ReaderOK, ContentInv, NEW n \in 1 .. MaxLen, read_buf(n)
  PROVE  ContentInv'
<1> DEFINE E == raw_flushing_ends_before
<1>1. PICK F, T : \E t \in Nat, c \in Nat, r \in Nat, w \in Nat :
        Frames(F, T, t, c, stamp, msgLen) /\ WriterHas(out, E, F, T, c, w) /\ PipeHas(F, r, w) /\ ReaderHas(F, T, t, c, r)
  BY DEF ContentInv
<1>2. PICK t \in Nat, c \in Nat, r \in Nat, w \in Nat :
        Frames(F, T, t, c, stamp, msgLen) /\ WriterHas(out, E, F, T, c, w) /\ PipeHas(F, r, w) /\ ReaderHas(F, T, t, c, r)
  BY <1>1
<1>3. /\ UNCHANGED <<gotRaw, gotMsg, pipe>> /\ UNCHANGED writer /\ rop = Idle
  BY DEF read_buf
<1>4. UNCHANGED <<stamp, msgLen>>
  BY <1>3 DEF writer
<1>5. /\ in' = in0 /\ raw_input_ends_before' = ends0
      /\ rop'.op \in {"hdr", "raw"} /\ rop'.pos0 = in.pos
      /\ rop'.direct => (rop'.op = "hdr" /\ in.size - in.pos >= Hdr)
  <2>1. \E op \in {"hdr", "raw"} : \E m : Call(op, m, "none", 0)
    BY DEF read_buf
  <2>2. PICK op \in {"hdr", "raw"} : \E m : Call(op, m, "none", 0)
    BY <2>1
  <2>3. PICK m : Call(op, m, "none", 0)
    BY <2>2
  <2>4. in' = in0 /\ raw_input_ends_before' = ends0
    BY <2>3 DEF Call
  <2>5. rop' = [op |-> op, n |-> m, code |-> "none", id |-> 0, pos0 |-> in.pos,
                direct |-> op = "hdr" /\ in.size - in.pos >= Hdr]
    BY <2>3, Zenon DEF Call
  <2>6. rop'.op = op /\ rop'.pos0 = in.pos /\ rop'.direct = (op = "hdr" /\ in.size - in.pos >= Hdr)
    BY <2>5, Zenon
  <2>7. rop'.direct => (op = "hdr" /\ in.size - in.pos >= Hdr)
    BY <2>6, Zenon
  <2> QED
    BY <2>4, <2>6, <2>7, Zenon
<1>6. InOK(in, raw_input_ends_before)
  BY DEF ReaderOK
<1>7. /\ BufHas(in, F, r)
      /\ ReadAt(T, t, c, r, ToWrite(in.pos, raw_input_ends_before), rop, Len(gotRaw), Len(gotMsg))
      /\ RawsGot(gotRaw, Len(gotRaw)) /\ MsgsGot(gotMsg, Len(gotMsg), msgLen) /\ NeverOvertaken
  BY <1>2 DEF ReaderHas
<1>8. /\ BufHas(in0, F, r) /\ in0.len = in.len /\ (in0.pos = in.pos \/ in0.pos = 0)
      /\ ToWrite(in0.pos, ends0) = ToWrite(in.pos, raw_input_ends_before)
  BY <1>6, <1>7, ResetHas
<1>9. ReadAt(T, t, c, r, ToWrite(in0.pos, ends0), rop', Len(gotRaw), Len(gotMsg))
  <2>1. rop.op # "body" /\ rop'.op # "body"
    BY <1>3, <1>5 DEF Idle
  <2>2. ReadAt(T, t, c, r, ToWrite(in.pos, raw_input_ends_before), rop', Len(gotRaw), Len(gotMsg))
    BY <1>7, <2>1, OtherCall, Zenon
  <2> QED
    BY <1>8, <2>2
<1>10. RopAt(rop', in0.pos)
  <2>1. in.pos \in Nat /\ in.size = InSize
    BY <1>6, InFacts
  <2>2. rop'.direct => rop'.op = "hdr" /\ in.pos + Hdr <= InSize
    BY <1>5, <2>1, Sizes
  <2> QED
    BY <1>5, <1>8, <2>1, <2>2 DEF RopAt
<1>11. PipeHas(F, r, w)'
  BY <1>2, <1>3, <1>5, <1>8 DEF PipeHas
<1>12. NeverOvertaken'
  BY <1>3, <1>4, <1>7 DEF NeverOvertaken
<1>13. ReaderHas(F, T, t, c, r)'
  BY <1>3, <1>4, <1>5, <1>7, <1>8, <1>9, <1>10, <1>12 DEF ReaderHas
<1> QED
  BY <1>2, <1>3, <1>11, <1>13, ReaderSteps

LEMMA PipeCut ==
  ASSUME NEW p, PipeOK(p), NEW F, NEW x \in Nat, Lists(F, x, Len(p), p), NEW n \in 0 .. Len(p)
  PROVE  /\ Lists(F, x, n, SubSeq(p, 1, n))
         /\ Lists(F, x + n, Len(SubSeq(p, n + 1, Len(p))), SubSeq(p, n + 1, Len(p)))
         /\ Len(SubSeq(p, n + 1, Len(p))) = Len(p) - n
<1> DEFINE y == Len(p)
           a == SubSeq(p, 1, n)
           b == SubSeq(p, n + 1, Len(p))
<1>1. y \in Nat /\ p \in CellsOf(Cells, y)
  BY DEF PipeOK, CellsOf
<1>2. n \in 0 .. y
  OBVIOUS
<1>3. /\ \A i \in 1 .. n : a[i] = p[i]
      /\ b \in CellsOf(Cells, y - n)
      /\ \A i \in 1 .. y - n : b[i] = p[n + i]
  BY <1>1, <1>2, Halves
<1>4. Len(b) = y - n
  BY <1>3 DEF CellsOf
<1>5. \A i \in 1 .. y : F[x + i - 1] = p[i]
  BY DEF Lists
<1> HIDE DEF a, b, y
<1>6. Lists(F, x, n, a)
  <2>1. \A i \in 1 .. n : i \in 1 .. y
    BY <1>1, <1>2
  <2> QED
    BY <1>3, <1>5, <2>1 DEF Lists
<1>7. Lists(F, x + n, y - n, b)
  <2> SUFFICES ASSUME NEW i \in 1 .. y - n PROVE F[x + n + i - 1] = b[i]
    BY DEF Lists
  <2>1. n + i \in 1 .. y /\ x + (n + i) - 1 = x + n + i - 1
    BY <1>1, <1>2
  <2>2. F[x + (n + i) - 1] = p[n + i]
    BY <1>5, <2>1
  <2> QED
    BY <1>3, <2>1, <2>2
<1> QED
  BY <1>4, <1>6, <1>7 DEF a, b, y

\* perform_io appends n bytes to a buffer.
ReadInto(b, p, cells, n) == [Poke(b, p, cells) EXCEPT !.len = @ + n]

LEMMA ReadHas ==
  ASSUME NEW b, NEW E, InOK(b, E), NEW F, NEW r \in Nat, BufHas(b, F, r),
         NEW p, p = Ring(b.pos, InSize, b.len), NEW n \in Nat, n >= 1, p + n <= InSize, b.len + n <= InSize,
         NEW cells \in CellsOf(Cells, n), Lists(F, r + b.len, n, cells),
         NEW b2, b2 = ReadInto(b, p, cells, n)
  PROVE  BufHas(b2, F, r) /\ b2.pos = b.pos /\ b2.len = b.len + n
<1>1. PICK P \in Nat, l \in Nat : IsBuf(b, Cells, InSize - 1, P, l, InSize) /\ InNums(P, l, E)
  BY DEF InOK
<1>2. b.pos = P /\ b.len = l /\ b.size = InSize
  BY <1>1 DEF IsBuf
<1> DEFINE x == Poke(b, p, cells)
           d == InSize - 1
<1>3. P < InSize /\ InSize \in Nat /\ d \in Int /\ InSize <= d + 1 /\ l + n <= InSize
  BY <1>1, <1>2, Sizes DEF InNums
<1>4. x = Copy(b, p, cells)
  <2>1. p \in Nat
    BY <1>2, <1>3 DEF Ring
  <2>2. Len(cells) = n
    BY DEF CellsOf
  <2>3. b.size \in Nat /\ Len(cells) \in Nat /\ p + Len(cells) <= b.size
    BY <1>2, <1>3, <2>2
  <2> QED
    BY <2>1, <2>3, OnePiece
<1>5. Stored(x, b, Cells, d, P, l, InSize, l, n, cells)
  <2>1. p = Ring(P, InSize, l)
    BY <1>2
  <2>2. IsBuf(b, Cells, d, P, l, InSize)
    BY <1>1
  <2>3. Stored(Copy(b, p, cells), b, Cells, d, P, l, InSize, l, n, cells)
    <3> HIDE DEF d
    <3> QED
      BY <1>3, <2>1, <2>2, CopyFacts
  <2> QED
    BY <1>4, <2>3
<1> HIDE DEF x, d
<1>6. Lists(F, r + l, n, cells) /\ r + l \in Nat
  BY <1>2
<1>7. Holds(x.buf, P, InSize, l, n, F, r + l) /\ SameStart(x.buf, b.buf, P, InSize, l)
  BY <1>3, <1>5, <1>6, StoredHolds
<1>8. Holds(x.buf, P, InSize, 0, l, F, r)
  <2>1. Holds(b.buf, P, InSize, 0, l, F, r)
    BY <1>2 DEF BufHas
  <2>2. 0 \in Nat /\ l \in Int /\ 0 + l <= l /\ r + l \in Int /\ r + l <= r + l
    OBVIOUS
  <2>3. Extends(F, F, r + l)
    BY ExtendsItself
  <2> QED
    BY <1>7, <2>1, <2>2, <2>3, HoldsSame
<1>9. Holds(x.buf, P, InSize, 0, l + n, F, r)
  <2>1. 0 + l = l /\ 0 \in Nat
    OBVIOUS
  <2>2. Holds(x.buf, P, InSize, 0 + l, n, F, r + l)
    BY <1>7, <2>1
  <2> QED
    BY <1>8, <2>1, <2>2, HoldsJoin
<1>10. IsBuf(x, Cells, d, P, l, InSize)
  BY <1>5 DEF Stored
<1>11. b2.buf = x.buf /\ b2.pos = P /\ b2.len = l + n /\ b2.size = InSize
  <2>1. b2 = [x EXCEPT !.len = @ + n] /\ x.len = l
    BY <1>10 DEF x, IsBuf, ReadInto
  <2>2. b2 = [x EXCEPT !.len = l + n] /\ l + n \in Nat
    BY <2>1
  <2>3. IsBuf([x EXCEPT !.len = l + n], Cells, d, P, l + n, InSize) /\ [x EXCEPT !.len = l + n].buf = x.buf
    BY <1>10, <2>2, Fields
  <2> QED
    BY <2>2, <2>3 DEF IsBuf
<1> QED
  BY <1>2, <1>9, <1>11 DEF BufHas

\* What a round of perform_io reads.
LEMMA ReadRound ==
  ASSUME ReaderOK, PerformRead
  PROVE  \E b, E, p : \E n \in Nat :
           /\ InOK(b, E) /\ raw_input_ends_before' = E
           /\ rop = Idle => b = in0 /\ E = ends0
           /\ rop # Idle => b = in /\ E = raw_input_ends_before
           /\ p = Ring(b.pos, InSize, b.len) /\ n >= 1 /\ n <= Len(pipe) /\ p + n <= InSize /\ b.len + n <= InSize
           /\ in' = [Poke(b, p, SubSeq(pipe, 1, n)) EXCEPT !.len = @ + n]
           /\ pipe' = SubSeq(pipe, n + 1, Len(pipe))
<1> DEFINE b == IF rop = Idle THEN in0 ELSE in
           E == IF rop = Idle THEN ends0 ELSE raw_input_ends_before
           p == IF b.pos + b.len >= b.size THEN b.pos + b.len - b.size ELSE b.pos + b.len
           len == IF b.pos + b.len >= b.size THEN b.size - b.len ELSE b.size - p
<1>1. \E n \in 1 .. Min({len, Len(pipe)}) :
        /\ in' = [Poke(b, p, SubSeq(pipe, 1, n)) EXCEPT !.len = @ + n]
        /\ pipe' = SubSeq(pipe, n + 1, Len(pipe))
  BY Zenon DEF PerformRead
<1>2. raw_input_ends_before' = E /\ b.len < b.size
  BY DEF PerformRead
<1>3. InOK(b, E)
  <2>1. InOK(in0, ends0) /\ InOK(in, raw_input_ends_before)
    BY ResetOK DEF ReaderOK
  <2> QED
    BY <2>1
<1>4. (rop = Idle => b = in0 /\ E = ends0) /\ (rop # Idle => b = in /\ E = raw_input_ends_before)
  OBVIOUS
<1> HIDE DEF b, E
<1>5. PICK P \in Nat, l \in Nat : P = b.pos /\ l = b.len /\ b.size = InSize /\ P < InSize /\ l < InSize
  BY <1>2, <1>3, InFacts
<1>6. Len(pipe) \in Nat /\ InSize \in Nat
  BY PipeFacts, Sizes DEF ReaderOK
<1>a. /\ p = IF P + l >= InSize THEN P + l - InSize ELSE P + l
      /\ len = IF P + l >= InSize THEN InSize - l ELSE InSize - p
  BY <1>5
<1> HIDE DEF p, len
<1>b. p \in Nat /\ len \in Int /\ l + len <= InSize /\ p + len <= InSize
  <2>1. P < InSize /\ l < InSize
    BY <1>5
  <2> QED
    BY <2>1, <1>6, <1>a
<1>c. p = Ring(P, InSize, l)
  BY <1>6, <1>a DEF Ring
<1>d. PICK n \in 1 .. Min({len, Len(pipe)}) :
        /\ in' = [Poke(b, p, SubSeq(pipe, 1, n)) EXCEPT !.len = @ + n]
        /\ pipe' = SubSeq(pipe, n + 1, Len(pipe))
  BY <1>1, Zenon
<1>7. n \in Nat /\ n >= 1 /\ n <= Len(pipe) /\ p + n <= InSize /\ l + n <= InSize
  <2>4. Min({len, Len(pipe)}) = IF len <= Len(pipe) THEN len ELSE Len(pipe)
    BY <1>b, <1>6, Minimum2
  <2> DEFINE k == Len(pipe)
  <2>5. n \in 1 .. IF len <= k THEN len ELSE k
    BY <2>4
  <2>6. k \in Nat
    BY <1>6
  <2> HIDE DEF k
  <2>7. n <= k /\ n \in Nat /\ n >= 1 /\ l + n <= InSize /\ p + n <= InSize
    BY <1>b, <2>5, <2>6, <1>6
  <2> QED
    BY <2>7 DEF k
<1>8. p = Ring(b.pos, InSize, b.len) /\ b.len + n <= InSize
  BY <1>5, <1>7, <1>c
<1> QED
  BY <1>d, <1>2, <1>3, <1>4, <1>7, <1>8, Zenon

LEMMA PerformReadContent ==
  ASSUME ReaderOK, ContentInv, PerformRead
  PROVE  ContentInv'
<1>1. PICK F, T : \E t \in Nat, c \in Nat, r \in Nat, w \in Nat :
        /\ Frames(F, T, t, c, stamp, msgLen) /\ WriterHas(out, raw_flushing_ends_before, F, T, c, w)
        /\ PipeHas(F, r, w) /\ ReaderHas(F, T, t, c, r)
  BY DEF ContentInv
<1>2. PICK t \in Nat, c \in Nat, r \in Nat, w \in Nat :
        /\ Frames(F, T, t, c, stamp, msgLen) /\ WriterHas(out, raw_flushing_ends_before, F, T, c, w)
        /\ PipeHas(F, r, w) /\ ReaderHas(F, T, t, c, r)
  BY <1>1
<1>3. UNCHANGED <<rop, gotRaw, gotMsg>> /\ UNCHANGED writer
  BY DEF PerformRead
<1>4. UNCHANGED <<stamp, msgLen>>
  BY <1>3 DEF writer
<1>5. /\ BufHas(in, F, r) /\ RopAt(rop, in.pos)
      /\ ReadAt(T, t, c, r, ToWrite(in.pos, raw_input_ends_before), rop, Len(gotRaw), Len(gotMsg))
      /\ RawsGot(gotRaw, Len(gotRaw)) /\ MsgsGot(gotMsg, Len(gotMsg), msgLen) /\ NeverOvertaken
  BY <1>2 DEF ReaderHas
<1>6. PICK b, E, p : \E n \in Nat :
           /\ InOK(b, E) /\ raw_input_ends_before' = E
           /\ rop = Idle => b = in0 /\ E = ends0
           /\ rop # Idle => b = in /\ E = raw_input_ends_before
           /\ p = Ring(b.pos, InSize, b.len) /\ n >= 1 /\ n <= Len(pipe) /\ p + n <= InSize /\ b.len + n <= InSize
           /\ in' = [Poke(b, p, SubSeq(pipe, 1, n)) EXCEPT !.len = @ + n]
           /\ pipe' = SubSeq(pipe, n + 1, Len(pipe))
  BY ReadRound
<1>7. PICK n \in Nat :
           /\ InOK(b, E) /\ raw_input_ends_before' = E
           /\ rop = Idle => b = in0 /\ E = ends0
           /\ rop # Idle => b = in /\ E = raw_input_ends_before
           /\ p = Ring(b.pos, InSize, b.len) /\ n >= 1 /\ n <= Len(pipe) /\ p + n <= InSize /\ b.len + n <= InSize
           /\ in' = [Poke(b, p, SubSeq(pipe, 1, n)) EXCEPT !.len = @ + n]
           /\ pipe' = SubSeq(pipe, n + 1, Len(pipe))
  BY <1>6
<1>8. /\ BufHas(b, F, r) /\ b.len = in.len /\ ToWrite(b.pos, E) = ToWrite(in.pos, raw_input_ends_before)
      /\ RopAt(rop, b.pos)
  <2>1. CASE rop = Idle
    <3>1. b = in0 /\ E = ends0
      BY <1>7, <2>1
    <3>2. InOK(in, raw_input_ends_before)
      BY DEF ReaderOK
    <3>3. BufHas(in0, F, r) /\ in0.len = in.len /\ ToWrite(in0.pos, ends0) = ToWrite(in.pos, raw_input_ends_before)
      BY <1>5, <3>2, ResetHas
    <3>4. RopAt(rop, b.pos)
      BY <2>1 DEF RopAt
    <3> QED
      BY <3>1, <3>3, <3>4
  <2>2. CASE rop # Idle
    BY <1>5, <1>7, <2>2
  <2> QED
    BY <2>1, <2>2
<1>9. /\ PipeOK(pipe) /\ in.len \in Nat /\ Len(pipe) \in Nat /\ r + in.len \in Nat /\ n \in 0 .. Len(pipe)
      /\ w = (r + in.len) + Len(pipe) /\ Lists(F, r + in.len, Len(pipe), pipe)
  <2>1. PipeOK(pipe) /\ in.len \in Nat /\ Len(pipe) \in Nat
    BY InFacts, PipeFacts DEF ReaderOK
  <2>2. n <= Len(pipe) /\ w = (r + in.len) + Len(pipe) /\ Lists(F, r + in.len, Len(pipe), pipe)
    BY <1>2, <1>7 DEF PipeHas
  <2> QED
    BY <2>1, <2>2
<1>10. PICK x, q : x = SubSeq(pipe, 1, n) /\ q = SubSeq(pipe, n + 1, Len(pipe))
  OBVIOUS
<1>11. x \in CellsOf(Cells, n)
  BY <1>9, <1>10, PipeFacts
<1>12. Lists(F, r + in.len, n, x) /\ Lists(F, (r + in.len) + n, Len(q), q) /\ Len(q) = Len(pipe) - n
  <2>1. PICK a \in Nat : a = r + in.len
    BY <1>9
  <2>2. Lists(F, a, Len(pipe), pipe)
    BY <1>9, <2>1
  <2>3. Lists(F, a, n, x) /\ Lists(F, a + n, Len(q), q) /\ Len(q) = Len(pipe) - n
    BY <1>9, <1>10, <2>2, PipeCut
  <2> QED
    BY <2>1, <2>3
<1>13. in' = [Poke(b, p, x) EXCEPT !.len = @ + n] /\ pipe' = q
  BY <1>7, <1>10, Zenon
<1>14. BufHas(in', F, r) /\ in'.pos = b.pos /\ in'.len = in.len + n
  <2>1. Lists(F, r + b.len, n, x)
    BY <1>8, <1>12
  <2>2. PICK b2 : b2 = in'
    OBVIOUS
  <2>3. b2 = ReadInto(b, p, x, n)
    BY <1>13, <2>2, Zenon DEF ReadInto
  <2>4. InOK(b, E) /\ p = Ring(b.pos, InSize, b.len) /\ n >= 1 /\ p + n <= InSize /\ b.len + n <= InSize
    BY <1>7, Zenon
  <2>5. BufHas(b2, F, r) /\ b2.pos = b.pos /\ b2.len = b.len + n
    <3>1. BufHas(b, F, r)
      BY <1>8
    <3> QED
      BY <1>11, <2>1, <2>3, <2>4, <3>1, ReadHas
  <2> QED
    BY <1>8, <2>2, <2>5
<1>15. PipeHas(F, r, w)'
  <2>1. PICK a \in Nat, y \in Nat : a = in.len /\ y = Len(pipe)
    BY <1>9
  <2>2. PICK a2, y2 : a2 = in'.len /\ y2 = Len(pipe')
    OBVIOUS
  <2>3. w = (r + a) + y /\ a2 = a + n /\ y2 = y - n
    BY <1>9, <1>12, <1>13, <1>14, <2>1, <2>2
  <2>4. w = r + a2 + y2 /\ r + a2 = (r + a) + n
    BY <2>3
  <2>5. Lists(F, r + a2, y2, pipe')
    <3>1. y2 = Len(q) /\ pipe' = q
      BY <1>13, <2>2
    <3>2. Lists(F, (r + a) + n, Len(q), q)
      BY <1>12, <2>1
    <3> QED
      BY <2>4, <3>1, <3>2
  <2> QED
    BY <2>2, <2>4, <2>5 DEF PipeHas
<1>16. NeverOvertaken'
  BY <1>3, <1>4, <1>5 DEF NeverOvertaken
<1>17. ReaderHas(F, T, t, c, r)'
  <2>1. raw_input_ends_before' = E
    BY <1>7
  <2> QED
    BY <1>3, <1>4, <1>5, <1>8, <1>14, <1>16, <2>1 DEF ReaderHas
<1> QED
  BY <1>2, <1>3, <1>15, <1>17, ReaderSteps

\* The n bytes from the r-th on.
BytesFrom(F, r, n) == [k \in 1 .. n |-> F[r + k - 1]]

\* Where raw_read_buf takes the k-th byte from.
FoundAt(P, S, n, pos0, pos, siz, k) ==
  /\ pos <= pos0 => /\ k <= siz => Ring(P, S, k - 1) = P + k - 1
                    /\ ~(k <= siz) => Ring(P, S, k - 1) = k - siz - 1
  /\ ~(pos <= pos0) => Ring(P, S, k - 1) = P + k - 1
  /\ P + n <= S => Ring(P, S, k - 1) = P + k - 1

LEMMA ReadPlaces ==
  ASSUME NEW P \in Nat, NEW S \in Nat, P < S, NEW n \in Nat, n <= S, NEW pos0 \in Nat, pos0 = P \/ P = 0,
         NEW pos, pos = Ring(P, S, n), NEW k \in 1 .. n, NEW siz, siz = n - pos
  PROVE  FoundAt(P, S, n, pos0, pos, siz, k)
<1>1. CASE P + n >= S
  <2>1. pos = (P + n) - S /\ siz = S - P
    BY <1>1 DEF Ring
  <2> QED
    BY <1>1, <2>1 DEF Ring, FoundAt
<1>2. CASE P + n < S
  <2>1. pos = P + n /\ siz = 0 - P
    BY <1>2 DEF Ring
  <2> QED
    BY <1>2, <2>1 DEF Ring, FoundAt
<1> QED
  BY <1>1, <1>2

LEMMA RawReadIs ==
  ASSUME InOK(in, raw_input_ends_before), rop # Idle, RopAt(rop, in.pos), NEW n \in Nat, n <= in.len,
         rop.op = "hdr" => n = Hdr, NEW F, NEW r \in Nat, BufHas(in, F, r)
  PROVE  RawRead(n) = BytesFrom(F, r, n)
<1>1. PICK P \in Nat, S \in Nat : P = in.pos /\ S = in.size /\ P < S /\ n <= S /\ S = InSize
  <2>1. /\ in.pos \in Nat /\ in.size = InSize /\ in.pos < InSize /\ in.len <= InSize /\ in.len \in Nat /\ InSize \in Nat
    BY InFacts, Sizes
  <2>2. n <= InSize
    BY <2>1
  <2> QED
    BY <2>1, <2>2
<1> DEFINE pos == ConsumedPos(n)
           siz == n - pos
           q == rop.pos0
<1>2. pos = Ring(P, S, n)
  BY <1>1 DEF ConsumedPos, Ring
<1>3. q \in Nat /\ (q = P \/ P = 0)
  BY <1>1 DEF RopAt
<1>4. rop.direct => P + n <= S
  <2> SUFFICES ASSUME rop.direct PROVE P + n <= S
    OBVIOUS
  <2>1. rop.op = "hdr" /\ q + Hdr <= S
    BY <1>1 DEF RopAt
  <2>2. n = Hdr
    BY <2>1
  <2>3. P < S /\ n <= S
    BY <1>1
  <2> HIDE DEF q
  <2> QED
    BY <1>3, <2>1, <2>2, <2>3
<1>5. \A k \in 1 .. n : in.buf[Ring(P, S, k - 1)] = F[r + k - 1]
  <2> TAKE k \in 1 .. n
  <2>1. Holds(in.buf, P, S, 0, in.len, F, r)
    BY <1>1 DEF BufHas
  <2>2. k - 1 \in 0 .. in.len - 1 /\ 0 + (k - 1) = k - 1 /\ r + (k - 1) = r + k - 1
    <3>1. in.len \in Nat
      BY InFacts
    <3> QED
      BY <3>1
  <2>3. in.buf[Ring(P, S, 0 + (k - 1))] = F[r + (k - 1)]
    BY <2>1, <2>2 DEF Holds
  <2> QED
    BY <2>2, <2>3
<1>6. P < S /\ n <= S
  BY <1>1
<1> HIDE DEF pos, q
<1>s. siz = n - pos
  OBVIOUS
<1> HIDE DEF siz
<1>7. \A k \in 1 .. n : FoundAt(P, S, n, q, pos, siz, k)
  BY <1>2, <1>3, <1>6, <1>s, ReadPlaces, Zenon
<1>8. CASE ~rop.direct /\ pos <= q /\ n > 0
  <2>1. RawRead(n) = [k \in 1 .. n |-> IF k <= siz THEN in.buf[in.pos + k - 1] ELSE in.buf[k - siz - 1]]
    BY <1>8 DEF RawRead, pos, siz, q
  <2>2. \A k \in 1 .. n : (IF k <= siz THEN in.buf[in.pos + k - 1] ELSE in.buf[k - siz - 1]) = F[r + k - 1]
    <3> TAKE k \in 1 .. n
    <3>1. CASE k <= siz
      <4>1. Ring(P, S, k - 1) = P + k - 1
        BY <1>7, <1>8, <3>1 DEF FoundAt
      <4>2. in.buf[in.pos + k - 1] = F[r + k - 1]
        BY <1>1, <1>5, <4>1
      <4> QED
        BY <3>1, <4>2
    <3>2. CASE ~(k <= siz)
      <4>1. Ring(P, S, k - 1) = k - siz - 1
        BY <1>7, <1>8, <3>2 DEF FoundAt
      <4>2. in.buf[k - siz - 1] = F[r + k - 1]
        BY <1>5, <4>1
      <4> QED
        BY <3>2, <4>2
    <3> QED
      BY <3>1, <3>2
  <2> QED
    BY <2>1, <2>2, Zenon DEF BytesFrom
<1>9. CASE ~(~rop.direct /\ pos <= q /\ n > 0)
  <2>1. RawRead(n) = [k \in 1 .. n |-> in.buf[in.pos + k - 1]]
    BY <1>9 DEF RawRead, pos, q
  <2>2. \A k \in 1 .. n : in.buf[in.pos + k - 1] = F[r + k - 1]
    <3> TAKE k \in 1 .. n
    <3>1. n > 0
      OBVIOUS
    <3>2. Ring(P, S, k - 1) = P + k - 1
      BY <1>4, <1>7, <1>9, <3>1 DEF FoundAt
    <3> QED
      BY <1>1, <1>5, <3>2
  <2> QED
    BY <2>1, <2>2, Zenon DEF BytesFrom
<1> QED
  BY <1>8, <1>9

\* PIO_CONSUME_INPUT: the bytes behind stay.
Dropped(b, n, pos) == [Copy(b, b.pos, Blanks(n)) EXCEPT !.pos = pos, !.len = @ - n]

LEMMA DroppedHas ==
  ASSUME NEW E, InOK(in, E), NEW n \in Nat, n <= in.len, NEW F, NEW r \in Nat, BufHas(in, F, r),
         NEW b2, b2 = Dropped(in, n, ConsumedPos(n))
  PROVE  BufHas(b2, F, r + n) /\ b2.len = in.len - n /\ b2.pos = ConsumedPos(n)
<1>1. PICK P \in Nat, l \in Nat : IsBuf(in, Cells, InSize - 1, P, l, InSize) /\ InNums(P, l, E)
  BY DEF InOK
<1>2. in.pos = P /\ in.len = l /\ in.size = InSize
  BY <1>1 DEF IsBuf
<1> DEFINE d == InSize - 1
           c == Copy(in, in.pos, Blanks(n))
           pos == ConsumedPos(n)
<1>3. P < InSize /\ l <= InSize /\ n <= l /\ InSize \in Nat
  BY <1>1, <1>2, Sizes DEF InNums
<1>4. pos = IF P + n >= InSize THEN P + n - InSize ELSE P + n
  BY <1>2 DEF ConsumedPos
<1>5. Stored(c, in, Cells, d, P, l, InSize, 0, n, Blanks(n))
  <2>1. in.pos = Ring(P, InSize, 0)
    BY <1>2, <1>3 DEF Ring
  <2>2. Blanks(n) \in CellsOf(Cells, n)
    BY BlanksAre
  <2>3. d \in Int /\ InSize <= d + 1 /\ 0 + n <= InSize /\ 0 \in Nat /\ n \in Nat /\ P < InSize /\ InSize \in Nat
    BY <1>3
  <2>4. IsBuf(in, Cells, d, P, l, InSize)
    BY <1>1
  <2> HIDE DEF d
  <2> QED
    BY <2>1, <2>2, <2>3, <2>4, CopyFacts, Zenon
<1>6. b2 = [c EXCEPT !.pos = pos, !.len = @ - n]
  BY DEF Dropped
<1> HIDE DEF c, d, pos
<1>7. IsBuf(c, Cells, d, P, l, InSize)
  BY <1>5 DEF Stored
<1>8. pos \in Nat /\ l - n \in Nat /\ \A j \in 0 .. InSize - n - 1 : Ring(pos, InSize, j) = Ring(P, InSize, n + j)
  <2>0. P < InSize /\ n <= InSize /\ n <= l
    BY <1>3
  <2>1. CASE P + n >= InSize
    <3>1. pos = (P + n) - InSize
      BY <1>3, <1>4, <2>1
    <3> QED
      BY <1>3, <2>0, <2>1, <3>1 DEF Ring
  <2>2. CASE P + n < InSize
    <3>1. pos = P + n
      BY <1>3, <1>4, <2>2
    <3> QED
      BY <1>3, <2>0, <2>2, <3>1 DEF Ring
  <2> QED
    BY <2>1, <2>2, <1>3
<1>9. b2.buf = c.buf /\ b2.pos = pos /\ b2.len = l - n /\ b2.size = InSize
  <2>1. c.len = l
    BY <1>7 DEF IsBuf
  <2>2. b2 = [[c EXCEPT !.pos = pos] EXCEPT !.len = l - n]
    BY <1>6, <1>7, <2>1 DEF IsBuf, Bufs
  <2>3. IsBuf([c EXCEPT !.pos = pos], Cells, d, pos, l, InSize) /\ [c EXCEPT !.pos = pos].buf = c.buf
    BY <1>8, <1>7, Fields
  <2>4. PICK c2 : c2 = [c EXCEPT !.pos = pos]
    OBVIOUS
  <2>5. IsBuf(c2, Cells, d, pos, l, InSize) /\ c2.buf = c.buf /\ b2 = [c2 EXCEPT !.len = l - n]
    BY <2>2, <2>3, <2>4
  <2>6. IsBuf([c2 EXCEPT !.len = l - n], Cells, d, pos, l - n, InSize) /\ [c2 EXCEPT !.len = l - n].buf = c2.buf
    BY <1>8, <2>5, Fields
  <2> QED
    BY <2>5, <2>6 DEF IsBuf
<1>10. Kept(c.buf, pos, InSize, in.buf, P, InSize, n, InSize - n)
  <2> SUFFICES ASSUME NEW j \in 0 .. InSize - n - 1
               PROVE  c.buf[Ring(pos, InSize, j)] = in.buf[Ring(P, InSize, n + j)]
    BY DEF Kept
  <2>1. Ring(pos, InSize, j) = Ring(P, InSize, n + j)
    BY <1>8
  <2>2. n + j \in 0 .. InSize - 1 /\ n + j >= 0 + n
    BY <1>3
  <2>3. c.buf[Ring(P, InSize, n + j)] = in.buf[Ring(P, InSize, n + j)]
    BY <1>5, <2>2 DEF Stored
  <2> QED
    BY <2>1, <2>3
<1>11. Holds(c.buf, pos, InSize, 0, l - n, F, r + n)
  <2>1. Holds(in.buf, P, InSize, 0, l, F, r)
    BY <1>2 DEF BufHas
  <2>2. InSize - n \in Nat /\ n <= l /\ l <= n + (InSize - n)
    BY <1>3
  <2> QED
    BY <1>10, <2>1, <2>2, KeptDrop
<1> QED
  BY <1>2, <1>9, <1>11 DEF BufHas, pos

\* What read_a_msg and read_buf do with what was read; h is its first byte.
HdrSays(h, code) == h # Blank /\ h[1] = "hdr" /\ h[2] = code
GotData(h, pos) ==
  /\ raw_input_ends_before' = IF h[4] = 0 THEN 0 ELSE pos + h[4]
  /\ rop' = Idle
  /\ gotMsg' = IF h[4] = 0 THEN Append(gotMsg, <<>>) ELSE gotMsg
  /\ UNCHANGED gotRaw
GotHeader(h, pos) ==
  /\ rop' = [op |-> "body", n |-> h[4], code |-> "msg", id |-> h[3], pos0 |-> pos, direct |-> FALSE]
  /\ raw_input_ends_before' = 0
  /\ UNCHANGED <<gotRaw, gotMsg>>
GotBody(data) == gotMsg' = Append(gotMsg, data) /\ rop' = Idle /\ raw_input_ends_before' = 0 /\ UNCHANGED gotRaw
GotRaw(data, n) ==
  gotRaw' = gotRaw \o data /\ rop' = Idle /\ raw_input_ends_before' = ConsumedEnds(n) /\ UNCHANGED gotMsg

LEMMA ConsumeIs ==
  ASSUME ReaderOK, Consume
  PROVE  /\ rop # Idle /\ in.len >= rop.n /\ in' = Dropped(in, rop.n, ConsumedPos(rop.n))
         /\ UNCHANGED pipe /\ UNCHANGED writer
         /\ rop.op = "hdr" /\ HdrSays(RawRead(rop.n)[1], "data") => GotData(RawRead(rop.n)[1], ConsumedPos(rop.n))
         /\ rop.op = "hdr" /\ HdrSays(RawRead(rop.n)[1], "msg") => GotHeader(RawRead(rop.n)[1], ConsumedPos(rop.n))
         /\ rop.op = "body" => GotBody(RawRead(rop.n))
         /\ rop.op = "raw" => GotRaw(RawRead(rop.n), rop.n)
<1> DEFINE n == rop.n
           data == RawRead(n)
           pos == ConsumedPos(n)
           IsHdr(code) == rop.op = "hdr" /\ data[1] # Blank /\ data[1][1] = "hdr" /\ data[1][2] = code
<1>1. /\ rop # Idle /\ in.len >= n /\ in' = Dropped(in, n, pos) /\ UNCHANGED pipe /\ UNCHANGED writer
  BY DEF Consume, Dropped
<1>2. \/ IsHdr("data") /\ GotData(data[1], pos)
      \/ IsHdr("msg") /\ GotHeader(data[1], pos)
      \/ rop.op = "body" /\ GotBody(data)
      \/ ~IsHdr("data") /\ ~IsHdr("msg") /\ rop.op # "body" /\ GotRaw(data, n)
  BY DEF Consume, GotData, GotHeader, GotBody, GotRaw
<1> HIDE DEF data, pos, n
<1>3. rop.op = "hdr" /\ HdrSays(data[1], "data") => GotData(data[1], pos)
  BY <1>2 DEF HdrSays
<1>4. rop.op = "hdr" /\ HdrSays(data[1], "msg") => GotHeader(data[1], pos)
  BY <1>2 DEF HdrSays
<1>5. rop.op = "body" => GotBody(data)
  BY <1>2
<1>6. rop.op = "raw" => GotRaw(data, n)
  BY <1>2
<1> QED
  BY <1>1, <1>3, <1>4, <1>5, <1>6 DEF data, pos, n

\* The bytes behind the reader's after it has taken n.
LEMMA ConsumedPipe ==
  ASSUME ReaderOK, NEW F, NEW r \in Nat, NEW w \in Nat, PipeHas(F, r, w), NEW n \in Nat, n <= in.len,
         in'.len = in.len - n, UNCHANGED pipe
  PROVE  PipeHas(F, r + n, w)'
<1>1. w = r + in.len + Len(pipe) /\ Lists(F, r + in.len, Len(pipe), pipe)
  BY DEF PipeHas
<1>2. PICK a \in Nat, y \in Nat : a = in.len /\ y = Len(pipe)
  BY InFacts, PipeFacts DEF ReaderOK
<1>3. PICK a2 : a2 = in'.len
  OBVIOUS
<1>4. w = r + a + y /\ Lists(F, r + a, y, pipe) /\ a2 = a - n
  BY <1>1, <1>2, <1>3
<1>5. w = (r + n) + a2 + y /\ (r + n) + a2 = r + a
  BY <1>4
<1>6. Lists(F, (r + n) + a2, y, pipe)
  BY <1>4, <1>5
<1> QED
  BY <1>2, <1>3, <1>5, <1>6 DEF PipeHas

\* The reader only reads what was written.
LEMMA FrameBegun ==
  ASSUME NEW F, NEW T, NEW t, NEW c, Frames(F, T, t, c, stamp, msgLen), NEW w \in Nat, w <= T[c].b,
         NEW r \in Nat, NEW a \in Nat, NEW y \in Nat, w = r + a + y, a >= 1, r = T[t].b
  PROVE  t # c
<1>1. T[c].b \in Nat
  BY DEF Frames, Place
<1> QED
  BY <1>1

LEMMA GotOneMore ==
  ASSUME NEW g, NEW n, NEW ml, MsgsGot(g, n, ml), NEW v \in Seq(Cells),
         v = IF ml[n + 1] = KeepAlive THEN <<>> ELSE MsgCells(n + 1, ml[n + 1])
  PROVE  MsgsGot(Append(g, v), n + 1, ml) /\ Len(Append(g, v)) = n + 1
<1>1. g \in Seq(Seq(Cells)) /\ Len(g) = n /\ n \in Nat
  BY DEF MsgsGot
<1> DEFINE s == Append(g, v)
<1>2. s \in Seq(Seq(Cells)) /\ Len(s) = n + 1 /\ s[n + 1] = v /\ \A i \in 1 .. n : s[i] = g[i]
  BY <1>1
<1> HIDE DEF s
<1>3. ASSUME NEW i \in 1 .. n + 1 PROVE s[i] = IF ml[i] = KeepAlive THEN <<>> ELSE MsgCells(i, ml[i])
  <2>1. CASE i = n + 1
    BY <1>2, <2>1
  <2>2. CASE i # n + 1
    <3>1. i \in 1 .. n
      BY <1>1, <2>2
    <3>2. g[i] = IF ml[i] = KeepAlive THEN <<>> ELSE MsgCells(i, ml[i])
      BY <3>1 DEF MsgsGot
    <3> QED
      BY <1>2, <3>1, <3>2
  <2> QED
    BY <2>1, <2>2
<1>4. MsgsGot(s, n + 1, ml)
  BY <1>1, <1>2, <1>3 DEF MsgsGot
<1> QED
  BY <1>2, <1>4 DEF s

RawBytes(m, n) == [k \in 1 .. n |-> RawCell(m + k)]

LEMMA GotMoreRaw ==
  ASSUME NEW g, NEW m \in Nat, NEW n \in Nat, RawsGot(g, m)
  PROVE  RawsGot(g \o RawBytes(m, n), m + n) /\ Len(g \o RawBytes(m, n)) = m + n
<1>d. PICK x : x = RawBytes(m, n)
  OBVIOUS
<1>1. g \in Seq(Cells) /\ Len(g) = m /\ m \in Nat /\ \A i \in 1 .. m : g[i] = RawCell(i)
  BY DEF RawsGot
<1>2. x \in Seq(Cells) /\ Len(x) = n
  <2>1. m \in Int
    BY <1>1
  <2>2. x \in CellsOf(Cells, n)
    BY <1>d, <2>1, RawCellsAre DEF RawBytes
  <2> QED
    BY <2>2 DEF CellsOf
<1>x. \A k \in 1 .. n : x[k] = RawCell(m + k)
  BY <1>d DEF RawBytes
<1> DEFINE s == g \o x
<1>3. s \in Seq(Cells) /\ Len(s) = m + n /\ (\A i \in 1 .. m : s[i] = g[i]) /\ \A i \in m + 1 .. m + n : s[i] = x[i - m]
  BY <1>1, <1>2
<1> HIDE DEF s
<1>4. ASSUME NEW i \in 1 .. m + n PROVE s[i] = RawCell(i)
  <2>1. CASE i <= m
    <3>1. i \in 1 .. m
      BY <1>1, <2>1
    <3> QED
      BY <1>1, <1>3, <3>1
  <2>2. CASE i > m
    <3>1. i \in m + 1 .. m + n /\ i - m \in 1 .. n /\ m + (i - m) = i
      BY <1>1, <2>2
    <3>2. x[i - m] = RawCell(m + (i - m))
      BY <1>x, <3>1
    <3> QED
      BY <1>3, <3>1, <3>2
  <2> QED
    BY <1>1, <2>1, <2>2
<1>5. RawsGot(s, m + n)
  BY <1>1, <1>3, <1>4 DEF RawsGot
<1> QED
  BY <1>d, <1>3, <1>5 DEF s

\* What the reader is after it has taken n bytes.
LEMMA ConsumedContent ==
  ASSUME ReaderOK, Consume, NEW F, NEW T, NEW t \in Nat, NEW c \in Nat, NEW r \in Nat, NEW w \in Nat,
         Frames(F, T, t, c, stamp, msgLen), WriterHas(out, raw_flushing_ends_before, F, T, c, w),
         PipeHas(F, r, w), ReaderHas(F, T, t, c, r), NEW n \in Nat, n = rop.n,
         NEW t2 \in Nat, Frames(F, T, t2, c, stamp, msgLen), RopAt(rop', ConsumedPos(n)),
         NEW left, left = ToWrite(ConsumedPos(n), raw_input_ends_before'),
         ReadAt(T, t2, c, r + n, left, rop', Len(gotRaw'), Len(gotMsg')),
         RawsGot(gotRaw', Len(gotRaw')), MsgsGot(gotMsg', Len(gotMsg'), msgLen),
         \A i \in 1 .. Len(gotRaw') : stamp[i] <= Len(gotMsg')
  PROVE  ContentInv'
<1>1. in.len >= n /\ in' = Dropped(in, n, ConsumedPos(n)) /\ UNCHANGED pipe /\ UNCHANGED writer
  BY ConsumeIs
<1>2. UNCHANGED <<stamp, msgLen>>
  BY <1>1 DEF writer
<1>3. InOK(in, raw_input_ends_before) /\ BufHas(in, F, r) /\ in.len \in Nat
  BY InFacts DEF ReaderOK, ReaderHas
<1>4. n <= in.len
  BY <1>1, <1>3
<1>5. BufHas(in', F, r + n) /\ in'.len = in.len - n /\ in'.pos = ConsumedPos(n)
  <2>1. PICK b2 : b2 = in'
    OBVIOUS
  <2>2. b2 = Dropped(in, n, ConsumedPos(n))
    BY <1>1, <2>1
  <2>3. BufHas(b2, F, r + n) /\ b2.len = in.len - n /\ b2.pos = ConsumedPos(n)
    BY <1>3, <1>4, <2>2, DroppedHas
  <2> QED
    BY <2>1, <2>3
<1>6. PipeHas(F, r + n, w)'
  BY <1>1, <1>4, <1>5, ConsumedPipe
<1>7. NeverOvertaken'
  BY <1>2 DEF NeverOvertaken
<1>8. ReaderHas(F, T, t2, c, r + n)'
  BY <1>2, <1>5, <1>7 DEF ReaderHas
<1>9. r + n \in Nat
  OBVIOUS
<1> QED
  BY <1>1, <1>6, <1>8, <1>9, ReaderSteps

\* At the end of a frame the reader is at the next.
LEMMA AtNext ==
  ASSUME NEW T, NEW t, NEW c, NEW r, r = T[t].b, NEW o, o.op # "body", NEW gr, gr = T[t].q, NEW gm, gm = T[t].m
  PROVE  ReadAt(T, t, c, r, 0, o, gr, gm)
BY DEF ReadAt

LEMMA FirstByte == ASSUME NEW F, NEW r \in Nat, NEW n \in Nat, n >= 1 PROVE BytesFrom(F, r, n)[1] = F[r]
<1>1. 1 \in 1 .. n /\ r + 1 - 1 = r
  OBVIOUS
<1> QED
  BY <1>1 DEF BytesFrom

LEMMA IdleAt == ASSUME NEW P PROVE RopAt(Idle, P)
BY DEF RopAt

LEMMA OneMoreMessage ==
  ASSUME NEW A, WriterOK(A), NEW F, NEW T, NEW t, NEW c, Frames(F, T, t, c, stamp, msgLen), NEW w \in Nat,
         WriterHas(out, raw_flushing_ends_before, F, T, c, w), NEW gr \in Nat, gr = T[t].q, NEW gm \in Nat,
         \A i \in 1 .. gr : stamp[i] <= gm
  PROVE  \A i \in 1 .. gr : stamp[i] <= gm + 1
<1>1. StampsOK(stamp, nraw, nmsg) /\ T[c].q <= nraw /\ nraw \in Nat /\ T[c].q \in Nat
  BY WriterEnd DEF WriterHas
<1>2. gr <= T[c].q
  BY FramesBounds DEF Before
<1>3. stamp \in Seq(Int) /\ Len(stamp) = nraw
  BY <1>1 DEF StampsOK, CountOK
<1>4. \A i \in 1 .. gr : i \in 1 .. nraw
  BY <1>1, <1>2
<1>5. \A i \in 1 .. gr : stamp[i] \in Int /\ stamp[i] <= gm
  BY <1>3, <1>4
<1>6. \A x \in Int : x <= gm => x <= gm + 1
  OBVIOUS
<1> QED
  BY <1>5, <1>6

LEMMA ConsumeHeader ==
  ASSUME NEW A, WriterOK(A), ReaderOK, ContentInv, Consume, rop.op = "hdr"
  PROVE  ContentInv'
<1>1. PICK F, T : \E t \in Nat, c \in Nat, r \in Nat, w \in Nat :
        /\ Frames(F, T, t, c, stamp, msgLen) /\ WriterHas(out, raw_flushing_ends_before, F, T, c, w)
        /\ PipeHas(F, r, w) /\ ReaderHas(F, T, t, c, r)
  BY DEF ContentInv
<1>2. PICK t \in Nat, c \in Nat, r \in Nat, w \in Nat :
        /\ Frames(F, T, t, c, stamp, msgLen) /\ WriterHas(out, raw_flushing_ends_before, F, T, c, w)
        /\ PipeHas(F, r, w) /\ ReaderHas(F, T, t, c, r)
  BY <1>1
<1>3. rop # Idle /\ rop.n = Hdr /\ raw_input_ends_before = 0 /\ in.len >= Hdr /\ in.len \in Nat
  <2>1. rop # Idle /\ in.len >= rop.n
    BY ConsumeIs
  <2>2. rop.n = Hdr /\ raw_input_ends_before = 0
    BY <2>1 DEF ReaderOK, RopOK
  <2> QED
    BY <2>1, <2>2, InFacts DEF ReaderOK
<1>4. Hdr \in Nat /\ Hdr >= 1 /\ Hdr <= in.len
  BY <1>3, Sizes
<1>5. /\ BufHas(in, F, r) /\ RopAt(rop, in.pos)
      /\ ReadAt(T, t, c, r, 0, rop, Len(gotRaw), Len(gotMsg))
      /\ RawsGot(gotRaw, Len(gotRaw)) /\ MsgsGot(gotMsg, Len(gotMsg), msgLen) /\ NeverOvertaken
  BY <1>2, <1>3 DEF ReaderHas, ToWrite
<1>g. PICK gr, gm, pos, E2 : gr = Len(gotRaw) /\ gm = Len(gotMsg) /\ pos = ConsumedPos(Hdr) /\ E2 = raw_input_ends_before'
  OBVIOUS
<1>6. gm = T[t].m /\ gr = T[t].q /\ r = T[t].b
  BY <1>5, <1>g DEF ReadAt
<1>7. t # c
  <2>1. PICK a \in Nat, y \in Nat : a = in.len /\ y = Len(pipe)
    BY InFacts, PipeFacts DEF ReaderOK
  <2>2. w = r + a + y /\ a >= 1
    BY <1>2, <1>4, <2>1 DEF PipeHas
  <2>3. w <= T[c].b
    BY <1>2, WriterEnd
  <2> QED
    BY <1>2, <1>6, <2>2, <2>3, FrameBegun
<1>8. PICK l, k : l = T[t].l /\ k = T[t].k
  OBVIOUS
<1>9. /\ Frame(F, r, k, l, gr, gm, stamp, msgLen) /\ NextFrame(T[t], T[t + 1]) /\ Frames(F, T, t + 1, c, stamp, msgLen)
  BY <1>2, <1>6, <1>7, <1>8, FirstFrame
<1>10. /\ gr \in Nat /\ gm \in Nat /\ l \in Nat /\ k \in Kinds
       /\ F[r] = <<"hdr", IF k = "msg" THEN "msg" ELSE "data", IF k = "chunk" THEN 0 ELSE gm + 1, l, 1>>
       /\ k = "chunk" => l >= 1
       /\ k = "alive" => l = 0 /\ msgLen[gm + 1] = KeepAlive
  BY <1>9 DEF Frame
<1>11. /\ T[t + 1].b = r + Hdr + l
       /\ T[t + 1].q = IF k = "chunk" THEN gr + l ELSE gr
       /\ T[t + 1].m = IF k = "chunk" THEN gm ELSE gm + 1
  BY <1>6, <1>8, <1>9 DEF NextFrame
<1>12. PICK h : h = RawRead(Hdr)[1]
  OBVIOUS
<1>13. h = F[r]
  <2>1. InOK(in, raw_input_ends_before)
    BY DEF ReaderOK
  <2>2. RawRead(Hdr) = BytesFrom(F, r, Hdr)
    BY <1>3, <1>4, <1>5, <2>1, RawReadIs
  <2>3. BytesFrom(F, r, Hdr)[1] = F[r]
    BY <1>4, FirstByte
  <2> QED
    BY <1>12, <2>2, <2>3
<1>14. h[4] = l /\ h # Blank /\ h[1] = "hdr" /\ h[2] = IF k = "msg" THEN "msg" ELSE "data"
  BY <1>10, <1>13 DEF Blank
<1>15. /\ HdrSays(h, "data") => GotData(h, pos)
       /\ HdrSays(h, "msg") => GotHeader(h, pos)
  BY <1>3, <1>12, <1>g, ConsumeIs
<1>16. /\ pos \in Nat /\ r + Hdr \in Nat /\ t + 1 \in Nat
  <2>1. in.pos \in Nat /\ in.size = InSize /\ InSize \in Nat
    BY InFacts, Sizes DEF ReaderOK
  <2> QED
    BY <1>g, <1>4, <2>1 DEF ConsumedPos
<1>17. \A i \in 1 .. gr : stamp[i] <= gm
  BY <1>5, <1>g DEF NeverOvertaken
<1>18. \A t2 \in Nat : \A left :
         /\ Frames(F, T, t2, c, stamp, msgLen) /\ RopAt(rop', pos) /\ left = ToWrite(pos, E2)
         /\ ReadAt(T, t2, c, r + Hdr, left, rop', Len(gotRaw'), Len(gotMsg'))
         /\ RawsGot(gotRaw', Len(gotRaw')) /\ MsgsGot(gotMsg', Len(gotMsg'), msgLen)
         /\ \A i \in 1 .. Len(gotRaw') : stamp[i] <= Len(gotMsg')
         => ContentInv'
  <2> TAKE t2 \in Nat
  <2> TAKE left
  <2> HAVE /\ Frames(F, T, t2, c, stamp, msgLen) /\ RopAt(rop', pos) /\ left = ToWrite(pos, E2)
           /\ ReadAt(T, t2, c, r + Hdr, left, rop', Len(gotRaw'), Len(gotMsg'))
           /\ RawsGot(gotRaw', Len(gotRaw')) /\ MsgsGot(gotMsg', Len(gotMsg'), msgLen)
           /\ \A i \in 1 .. Len(gotRaw') : stamp[i] <= Len(gotMsg')
  <2>1. Hdr = rop.n /\ Hdr \in Nat
    BY <1>3, <1>4
  <2>2. RopAt(rop', ConsumedPos(Hdr)) /\ left = ToWrite(ConsumedPos(Hdr), raw_input_ends_before')
    BY <1>g
  <2> QED
    BY <1>2, <2>1, <2>2, ConsumedContent, Zenon
<1>19. CASE k = "chunk"
  <2>1. HdrSays(h, "data")
    BY <1>14, <1>19 DEF HdrSays
  <2>2. E2 = pos + l /\ rop' = Idle /\ gotMsg' = gotMsg /\ gotRaw' = gotRaw
    BY <1>10, <1>14, <1>15, <1>19, <1>g, <2>1 DEF GotData
  <2>3. l = ToWrite(pos, E2)
    BY <1>10, <1>16, <1>19, <2>2 DEF ToWrite
  <2>4. ReadAt(T, t, c, r + Hdr, l, Idle, gr, gm)
    BY <1>6, <1>7, <1>8, <1>10, <1>11, <1>19 DEF ReadAt
  <2> QED
    BY <1>2, <1>5, <1>17, <1>18, <1>g, <2>2, <2>3, <2>4, IdleAt
<1>20. CASE k = "alive"
  <2>1. HdrSays(h, "data")
    BY <1>14, <1>20 DEF HdrSays
  <2>2. E2 = 0 /\ rop' = Idle /\ gotMsg' = Append(gotMsg, <<>>) /\ gotRaw' = gotRaw
    BY <1>10, <1>14, <1>15, <1>20, <1>g, <2>1 DEF GotData
  <2>3. 0 = ToWrite(pos, E2)
    BY <2>2 DEF ToWrite
  <2>4. MsgsGot(gotMsg', gm + 1, msgLen) /\ Len(gotMsg') = gm + 1
    <3>1. <<>> \in Seq(Cells) /\ <<>> = IF msgLen[gm + 1] = KeepAlive THEN <<>> ELSE MsgCells(gm + 1, msgLen[gm + 1])
      BY <1>10, <1>20
    <3> QED
      BY <1>5, <1>g, <2>2, <3>1, GotOneMore
  <2>5. ReadAt(T, t + 1, c, r + Hdr, 0, Idle, gr, gm + 1)
    <3>1. r + Hdr = T[t + 1].b /\ Idle.op # "body" /\ gr = T[t + 1].q /\ gm + 1 = T[t + 1].m
      BY <1>4, <1>10, <1>11, <1>20 DEF Idle
    <3> QED
      BY <3>1, AtNext
  <2>6. \A i \in 1 .. gr : stamp[i] <= gm + 1
    BY <1>2, <1>6, <1>10, <1>17, OneMoreMessage
  <2> QED
    BY <1>5, <1>9, <1>16, <1>18, <1>g, <2>2, <2>3, <2>4, <2>5, <2>6, IdleAt
<1>21. CASE k = "msg"
  <2>1. HdrSays(h, "msg")
    BY <1>14, <1>21 DEF HdrSays
  <2>2. /\ rop' = [op |-> "body", n |-> l, code |-> "msg", id |-> h[3], pos0 |-> pos, direct |-> FALSE]
        /\ E2 = 0 /\ gotMsg' = gotMsg /\ gotRaw' = gotRaw
    BY <1>14, <1>15, <1>g, <2>1 DEF GotHeader
  <2>3. 0 = ToWrite(pos, E2)
    BY <2>2 DEF ToWrite
  <2>4. rop'.op = "body" /\ rop'.n = l /\ rop'.pos0 = pos /\ ~rop'.direct
    BY <2>2
  <2>5. ReadAt(T, t, c, r + Hdr, 0, rop', gr, gm)
    BY <1>6, <1>7, <1>8, <1>21, <2>4 DEF ReadAt
  <2>6. RopAt(rop', pos)
    BY <1>16, <2>4 DEF RopAt
  <2> QED
    BY <1>2, <1>5, <1>17, <1>18, <1>g, <2>2, <2>3, <2>5, <2>6
<1> QED
  BY <1>10, <1>19, <1>20, <1>21 DEF Kinds

LEMMA ConsumeBody ==
  ASSUME NEW A, WriterOK(A), ReaderOK, ContentInv, Consume, rop.op = "body"
  PROVE  ContentInv'
<1>1. PICK F, T : \E t \in Nat, c \in Nat, r \in Nat, w \in Nat :
        /\ Frames(F, T, t, c, stamp, msgLen) /\ WriterHas(out, raw_flushing_ends_before, F, T, c, w)
        /\ PipeHas(F, r, w) /\ ReaderHas(F, T, t, c, r)
  BY DEF ContentInv
<1>2. PICK t \in Nat, c \in Nat, r \in Nat, w \in Nat :
        /\ Frames(F, T, t, c, stamp, msgLen) /\ WriterHas(out, raw_flushing_ends_before, F, T, c, w)
        /\ PipeHas(F, r, w) /\ ReaderHas(F, T, t, c, r)
  BY <1>1
<1>n. PICK n : n = rop.n
  OBVIOUS
<1>3. rop # Idle /\ n \in Nat /\ raw_input_ends_before = 0 /\ n <= in.len
  <2>1. rop # Idle /\ in.len >= rop.n
    BY ConsumeIs
  <2>2. rop.n \in Nat /\ raw_input_ends_before = 0
    BY <2>1 DEF ReaderOK, RopOK
  <2>3. in.len \in Nat
    BY InFacts DEF ReaderOK
  <2> QED
    BY <1>n, <2>1, <2>2, <2>3
<1>5. /\ BufHas(in, F, r) /\ RopAt(rop, in.pos)
      /\ ReadAt(T, t, c, r, 0, rop, Len(gotRaw), Len(gotMsg))
      /\ RawsGot(gotRaw, Len(gotRaw)) /\ MsgsGot(gotMsg, Len(gotMsg), msgLen) /\ NeverOvertaken
  BY <1>2, <1>3 DEF ReaderHas, ToWrite
<1>g. PICK gr, gm, pos, E2 : gr = Len(gotRaw) /\ gm = Len(gotMsg) /\ pos = ConsumedPos(n) /\ E2 = raw_input_ends_before'
  OBVIOUS
<1>6. gm = T[t].m /\ gr = T[t].q /\ t # c /\ T[t].k = "msg" /\ r = T[t].b + Hdr /\ n = T[t].l
  BY <1>5, <1>g, <1>n DEF ReadAt
<1>9. /\ Frame(F, T[t].b, "msg", n, gr, gm, stamp, msgLen) /\ NextFrame(T[t], T[t + 1])
      /\ Frames(F, T, t + 1, c, stamp, msgLen)
  BY <1>2, <1>6, FirstFrame
<1>10. /\ gr \in Nat /\ gm \in Nat /\ Lists(F, r, n, MsgCells(gm + 1, n)) /\ msgLen[gm + 1] = n
  BY <1>6, <1>9 DEF Frame
<1>11. /\ T[t + 1].b = r + n /\ T[t + 1].q = gr /\ T[t + 1].m = gm + 1
  BY <1>6, <1>9 DEF NextFrame
<1>13. RawRead(n) = MsgCells(gm + 1, n)
  <2>1. InOK(in, raw_input_ends_before) /\ (rop.op = "hdr" => n = Hdr)
    BY DEF ReaderOK
  <2>2. RawRead(n) = BytesFrom(F, r, n)
    BY <1>3, <1>5, <2>1, RawReadIs
  <2>3. \A k \in 1 .. n : F[r + k - 1] = <<"msg", gm + 1, k>>
    BY <1>10 DEF Lists, MsgCells
  <2>4. BytesFrom(F, r, n) = MsgCells(gm + 1, n)
    BY <2>3, Zenon DEF BytesFrom, MsgCells
  <2> QED
    BY <2>2, <2>4
<1>14. E2 = 0 /\ rop' = Idle /\ gotMsg' = Append(gotMsg, MsgCells(gm + 1, n)) /\ gotRaw' = gotRaw
  BY <1>13, <1>g, <1>n, ConsumeIs DEF GotBody
<1>15. MsgsGot(gotMsg', gm + 1, msgLen) /\ Len(gotMsg') = gm + 1
  <2>1. MsgCells(gm + 1, n) \in Seq(Cells)
    BY <1>3, <1>10, MsgCellsAre DEF CellsOf
  <2>2. MsgCells(gm + 1, n) = IF msgLen[gm + 1] = KeepAlive THEN <<>> ELSE MsgCells(gm + 1, msgLen[gm + 1])
    BY <1>3, <1>10 DEF KeepAlive
  <2> QED
    BY <1>5, <1>g, <1>14, <2>1, <2>2, GotOneMore
<1>16. 0 = ToWrite(pos, E2) /\ t + 1 \in Nat
  BY <1>14 DEF ToWrite
<1>17. ReadAt(T, t + 1, c, r + n, 0, Idle, gr, gm + 1)
  <2>1. r + n = T[t + 1].b /\ Idle.op # "body" /\ gr = T[t + 1].q /\ gm + 1 = T[t + 1].m
    BY <1>11 DEF Idle
  <2> QED
    BY <2>1, AtNext
<1>18. \A i \in 1 .. gr : stamp[i] <= gm + 1
  <2>1. \A i \in 1 .. gr : stamp[i] <= gm
    BY <1>5, <1>g DEF NeverOvertaken
  <2> QED
    BY <1>2, <1>6, <1>10, <2>1, OneMoreMessage
<1> DEFINE left == 0
<1>19. /\ Frames(F, T, t + 1, c, stamp, msgLen) /\ RopAt(rop', ConsumedPos(n))
       /\ left = ToWrite(ConsumedPos(n), raw_input_ends_before')
       /\ ReadAt(T, t + 1, c, r + n, left, rop', Len(gotRaw'), Len(gotMsg'))
       /\ RawsGot(gotRaw', Len(gotRaw')) /\ MsgsGot(gotMsg', Len(gotMsg'), msgLen)
       /\ \A i \in 1 .. Len(gotRaw') : stamp[i] <= Len(gotMsg')
  BY <1>5, <1>9, <1>g, <1>14, <1>15, <1>16, <1>17, <1>18, IdleAt
<1> HIDE DEF left
<1> QED
  BY <1>2, <1>3, <1>n, <1>16, <1>19, ConsumedContent, Zenon

\* What is left of a chunk after n of its bytes.
LEMMA LeftAfter ==
  ASSUME InOK(in, raw_input_ends_before), raw_input_ends_before # 0, NEW n \in Nat, n <= in.len,
         in.pos + n <= raw_input_ends_before
  PROVE  ToWrite(ConsumedPos(n), ConsumedEnds(n)) = ToWrite(in.pos, raw_input_ends_before) - n
<1>1. PICK P \in Nat, E \in Nat, S \in Nat : P = in.pos /\ E = raw_input_ends_before /\ S = in.size
  BY InFacts, Sizes
<1>2. E # 0 /\ P + n <= E /\ P < S /\ n <= S
  <2>1. in.len \in Nat /\ in.len <= S /\ P < S
    BY <1>1, InFacts
  <2> QED
    BY <1>1, <2>1
<1>3. /\ ConsumedPos(n) = IF P + n >= S THEN P + n - S ELSE P + n
      /\ ConsumedEnds(n) = IF P + n = E \/ E = 0 THEN 0 ELSE IF P + n >= S THEN E - S ELSE E
  BY <1>1 DEF ConsumedPos, ConsumedEnds
<1>4. PICK p, e : p = ConsumedPos(n) /\ e = ConsumedEnds(n)
  OBVIOUS
<1>5. ToWrite(p, e) = ToWrite(P, E) - n
  <2>1. ToWrite(P, E) = E - P
    BY <1>2 DEF ToWrite
  <2>2. CASE P + n = E
    <3>1. e = 0
      BY <1>3, <1>4, <2>2
    <3> QED
      BY <2>1, <2>2, <3>1 DEF ToWrite
  <2>3. CASE P + n # E /\ P + n >= S
    <3>1. e = E - S /\ p = (P + n) - S
      BY <1>2, <1>3, <1>4, <2>3
    <3>2. e # 0 /\ e - p = (E - P) - n
      BY <1>2, <2>3, <3>1
    <3> QED
      BY <2>1, <3>2 DEF ToWrite
  <2>4. CASE P + n # E /\ P + n < S
    <3>1. e = E /\ p = P + n
      BY <1>2, <1>3, <1>4, <2>4
    <3>2. e # 0 /\ e - p = (E - P) - n
      BY <1>2, <2>4, <3>1
    <3> QED
      BY <2>1, <3>2 DEF ToWrite
  <2> QED
    BY <2>2, <2>3, <2>4
<1> QED
  BY <1>1, <1>4, <1>5

\* The part of a chunk that is read next is the raw data that is due.
LEMMA ChunkPart ==
  ASSUME NEW F, NEW b \in Nat, NEW l \in Nat, NEW q \in Nat, Lists(F, b + Hdr, l, RawFrom(q)),
         NEW m \in Nat, NEW st, \A i \in 1 .. l : st[q + i] <= m,
         NEW x \in Nat, NEW n \in Nat, x + n <= l,
         NEW r \in Nat, r = b + Hdr + x, NEW g \in Nat, g = q + x
  PROVE  /\ BytesFrom(F, r, n) = RawBytes(g, n)
         /\ \A i \in g + 1 .. g + n : st[i] <= m
<1>h. Hdr \in Nat
  BY Sizes
<1>1. ASSUME NEW k \in 1 .. n PROVE F[r + k - 1] = RawCell(g + k)
  <2>1. x + k \in 1 .. l /\ x + k \in Nat
    OBVIOUS
  <2>2. F[b + Hdr + (x + k) - 1] = RawFrom(q)[x + k]
    BY <2>1 DEF Lists
  <2>3. RawFrom(q)[x + k] = RawCell(q + (x + k))
    BY <2>1 DEF RawFrom
  <2>4. b + Hdr + (x + k) - 1 = r + k - 1 /\ q + (x + k) = g + k
    BY <1>h
  <2> QED
    BY <2>2, <2>3, <2>4
<1>2. BytesFrom(F, r, n) = RawBytes(g, n)
  BY <1>1, Zenon DEF BytesFrom, RawBytes
<1>3. ASSUME NEW i \in g + 1 .. g + n PROVE st[i] <= m
  <2>1. i - q \in 1 .. l /\ q + (i - q) = i
    OBVIOUS
  <2>2. st[q + (i - q)] <= m
    BY <2>1
  <2> QED
    BY <2>1, <2>2
<1> QED
  BY <1>2, <1>3

LEMMA ConsumeRaw ==
  ASSUME NEW A, WriterOK(A), ReaderOK, ContentInv, Consume, rop.op = "raw"
  PROVE  ContentInv'
<1>1. PICK F, T : \E t \in Nat, c \in Nat, r \in Nat, w \in Nat :
        /\ Frames(F, T, t, c, stamp, msgLen) /\ WriterHas(out, raw_flushing_ends_before, F, T, c, w)
        /\ PipeHas(F, r, w) /\ ReaderHas(F, T, t, c, r)
  BY DEF ContentInv
<1>2. PICK t \in Nat, c \in Nat, r \in Nat, w \in Nat :
        /\ Frames(F, T, t, c, stamp, msgLen) /\ WriterHas(out, raw_flushing_ends_before, F, T, c, w)
        /\ PipeHas(F, r, w) /\ ReaderHas(F, T, t, c, r)
  BY <1>1
<1>m. rop.n \in Nat
  BY ConsumeIs DEF ReaderOK, RopOK
<1>n. PICK n \in Nat, left \in Nat : n = rop.n /\ left = ToWrite(in.pos, raw_input_ends_before)
  BY <1>m, LeftIs DEF ReaderOK
<1>i. InOK(in, raw_input_ends_before) /\ (rop.op = "hdr" => n = Hdr)
  BY DEF ReaderOK
<1>3. /\ rop # Idle /\ n \in Nat /\ n <= in.len
      /\ raw_input_ends_before # 0 /\ in.pos + n <= raw_input_ends_before
  <2>1. rop # Idle /\ in.len >= rop.n
    BY ConsumeIs
  <2>2. rop.n \in Nat /\ raw_input_ends_before # 0 /\ in.pos + rop.n <= raw_input_ends_before
    BY <2>1 DEF ReaderOK, RopOK
  <2>3. in.len \in Nat
    BY InFacts DEF ReaderOK
  <2> QED
    BY <1>n, <2>1, <2>2, <2>3
<1>4. left \in Nat /\ left # 0 /\ n <= left
  <2>1. in.pos \in Nat /\ raw_input_ends_before \in Nat /\ in.pos < raw_input_ends_before
    BY <1>i, <1>3, InFacts
  <2>2. left = raw_input_ends_before - in.pos
    BY <1>n, <1>3 DEF ToWrite
  <2> QED
    BY <1>3, <2>1, <2>2
<1>5. /\ BufHas(in, F, r) /\ RopAt(rop, in.pos)
      /\ ReadAt(T, t, c, r, left, rop, Len(gotRaw), Len(gotMsg))
      /\ RawsGot(gotRaw, Len(gotRaw)) /\ MsgsGot(gotMsg, Len(gotMsg), msgLen) /\ NeverOvertaken
  BY <1>2, <1>n DEF ReaderHas
<1>l. Len(gotRaw) \in Nat /\ Len(gotMsg) \in Nat
  BY <1>5 DEF RawsGot, MsgsGot
<1>k. PICK gr \in Nat, gm \in Nat : gr = Len(gotRaw) /\ gm = Len(gotMsg)
  BY <1>l
<1>o. PICK pos, E2 : pos = ConsumedPos(n) /\ E2 = raw_input_ends_before'
  OBVIOUS
<1>g. gr = Len(gotRaw) /\ gm = Len(gotMsg) /\ pos = ConsumedPos(n) /\ E2 = raw_input_ends_before'
  BY <1>k, <1>o
<1>6. /\ gm = T[t].m /\ t # c /\ T[t].k = "chunk" /\ left \in 1 .. T[t].l
      /\ r + left = T[t + 1].b /\ gr + left = T[t + 1].q
  BY <1>4, <1>5, <1>g DEF ReadAt
<1>7. PICK b \in Nat, l \in Nat, q \in Nat : b = T[t].b /\ l = T[t].l /\ q = T[t].q
  <2>1. Frame(F, T[t].b, T[t].k, T[t].l, T[t].q, T[t].m, stamp, msgLen)
    BY <1>2, <1>6, FirstFrame
  <2> QED
    BY <2>1 DEF Frame
<1>8. /\ Frame(F, b, "chunk", l, q, gm, stamp, msgLen) /\ NextFrame(T[t], T[t + 1])
      /\ Frames(F, T, t + 1, c, stamp, msgLen)
  BY <1>2, <1>6, <1>7, FirstFrame
<1>9. /\ b \in Nat /\ l \in Nat /\ q \in Nat /\ gm \in Nat
      /\ Lists(F, b + Hdr, l, RawFrom(q)) /\ \A i \in 1 .. l : stamp[q + i] <= gm
  BY <1>8 DEF Frame
<1>10. r + left = b + Hdr + l /\ gr + left = q + l /\ T[t + 1].m = gm /\ left <= l
  BY <1>6, <1>7, <1>8, <1>9 DEF NextFrame
<1>11. gr \in Nat /\ Hdr \in Nat
  BY <1>5, <1>g, Sizes DEF RawsGot
<1>12. PICK x \in Nat : x = l - left
  BY <1>4, <1>9, <1>10
<1>13. x + n <= l /\ r = b + Hdr + x /\ gr = q + x
  <2>1. r + left = b + Hdr + l /\ gr + left = q + l /\ n <= left
    BY <1>4, <1>10
  <2>2. x + n <= l
    BY <1>12, <2>1
  <2>3. r = b + Hdr + x
    BY <1>11, <1>12, <2>1
  <2>4. gr = q + x
    BY <1>12, <2>1
  <2> QED
    BY <2>2, <2>3, <2>4
<1>14. /\ BytesFrom(F, r, n) = RawBytes(gr, n)
       /\ \A i \in gr + 1 .. gr + n : stamp[i] <= gm
  <2>1. n \in Nat
    BY <1>3
  <2> QED
    BY <2>1, <1>9, <1>13, ChunkPart
<1>15. RawRead(n) = BytesFrom(F, r, n)
  BY <1>i, <1>3, <1>5, RawReadIs
<1>16. E2 = ConsumedEnds(n) /\ rop' = Idle /\ gotMsg' = gotMsg /\ gotRaw' = gotRaw \o BytesFrom(F, r, n)
  BY <1>15, <1>g, <1>n, ConsumeIs DEF GotRaw
<1>17. RawsGot(gotRaw', gr + n) /\ Len(gotRaw') = gr + n
  <2>1. RawsGot(gotRaw, gr)
    BY <1>5, <1>g
  <2>2. RawsGot(gotRaw \o RawBytes(gr, n), gr + n) /\ Len(gotRaw \o RawBytes(gr, n)) = gr + n
    BY <2>1, GotMoreRaw
  <2> QED
    BY <1>14, <1>16, <2>2
<1>18. left - n = ToWrite(pos, E2)
  BY <1>i, <1>3, <1>n, <1>g, <1>16, LeftAfter
<1>19. \A i \in 1 .. gr + n : stamp[i] <= gm
  <2> TAKE i \in 1 .. gr + n
  <2>1. CASE i <= gr
    <3>1. i \in 1 .. gr
      BY <1>11, <2>1
    <3> QED
      BY <1>5, <1>g, <3>1 DEF NeverOvertaken
  <2>2. CASE i > gr
    <3>1. i \in gr + 1 .. gr + n
      BY <1>3, <1>11, <2>2
    <3> QED
      BY <1>14, <3>1
  <2> QED
    BY <1>3, <1>11, <2>1, <2>2
<1>20. \E t2 \in Nat : Frames(F, T, t2, c, stamp, msgLen) /\ ReadAt(T, t2, c, r + n, left - n, Idle, gr + n, gm)
  <2>1. CASE left - n = 0
    <3>1. r + n = T[t + 1].b /\ Idle.op # "body" /\ gr + n = T[t + 1].q /\ gm = T[t + 1].m
      <4>1. n = left
        BY <1>3, <1>4, <2>1
      <4> QED
        BY <1>6, <1>10, <4>1 DEF Idle
    <3>2. ReadAt(T, t + 1, c, r + n, 0, Idle, gr + n, gm)
      BY <3>1, AtNext
    <3>3. t + 1 \in Nat
      OBVIOUS
    <3> QED
      BY <1>8, <2>1, <3>2, <3>3
  <2>2. CASE left - n # 0
    <3>1. left - n \in 1 .. l /\ (r + n) + (left - n) = r + left /\ (gr + n) + (left - n) = gr + left
      BY <1>3, <1>4, <1>9, <1>10, <1>11, <2>2
    <3>2. ReadAt(T, t, c, r + n, left - n, Idle, gr + n, gm)
      BY <1>6, <1>7, <2>2, <3>1 DEF ReadAt
    <3> QED
      BY <1>2, <3>2
  <2> QED
    BY <2>1, <2>2
<1>21. PICK t2 \in Nat : Frames(F, T, t2, c, stamp, msgLen) /\ ReadAt(T, t2, c, r + n, left - n, Idle, gr + n, gm)
  BY <1>20
<1>22. PICK left2 : left2 = left - n
  OBVIOUS
<1>23. /\ Frames(F, T, t2, c, stamp, msgLen) /\ RopAt(rop', ConsumedPos(n))
       /\ left2 = ToWrite(ConsumedPos(n), raw_input_ends_before')
       /\ ReadAt(T, t2, c, r + n, left2, rop', Len(gotRaw'), Len(gotMsg'))
       /\ RawsGot(gotRaw', Len(gotRaw')) /\ MsgsGot(gotMsg', Len(gotMsg'), msgLen)
       /\ \A i \in 1 .. Len(gotRaw') : stamp[i] <= Len(gotMsg')
  <2>1. PICK g2 : g2 = gr + n
    OBVIOUS
  <2>2. ReadAt(T, t2, c, r + n, left2, Idle, g2, gm) /\ RawsGot(gotRaw', g2) /\ Len(gotRaw') = g2
        /\ \A i \in 1 .. g2 : stamp[i] <= gm
    BY <1>17, <1>19, <1>21, <1>22, <2>1
  <2> QED
    BY <1>5, <1>g, <1>16, <1>18, <1>21, <1>22, <2>2, IdleAt
<1> QED
  BY <1>2, <1>3, <1>n, <1>23, ConsumedContent, Zenon

LEMMA ReaderContent ==
  ASSUME NEW A, WriterOK(A), ReaderOK, ContentInv, Reader
  PROVE  ContentInv'
<1>1. CASE Consume
  <2>1. rop # Idle
    BY <1>1, ConsumeIs
  <2>2. rop.op \in {"hdr", "raw", "body"}
    BY <2>1 DEF ReaderOK, RopOK
  <2> QED
    BY <1>1, <2>2, ConsumeHeader, ConsumeBody, ConsumeRaw
<1>2. CASE PerformRead
  BY <1>2, PerformReadContent
<1>3. ASSUME NEW n \in 1 .. MaxLen, read_buf(n) PROVE ContentInv'
  BY <1>3, read_buf_Content
<1> QED
  BY <1>1, <1>2, <1>3 DEF Reader

----------------------------------------------------------------------------
(* Everything arrives *)

\* Nothing has been written: the first frame will begin at byte 0.
LEMMA ContentInit ==
  ASSUME StreamInit
  PROVE  ContentInv
<1>1. IoInit
  BY DEF StreamInit
<1>2. /\ out.len = Hdr /\ msg.len = 0 /\ in.len = 0 /\ raw_flushing_ends_before = 0 /\ raw_input_ends_before = 0
      /\ rop = Idle /\ pipe = <<>> /\ nraw = 0 /\ nmsg = 0
      /\ stamp = <<>> /\ gotRaw = <<>> /\ gotMsg = <<>>
  BY <1>1 DEF IoInit, Xbuf
<1>3. ToWrite(out.pos, 0) = 0 /\ ToWrite(in.pos, 0) = 0 /\ Hdr \in Nat
  BY Sizes DEF ToWrite
<1>4. PICK T : T = [i \in Nat |-> [b |-> 0, k |-> "alive", l |-> 0, q |-> 0, m |-> 0]]
  OBVIOUS
<1>5. T[0].b = 0 /\ T[0].q = 0 /\ T[0].m = 0
  BY <1>4
<1>6. Frames(Raws, T, 0, 0, stamp, msgLen)
  BY <1>5 DEF Frames, Place
<1>7. WriterHas(out, raw_flushing_ends_before, Raws, T, 0, 0)
  <2>1. Waiting(out, 0) = 0 /\ out.len - ToWrite(out.pos, 0) - Hdr = 0
    BY <1>2, <1>3 DEF Waiting
  <2>2. OutHas(out, 0, Raws, 0, 0)
    BY <1>3, <2>1, NothingHeld DEF OutHas
  <2>3. BufHas(msg, Raws, 0)
    BY <1>2, NothingHeld DEF BufHas
  <2>4. StampsOK(stamp, 0, 0)
    BY <1>2 DEF StampsOK, CountOK
  <2> QED
    BY <1>2, <1>3, <1>5, <2>1, <2>2, <2>3, <2>4 DEF WriterHas
<1>8. PipeHas(Raws, 0, 0)
  BY <1>2 DEF PipeHas, Lists
<1>9. ReaderHas(Raws, T, 0, 0, 0)
  <2>1. BufHas(in, Raws, 0)
    BY <1>2, NothingHeld DEF BufHas
  <2>2. RopAt(rop, in.pos)
    BY <1>2 DEF RopAt
  <2>3. Len(gotRaw) = 0 /\ Len(gotMsg) = 0
    BY <1>2
  <2>4. ReadAt(T, 0, 0, 0, 0, rop, 0, 0)
    BY <1>2, <1>5 DEF ReadAt, Idle
  <2>5. RawsGot(gotRaw, 0) /\ MsgsGot(gotMsg, 0, msgLen)
    BY <1>2, <2>3 DEF RawsGot, MsgsGot
  <2>6. NeverOvertaken
    BY <2>3 DEF NeverOvertaken
  <2> QED
    BY <1>2, <1>3, <2>1, <2>2, <2>3, <2>4, <2>5, <2>6 DEF ReaderHas
<1> QED
  BY <1>6, <1>7, <1>8, <1>9 DEF ContentInv

LEMMA ContentStep ==
  ASSUME BufferInv, ContentInv, IoNext
  PROVE  ContentInv'
<1>1. PICK A \in Nat : WriterOK(A)
  BY DEF BufferInv
<1>2. ReaderOK
  BY DEF BufferInv
<1> QED
  BY <1>1, <1>2, WriterContent, ReaderContent DEF IoNext

\* What the buffers, the pipe and the reader hold is one sequence of frames:
\* each step of either process moves bytes along it and loses none.
THEOREM ContentKept == StreamSpec => []ContentInv
<1>1. ASSUME ContentInv, UNCHANGED ioVars PROVE ContentInv'
  <2>1. UNCHANGED <<out, msg, raw_flushing_ends_before, nraw, nmsg, stamp, msgLen, pipe, reader>>
    BY <1>1 DEF ioVars, writer
  <2> QED
    BY <1>1, <2>1, ContentSame
<1>2. BufferInv /\ ContentInv /\ [Values \/ Transport \/ Transfer \/ Rest]_allVars => ContentInv'
  BY <1>1, ContentStep DEF Values, Transport, Transfer, Rest, allVars
<1> QED
  BY <1>2, ContentInit, BuffersSound, PTL DEF StreamSpec

LEMMA ContentGiven ==
  ASSUME BufferInv, ContentInv
  PROVE  RawDataIntact /\ MessagesIntact /\ NeverOvertaken
<1>1. PICK A \in Nat : WriterOK(A)
  BY DEF BufferInv
<1> DEFINE E == raw_flushing_ends_before
<1>2. PICK F, T : \E t \in Nat, c \in Nat, r \in Nat, w \in Nat :
        Frames(F, T, t, c, stamp, msgLen) /\ WriterHas(out, E, F, T, c, w) /\ PipeHas(F, r, w) /\ ReaderHas(F, T, t, c, r)
  BY DEF ContentInv
<1>3. PICK t \in Nat, c \in Nat, r \in Nat, w \in Nat :
        Frames(F, T, t, c, stamp, msgLen) /\ WriterHas(out, E, F, T, c, w) /\ PipeHas(F, r, w) /\ ReaderHas(F, T, t, c, r)
  BY <1>2
<1>4. RawsGot(gotRaw, Len(gotRaw)) /\ MsgsGot(gotMsg, Len(gotMsg), msgLen) /\ NeverOvertaken
      /\ ReadAt(T, t, c, r, ToWrite(in.pos, raw_input_ends_before), rop, Len(gotRaw), Len(gotMsg))
  BY <1>3 DEF ReaderHas
<1>5. RawDataIntact
  <2>1. gotRaw \in Seq(Cells) /\ \A i \in 1 .. Len(gotRaw) : gotRaw[i] = RawCell(i)
    BY <1>4 DEF RawsGot
  <2>2. gotRaw = [i \in 1 .. Len(gotRaw) |-> gotRaw[i]]
    BY <2>1
  <2> QED
    BY <2>1, <2>2, Zenon DEF RawDataIntact
<1>6. Len(gotMsg) <= Len(msgLen) /\ Len(msgLen) \in Nat
  <2>1. in.pos \in Nat /\ raw_input_ends_before \in Nat /\ (raw_input_ends_before # 0 => in.pos < raw_input_ends_before)
    BY InFacts DEF BufferInv, ReaderOK
  <2>2. ToWrite(in.pos, raw_input_ends_before) \in Nat
    BY <2>1 DEF ToWrite
  <2>3. Len(gotRaw) \in Nat /\ Len(gotMsg) \in Nat
    BY <1>4 DEF RawsGot, MsgsGot
  <2>4. Len(gotMsg) <= T[c].m
    BY <1>3, <1>4, <2>2, <2>3, GotBounds
  <2>5. T[c].m = nmsg
    BY <1>3 DEF WriterHas
  <2>6. Len(msgLen) = nmsg /\ nmsg \in Nat
    BY <1>1 DEF WriterOK, CountOK
  <2> QED
    BY <2>4, <2>5, <2>6
<1>7. MessagesIntact
  <2> DEFINE M(i) == IF i > Len(msgLen) \/ msgLen[i] = KeepAlive THEN <<>> ELSE MsgCells(i, msgLen[i])
  <2>1. gotMsg \in Seq(Seq(Cells)) /\ Len(gotMsg) \in Nat
        /\ \A i \in 1 .. Len(gotMsg) : gotMsg[i] = IF msgLen[i] = KeepAlive THEN <<>> ELSE MsgCells(i, msgLen[i])
    BY <1>4 DEF MsgsGot
  <2>2. \A i \in 1 .. Len(gotMsg) : ~(i > Len(msgLen))
    BY <1>6, <2>1
  <2>3. \A i \in 1 .. Len(gotMsg) : gotMsg[i] = M(i)
    BY <2>1, <2>2, Zenon
  <2>4. gotMsg = [i \in 1 .. Len(gotMsg) |-> gotMsg[i]]
    BY <2>1
  <2>5. MessagesIntact <=> gotMsg = [i \in 1 .. Len(gotMsg) |-> M(i)]
    BY DEF MessagesIntact
  <2> HIDE DEF M
  <2> QED
    BY <2>3, <2>4, <2>5, Zenon
<1> QED
  BY <1>4, <1>5, <1>7

\* Raw bytes and messages arrive complete, unchanged and in order, no message
\* is overtaken by data written after it, and no buffer is written outside its
\* bounds, for buffers, chunks and messages of every size and whatever the
\* descriptors take and give (perform_io, send_msg, write_buf, read_buf).
THEOREM EverythingArrives == StreamSpec => []BytesArrive
<1>1. BufferInv /\ ContentInv /\ PositionsInside /\ NoOverrun => BytesArrive
  BY ContentGiven DEF BytesArrive
<1> QED
  BY <1>1, BuffersSound, ContentKept, StoresInside, PTL
============================================================================
