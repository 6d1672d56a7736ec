------------------------------- MODULE Tables -------------------------------
(***************************************************************************)
(* The tables the processes keep: hashtable.c, and from util.c the bit     *)
(* bag, the queue of indices and the growing item list.  A behaviour uses  *)
(* one of them.  The search for a similar name, find_fuzzy.  And the       *)
(* memory of the file lists.                                               *)
(***************************************************************************)
EXTENDS Integers, FiniteSets, SequencesExt

CONSTANTS
  Data,        \* keys of a hash table |-> the data their user gives them, 0 for none
  Hash,        \* key |-> what hashtable_find computes from it
  LeastSize,   \* the least size of a hash table (16)
  SizeWanted,  \* sizes asked for
  IntBits, SlotInts, MaxBit,   \* bits of a word (32), words of a slot, bits of a bag
  MaxPushes,
  SIZE_MAX, ItemSizes, Increments,
  FuzzyNames,       \* names as sequences of character codes
  Candidates   \* sequences of directory lists, each of [name, len, time, ok]

VARIABLE tab

(***************************************************************************)
(* hashtable.c.  nodes is a function on 0 .. size - 1; key 0 is an empty    *)
(* node.                                                                    *)
(***************************************************************************)
EmptyNode == [key |-> 0, data |-> 0]
HASH_LOAD_LIMIT(size) == (size * 3) \div 4
PowersOfTwo == {2^i : i \in 0..12}

hashtable_create(want) ==
  LET size == IF want \in PowersOfTwo /\ want >= LeastSize THEN want
              ELSE CHOOSE s \in PowersOfTwo : /\ s >= LeastSize /\ s >= want
                     /\ \A o \in PowersOfTwo : o >= LeastSize /\ o >= want => s <= o
  IN [size |-> size, entries |-> 0, nodes |-> [i \in 0 .. size - 1 |-> EmptyNode]]

\* The first node at or after its hash with the key, or empty.
Probe(t, key) ==
  LET at(k) == (Hash[key] + k) % t.size
      ks == {k \in 0 .. t.size - 1 : t.nodes[at(k)].key \in {key, 0}}
  IN at(CHOOSE k \in ks : \A l \in ks : k <= l)

\* [t, ndx]: ndx is -1 if the key is not there and new is 0.
FindNode(t, key, new) ==
  LET i == Probe(t, key)
  IN IF t.nodes[i].key = key THEN [t |-> t, ndx |-> i]
     ELSE IF new = 0 THEN [t |-> t, ndx |-> -1]
     ELSE [t |-> [t EXCEPT !.nodes[i] = [key |-> key, data |-> new], !.entries = @ + 1], ndx |-> i]

\* A node without data is moved with another value, which is then cleared.
MoveNode(t, node) ==
  LET f == FindNode(t, node.key, IF node.data = 0 THEN 1 ELSE node.data)
  IN IF node.key = 0 THEN t ELSE [f.t EXCEPT !.nodes[f.ndx].data = node.data]

hashtable_find(t, key, new) ==
  LET big == [size |-> t.size * 2, entries |-> 0, nodes |-> [i \in 0 .. t.size * 2 - 1 |-> EmptyNode]]
      down == [i \in 1 .. t.size |-> t.size - i]
      grown == IF new # 0 /\ t.entries > HASH_LOAD_LIMIT(t.size)
               THEN FoldLeft(LAMBDA b, i : MoveNode(b, t.nodes[i]), big, down) ELSE t
  IN FindNode(grown, key, new)

(***************************************************************************)
(* The bag of bits: slots of words, which come into being with a bit.       *)
(***************************************************************************)
SlotBits == IntBits * SlotInts
SlotCount == (MaxBit + SlotBits - 1) \div SlotBits
bitbag_set_bit(bag, ndx) ==
  [bag EXCEPT ![ndx \div SlotBits][(ndx % SlotBits) \div IntBits] = @ \union {(ndx % SlotBits) % IntBits}]
NoBits == [s \in 0 .. SlotCount - 1 |-> [i \in 0 .. SlotInts - 1 |-> {}]]

RECURSIVE NextFrom(_, _, _, _)
NextFrom(bag, slot, i, mask) ==
  LET bits == {b \in bag[slot][i] : b >= mask}
      least == CHOOSE b \in bits : \A c \in bits : b <= c
  IN IF slot >= SlotCount THEN -1
     ELSE IF i >= SlotInts THEN NextFrom(bag, slot + 1, 0, 0)
     ELSE IF bits = {} THEN NextFrom(bag, slot, i + 1, 0)
     ELSE slot * SlotBits + i * IntBits + least
bitbag_next_bit(bag, after) ==
  LET ndx == after + 1
  IN NextFrom(bag, ndx \div SlotBits, (ndx % SlotBits) \div IntBits, ndx % IntBits)

(***************************************************************************)
(* The queue of indices: items are [next, ndx], 0 is no item.               *)
(***************************************************************************)
flist_ndx_push(q, ndx) ==
  LET id == Len(q.items) + 1
      items == Append(q.items, [next |-> 0, ndx |-> ndx])
  IN IF q.tail # 0 THEN [q EXCEPT !.items = [items EXCEPT ![q.tail].next = id], !.tail = id]
     ELSE [q EXCEPT !.items = items, !.head = id, !.tail = id]
flist_ndx_pop(q) ==
  LET next == q.items[q.head].next
  IN IF q.head = 0 THEN q ELSE [q EXCEPT !.head = next, !.tail = IF next = 0 THEN 0 ELSE @]
RECURSIVE QueueFrom(_, _)
QueueFrom(q, i) == IF i = 0 THEN <<>> ELSE <<q.items[i].ndx>> \o QueueFrom(q, q.items[i].next)

(***************************************************************************)
(* The growing list: [count, malloced, dead].                               *)
(***************************************************************************)
expand_item_list(lp, item_size, incr) ==
  LET more == IF incr < 0 THEN -incr ELSE IF lp.malloced < incr THEN incr - lp.malloced
              ELSE IF lp.malloced > 0 THEN lp.malloced ELSE 1
  IN IF lp.malloced > lp.count THEN [lp EXCEPT !.count = @ + 1]
     ELSE IF (SIZE_MAX \div item_size - more) % (SIZE_MAX + 1) < lp.malloced THEN [lp EXCEPT !.dead = TRUE]
     ELSE [lp EXCEPT !.malloced = @ + more, !.count = @ + 1]

(***************************************************************************)
(* find_fuzzy                                                               *)
(***************************************************************************)
UNIT == 65536
DotChar == 46
Tilde == 126
Digits == 48..57
IgnoredEnds == {<<46, 98, 97, 107>>, <<46, 111, 108, 100>>, <<46, 111, 114, 105, 103>>}   \* .bak .old .orig

RECURSIVE LastSuffix(_, _, _, _)
\* fn up to n, found so far, whether there was a "~" behind; the words are
\* compared with the whole rest of the name.
LastSuffix(fn, n, suf, had_tilde) ==
  LET dots == {k \in 2..n : fn[k] = DotChar}
      s == CHOOSE k \in dots : \A l \in dots : l <= k
      part == SubSeq(fn, s, n)
      rest == SubSeq(fn, s, Len(fn))
      ignored == \/ Len(part) \in {4, 5} /\ rest \in IgnoredEnds
                 \/ Len(part) \notin {4, 5} /\ Len(part) > 2 /\ had_tilde /\ part[2] = Tilde /\ part[3] \in Digits
  IN IF n <= 1 \/ dots = {} THEN suf
     ELSE IF ignored THEN LastSuffix(fn, s - 1, suf, had_tilde)
     ELSE IF Len(part) = 1 \/ \E i \in 2..Len(part) : part[i] \notin Digits THEN part
     ELSE LastSuffix(fn, s - 1, part, had_tilde)

RECURSIVE find_filename_suffix(_)
find_filename_suffix(fn) ==
  IF fn # <<>> /\ fn[1] = DotChar THEN find_filename_suffix(Tail(fn))
  ELSE LET tilde == Len(fn) > 1 /\ Last(fn) = Tilde
       IN LastSuffix(fn, IF tilde THEN Len(fn) - 1 ELSE Len(fn), <<>>, tilde)

SumOf(s) == FoldLeft(LAMBDA a, c : a + c, 0, s)
Cost(c, d) == IF c = d THEN 0 ELSE IF c < d THEN UNIT + d - c ELSE UNIT + c - d
Least(a, b) == IF a < b THEN a ELSE b

Cell(diag, left, above, c, d) ==
  LET diag_inc == diag + Cost(c, d)
  IN IF left < above THEN Least(left + UNIT + c, diag_inc) ELSE Least(above + UNIT + d, diag_inc)

\* One row of the matrix after another, in place.
fuzzy_distance(s1, s2) ==
  LET row(a, i1) ==
        FoldLeft(LAMBDA r, i2 : LET x == Cell(r.diag, a[i2], r.above, s1[i1], s2[i2])
                                IN [diag |-> a[i2], above |-> x, a |-> Append(r.a, x)],
                 [diag |-> (i1 - 1) * UNIT, above |-> i1 * UNIT, a |-> <<>>], [i \in 1..Len(s2) |-> i]).a
  IN IF s1 = <<>> \/ s2 = <<>> THEN Len(s1 \o s2) * UNIT + SumOf(s1 \o s2)
     ELSE Last(FoldLeft(row, [i \in 1..Len(s2) |-> i * UNIT], [i \in 1..Len(s1) |-> i]))

NameDistance(a, b) == fuzzy_distance(a, b) + 10 * fuzzy_distance(find_filename_suffix(a), find_filename_suffix(b))

\* The place [i, j] of the basis in the lists, or [0, 0].  A list's file is
\* "ok" if it is an active regular file with content that was not sent.
find_fuzzy(file, lists) ==
  LET all == FlattenSeq([i \in 1..Len(lists) |-> [j \in 1..Len(lists[i]) |-> [i |-> i, j |-> j]]])
      at(p) == lists[p.i][p.j]
      usable == SelectSeq(all, LAMBDA p : at(p).ok)
      exact == SelectSeq(usable, LAMBDA p : at(p).len = file.len /\ at(p).time = file.time)
      closer(b, p) == LET d == NameDistance(at(p).name, file.name) IN IF d <= b.dist THEN [dist |-> d, p |-> p] ELSE b
  IN IF exact # <<>> THEN exact[1]
     ELSE FoldLeft(closer, [dist |-> 25 * UNIT, p |-> [i |-> 0, j |-> 0]], usable).p

(***************************************************************************)
(* Behaviours                                                               *)
(***************************************************************************)
TablesIdle == tab = [kind |-> "idle"]
TablesInit ==
  \/ \E n \in SizeWanted : tab = [kind |-> "hash", t |-> hashtable_create(n), put |-> {}]
  \/ tab = [kind |-> "bits", bag |-> NoBits, set |-> {}]
  \/ tab = [kind |-> "queue", q |-> [items |-> <<>>, head |-> 0, tail |-> 0], want |-> <<>>]
  \/ \E n \in ItemSizes : tab = [kind |-> "items", item_size |-> n, lp |-> [count |-> 0, malloced |-> 0, dead |-> FALSE]]
  \/ tab = [kind |-> "fuzzy"]

\* A user asks for a key with a value that says "new", then gives it its data.
HashUse(key) ==
  /\ tab.kind = "hash"
  /\ LET f == hashtable_find(tab.t, key, 9)
         new == f.t.nodes[f.ndx].data = 9
     IN tab' = [tab EXCEPT !.t = IF new THEN [f.t EXCEPT !.nodes[f.ndx].data = Data[key]] ELSE f.t,
                           !.put = @ \union {key}]
BitsUse(n) == tab.kind = "bits" /\ tab' = [tab EXCEPT !.bag = bitbag_set_bit(@, n), !.set = @ \union {n}]
QueueUse ==
  /\ tab.kind = "queue"
  /\ \/ /\ Len(tab.q.items) < MaxPushes
        /\ tab' = [tab EXCEPT !.q = flist_ndx_push(@, Len(tab.q.items)), !.want = Append(@, Len(tab.q.items))]
     \/ tab.want # <<>> /\ tab' = [tab EXCEPT !.q = flist_ndx_pop(@), !.want = Tail(@)]
ItemsUse(incr) ==
  tab.kind = "items" /\ ~tab.lp.dead /\ tab' = [tab EXCEPT !.lp = expand_item_list(@, tab.item_size, incr)]
FuzzyUse ==
  /\ tab = [kind |-> "fuzzy"]
  /\ \/ \E a, b \in FuzzyNames : tab' = [kind |-> "distance", a |-> a, b |-> b, d |-> fuzzy_distance(a, b)]
     \/ \E n \in FuzzyNames, len \in 1..2, l \in Candidates :
          LET file == [name |-> n, len |-> len, time |-> 1]
          IN tab' = [kind |-> "basis", file |-> file, lists |-> l, p |-> find_fuzzy(file, l)]

TablesNext == \/ \E k \in DOMAIN Data : HashUse(k)
              \/ \E n \in 0 .. MaxBit - 1 : BitsUse(n)
              \/ QueueUse \/ (\E i \in Increments : ItemsUse(i)) \/ FuzzyUse
----------------------------------------------------------------------------
\* However the keys of a hash table collide and when it grew, each is found
\* with its data, also if that is none, and no other is.
HashKeepsAll ==
  tab.kind = "hash" =>
    /\ tab.t.entries = Cardinality(tab.put)
    /\ \A k \in DOMAIN Data : LET i == hashtable_find(tab.t, k, 0).ndx IN
         IF k \in tab.put THEN i >= 0 /\ tab.t.nodes[i].data = Data[k] ELSE i = -1

\* Going through a bag from -1 gives every bit, in order: bitbag_next_bit
\* never passes over one at the start of a word or a slot.
BitsInOrder ==
  tab.kind = "bits" =>
    \A after \in -1 .. MaxBit - 2 : LET later == {b \in tab.set : b > after} IN
      bitbag_next_bit(tab.bag, after) = IF later = {} THEN -1 ELSE CHOOSE b \in later : \A c \in later : b <= c

\* Indices leave the queue as they came, however often it was empty.
QueueKeepsOrder == tab.kind = "queue" => QueueFrom(tab.q, tab.q.head) = tab.want

\* A list always has room for what it counts, and its size in bytes never
\* overflows.
ItemsFit ==
  tab.kind = "items" => /\ tab.lp.count <= tab.lp.malloced
                        /\ tab.lp.malloced * tab.item_size <= SIZE_MAX

\* The edit distance of two names.
Edits(a, b) ==
  LET d[i \in 0..Len(a), j \in 0..Len(b)] ==
        IF i = 0 \/ j = 0 THEN i + j
        ELSE Least(Least(d[i - 1, j], d[i, j - 1]) + 1, d[i - 1, j - 1] + (IF a[i] = b[j] THEN 0 ELSE 1))
  IN d[Len(a), Len(b)]

\* The distance of two names is their edit distance in units and less than
\* one unit for which characters differ, though one row is kept of the matrix
\* and the lesser neighbour is chosen before the costs are added.
DistanceIsEdits == tab.kind = "distance" => tab.d \div UNIT = Edits(tab.a, tab.b)

\* A file of the same size and time is taken before any other; else no usable
\* file, of any list, is closer than the one taken, and none is taken only if
\* all are far.
BasisIsClosest ==
  tab.kind = "basis" =>
    LET us == {p \in UNION {{[i |-> i, j |-> j] : j \in 1..Len(tab.lists[i])} : i \in 1..Len(tab.lists)} :
                 tab.lists[p.i][p.j].ok}
        f(p) == tab.lists[p.i][p.j]
        same(p) == f(p).len = tab.file.len /\ f(p).time = tab.file.time
        dist(p) == NameDistance(f(p).name, tab.file.name)
    IN IF tab.p.i = 0 THEN \A p \in us : ~same(p) /\ dist(p) > 25 * UNIT
       ELSE /\ tab.p \in us
            /\ same(tab.p) \/ \A p \in us : ~same(p) /\ dist(p) >= dist(tab.p)
----------------------------------------------------------------------------
(***************************************************************************)
(* lib/pool_alloc.c, and its use by flist.c: the memory of the file lists.  *)
(* An extent hands out its memory from the end to the start: below "free"   *)
(* it is unused, "bound" counts the bytes above it that were given back.    *)
(* An address is [e, off]; off may be one past the extent.                  *)
(***************************************************************************)
CONSTANTS
  ExtentSizes,   \* requested sizes of an extent
  Quanta,        \* allocation quanta
  HeaderSize,    \* sizeof (struct pool_extent)
  Lengths,       \* lengths that are allocated
  BoundaryLen,   \* what flist_done_allocating wants to be left
  MaxAllocs,     \* allocations in a behaviour
  MaxLists       \* file lists in a behaviour

ASSUME PoolAssumption == \A q \in Quanta : q > 0

VARIABLE pool

NULL == [e |-> 0, off |-> 0]
RoundUp(len, quantum) == ((len + quantum - 1) \div quantum) * quantum

\* POOL_INTERN: the header is part of the extent.
pool_create(size, quantum) ==
  LET inner == IF size <= HeaderSize THEN quantum ELSE size - HeaderSize
  IN [exts |-> <<>>, size |-> RoundUp(inner, quantum), quantum |-> quantum, created |-> 0]

pool_destroy(p) == [p EXCEPT !.exts = <<>>]
Rounded(p, len) == IF len = 0 THEN p.quantum ELSE RoundUp(len, p.quantum)
LiveEdge(p) == [e |-> p.exts[1].id, off |-> p.exts[1].free]

\* [p, addr]; NULL if the length is more than an extent.
pool_alloc(p, want) ==
  LET len == Rounded(p, want)
      fresh == [id |-> p.created + 1, free |-> p.size, bound |-> 0]
      q == IF p.exts # <<>> => len > p.exts[1].free
           THEN [p EXCEPT !.exts = <<fresh>> \o @, !.created = @ + 1] ELSE p
      r == [q EXCEPT !.exts[1].free = @ - len]
  IN IF len > p.size THEN [p |-> p, addr |-> NULL] ELSE [p |-> r, addr |-> LiveEdge(r)]

\* The place of the extent that holds an address, or 0.
Holder(p, addr) ==
  IF \E i \in 1..Len(p.exts) : p.exts[i].id = addr.e /\ addr.off < p.size
  THEN CHOOSE i \in 1..Len(p.exts) : p.exts[i].id = addr.e ELSE 0

\* NULL starts a fresh extent for the next allocations.
pool_free(p, want, addr) ==
  LET len == Rounded(p, want)
      i == Holder(p, addr)
      x == p.exts[i]
      trapped == [x EXCEPT !.bound = @ + len]
  IN CASE addr = NULL ->
            IF p.exts = <<>> THEN p
            ELSE IF p.exts[1].free = p.size THEN p
            ELSE [p EXCEPT !.exts[1] = [@ EXCEPT !.bound = @ + p.exts[1].free, !.free = 0]]
       [] addr # NULL /\ i = 0 -> p
       [] i = 1 ->
            [p EXCEPT !.exts[1] = IF x.free + x.bound + len >= p.size THEN [x EXCEPT !.free = p.size, !.bound = 0]
                                  ELSE IF addr.off = x.free THEN [x EXCEPT !.free = @ + len] ELSE trapped]
       [] i > 1 ->
            IF trapped.free + trapped.bound >= p.size THEN [p EXCEPT !.exts = RemoveAt(@, i)]
            ELSE [p EXCEPT !.exts = <<@[1], trapped>> \o Tail(RemoveAt(@, i))]

\* Mutant: an extent with something newer in it is given back too.
FreeOldWhole(p, addr) ==
  LET i == IF addr = NULL THEN 0 ELSE Holder(p, addr)
  IN CASE i = 0 -> p
       [] i = 1 -> [p EXCEPT !.exts = <<[@[1] EXCEPT !.free = p.size, !.bound = 0]>>]
       [] i > 1 -> [p EXCEPT !.exts = SubSeq(@, 1, i - 1)]

\* Everything older than the address is given back.
pool_free_old(p, addr) ==
  LET i == IF addr = NULL THEN 0 ELSE Holder(p, addr)
      edge == i > 0 /\ addr.off = p.exts[i].free
  IN CASE i = 0 -> p
       [] i = 1 /\ edge -> [p EXCEPT !.exts = <<[@[1] EXCEPT !.free = p.size, !.bound = 0]>>]
       [] i > 1 /\ edge -> [p EXCEPT !.exts = SubSeq(@, 1, i - 1)]
       [] i > 0 /\ ~edge -> [p EXCEPT !.exts = SubSeq(@, 1, i)]

\* [p, addr]: if there is less than len left, the extent is closed.
pool_boundary(p, len) ==
  LET q == IF p.exts[1].free < len
           THEN [p EXCEPT !.exts[1] = [@ EXCEPT !.bound = @ + p.exts[1].free, !.free = 0]] ELSE p
  IN IF p.exts = <<>> THEN [p |-> p, addr |-> NULL] ELSE [p |-> q, addr |-> LiveEdge(q)]

(***************************************************************************)
(* The lists.  "lists": each allocates, is done, and is freed, the oldest  *)
(* first; "free": a user that frees what it allocated one by one.          *)
(***************************************************************************)
PoolIdle == pool = [kind |-> "idle"]
PoolInit ==
  \E size \in ExtentSizes, q \in Quanta, k \in {"lists", "free"} :
    pool = [kind |-> k, p |-> pool_create(size, q), mem |-> {}, lists |-> <<>>, born |-> 0, n |-> 0]

\* flist_new
NewList ==
  /\ pool.kind = "lists" /\ pool.born < MaxLists
  /\ pool.lists # <<>> => Last(pool.lists).done
  /\ LET b == pool_boundary(pool.p, 0)
     IN pool' = [pool EXCEPT !.p = b.p, !.born = @ + 1,
                   !.lists = Append(@, [id |-> pool.born + 1, boundary |-> b.addr, done |-> FALSE])]

Alloc(len) ==
  /\ pool.kind \in {"lists", "free"} /\ pool.n < MaxAllocs
  /\ pool.kind = "lists" => pool.lists # <<>> /\ ~Last(pool.lists).done
  /\ LET a == pool_alloc(pool.p, len)
         owner == IF pool.kind = "lists" THEN Last(pool.lists).id ELSE 0
     IN pool' = IF a.addr = NULL THEN [pool EXCEPT !.kind = "bomb"]
                ELSE [pool EXCEPT !.p = a.p, !.n = @ + 1,
                        !.mem = @ \union {[addr |-> a.addr, len |-> len, owner |-> owner]}]

flist_done_allocating ==
  /\ pool.kind = "lists" /\ pool.lists # <<>> /\ ~Last(pool.lists).done
  /\ LET b == pool_boundary(pool.p, BoundaryLen)
         at == IF Last(pool.lists).boundary = b.addr THEN NULL ELSE b.addr
     IN pool' = [pool EXCEPT !.p = b.p, !.lists[Len(pool.lists)] = [@ EXCEPT !.boundary = at, !.done = TRUE]]

\* The oldest list; the pool goes with the last one.
flist_free ==
  /\ pool.kind = "lists" /\ pool.lists # <<>> /\ Head(pool.lists).done
  /\ LET l == Head(pool.lists)
     IN pool' = [pool EXCEPT !.lists = Tail(@), !.mem = {m \in @ : m.owner # l.id},
                   !.p = IF Len(pool.lists) = 1 THEN pool_destroy(@) ELSE pool_free_old(@, l.boundary)]

FreeOne ==
  /\ pool.kind = "free"
  /\ \/ \E m \in pool.mem : pool' = [pool EXCEPT !.p = pool_free(@, m.len, m.addr), !.mem = @ \ {m}]
     \/ pool' = [pool EXCEPT !.p = pool_free(@, 0, NULL)]

PoolNext == NewList \/ (\E len \in Lengths : Alloc(len)) \/ flist_done_allocating \/ flist_free \/ FreeOne
----------------------------------------------------------------------------
Bytes(m) == {[e |-> m.addr.e, off |-> i] : i \in m.addr.off .. m.addr.off + Rounded(pool.p, m.len) - 1}

\* Memory in use is in an extent that is there, behind its edge, and is
\* never handed out twice, whatever lists came, stayed and went before.
PoolMemoryApart ==
  pool.kind \in {"lists", "free"} =>
    \A m \in pool.mem :
      /\ \E i \in 1..Len(pool.p.exts) : LET x == pool.p.exts[i] IN
           m.addr.e = x.id /\ x.free <= m.addr.off /\ m.addr.off + m.len <= pool.p.size
      /\ \A o \in pool.mem \ {m} : Bytes(m) \intersect Bytes(o) = {}

\* An extent with nothing in use is given back, except the live one and, when
\* lists are freed, at most one that the next list to be freed gives back.
PoolReturned ==
  pool.kind \in {"lists", "free"} =>
    LET unused == {i \in 2..Len(pool.p.exts) : \A m \in pool.mem : m.addr.e # pool.p.exts[i].id}
    IN Cardinality(unused) <= (IF pool.kind = "lists" THEN 1 ELSE 0)
=============================================================================
