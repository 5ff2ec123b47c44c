-------------------------- MODULE QueueLayoutProofs --------------------------
(***************************************************************************)
(* The lemmas under QueueAccountProofs: alignment, the walk of scan_items, *)
(* reading and writing items, and the layout of a queue.                   *)
(*                                                                         *)
(* A set of visits that lies in memory as an unbroken chain of whole items *)
(* (Chain, Layout) is what scan_items finds. Each operation of the account *)
(* turns one layout into another.                                          *)
(***************************************************************************)
EXTENDS QueueAccount, FiniteSetTheorems, WellFoundedInduction, TLAPS

-----------------------------------------------------------------------------
\* Alignment.

\* x is a place an item may start at.
Aligned(x) == \E k \in Nat : x = Align * k

\* align_up rounds up to the next multiple.
LEMMA AlignUp ==
  ASSUME NEW x \in Nat
  PROVE  /\ align_up(x) \in Nat
         /\ x <= align_up(x) /\ align_up(x) < x + Align
         /\ Aligned(align_up(x))
<1> DEFINE y == x + Align - 1
           d == y \div Align
<1>1. Align \in Nat /\ Align > 0 BY LayoutAssumption
<1>2. y \in Nat /\ y = x + Align - 1 BY <1>1
<1>3. align_up(x) = d * Align BY DEF align_up
<1> HIDE DEF y
<1>4. /\ d \in Nat /\ (y % Align) \in 0 .. (Align - 1)
      /\ y = (Align * d) + (y % Align)
  BY <1>1, <1>2
<1> HIDE DEF d
<1>5. d * Align = Align * d /\ Align * d \in Nat BY <1>1, <1>4
<1> QED BY <1>1, <1>2, <1>3, <1>4, <1>5 DEF Aligned

\* Only one multiple lies in a window of that width.
LEMMA AlignedUnique ==
  ASSUME NEW x \in Nat, NEW y \in Nat, NEW z \in Nat,
         Aligned(y), x <= y, y < x + Align, Aligned(z), x <= z, z < x + Align
  PROVE  y = z
<1>1. Align \in Nat /\ Align > 0 BY LayoutAssumption
<1>2. PICK k \in Nat : y = Align * k BY DEF Aligned
<1>3. PICK l \in Nat : z = Align * l BY DEF Aligned
<1>4. y - z = Align * (k - l) BY <1>1, <1>2, <1>3
<1>5. k - l < 1
  <2>1. SUFFICES ASSUME k - l >= 1 PROVE FALSE BY <1>2, <1>3
  <2>2. Align * (k - l) >= Align BY <1>1, <2>1
  <2> QED BY <1>1, <1>4, <2>2
<1>6. l - k < 1
  <2>1. SUFFICES ASSUME l - k >= 1 PROVE FALSE BY <1>2, <1>3
  <2>2. Align * (l - k) >= Align BY <1>1, <2>1
  <2>3. z - y = Align * (l - k) BY <1>1, <1>2, <1>3
  <2> QED BY <1>1, <2>2, <2>3
<1> QED BY <1>2, <1>3, <1>5, <1>6

\* A multiple is its own rounding.
LEMMA AlignFixed == ASSUME NEW x \in Nat, Aligned(x) PROVE align_up(x) = x
<1>1. Align \in Nat /\ Align > 0 BY LayoutAssumption
<1>2. x <= x /\ x < x + Align BY <1>1
<1>3. /\ align_up(x) \in Nat /\ x <= align_up(x) /\ align_up(x) < x + Align
      /\ Aligned(align_up(x))
  BY AlignUp
<1> QED BY <1>2, <1>3, AlignedUnique

\* The span of an item does not depend on where it starts.
LEMMA AlignShift ==
  ASSUME NEW p \in Nat, Aligned(p), NEW x \in Nat
  PROVE  align_up(p + x) = p + align_up(x)
<1>1. Align \in Nat /\ Align > 0 BY LayoutAssumption
<1>2. Aligned(p + align_up(x))
  <2>1. PICK k \in Nat : p = Align * k BY DEF Aligned
  <2>2. PICK l \in Nat : align_up(x) = Align * l BY AlignUp DEF Aligned
  <2>3. p + align_up(x) = Align * (k + l) BY <1>1, <2>1, <2>2
  <2> QED BY <2>3 DEF Aligned
<1>3. p + x \in Nat OBVIOUS
<1>4. align_up(x) \in Nat /\ x <= align_up(x) /\ align_up(x) < x + Align BY AlignUp
<1>5. /\ align_up(p + x) \in Nat /\ p + x <= align_up(p + x)
      /\ align_up(p + x) < (p + x) + Align /\ Aligned(align_up(p + x))
  BY <1>3, AlignUp
<1>6. /\ p + align_up(x) \in Nat /\ p + x <= p + align_up(x)
      /\ p + align_up(x) < (p + x) + Align
  BY <1>1, <1>4
<1> QED BY <1>2, <1>3, <1>5, <1>6, AlignedUnique

-----------------------------------------------------------------------------
\* The recursion of the walk.

\* What can be reached from p by following g is p itself and what can be reached from
\* its successor.
Reached(g, p) ==
  {x \in Nat : \A C \in SUBSET Nat : (p \in C /\ \A y \in C : g[y] \in C) => x \in C}

\* What is reached from a position is that position and what is reached from the next.
LEMMA ReachedStep ==
  ASSUME NEW g \in [Nat -> Nat], \A y \in Nat : g[y] > y, NEW p \in Nat
  PROVE  /\ Reached(g, p) = {p} \union Reached(g, g[p])
         /\ \A x \in Reached(g, p) : x >= p
<1>1. p \in Reached(g, p) /\ g[p] \in Reached(g, g[p]) BY DEF Reached
<1>2. \A x \in Reached(g, g[p]) : g[x] \in Reached(g, g[p]) BY DEF Reached
<1>3. Reached(g, g[p]) \subseteq Reached(g, p) BY DEF Reached
<1>4. ASSUME NEW x \in Reached(g, p) PROVE x \in {p} \union Reached(g, g[p])
  <2> DEFINE C == {p} \union Reached(g, g[p])
  <2>1. C \in SUBSET Nat BY DEF Reached
  <2>2. p \in C /\ \A y \in C : g[y] \in C BY <1>1, <1>2
  <2> HIDE DEF C
  <2>3. x \in C BY <1>4, <2>1, <2>2 DEF Reached
  <2> QED BY <2>3 DEF C
<1>5. ASSUME NEW x \in Reached(g, p) PROVE x >= p
  <2> DEFINE C == {y \in Nat : y >= p}
  <2>1. C \in SUBSET Nat /\ p \in C OBVIOUS
  <2>2. \A y \in C : g[y] \in C OBVIOUS
  <2> HIDE DEF C
  <2>3. x \in C BY <1>5, <2>1, <2>2 DEF Reached
  <2> QED BY <2>3 DEF C
<1> QED BY <1>1, <1>3, <1>4, <1>5

\* Every length read from memory is a number, whatever the bytes hold.
Readable(mem) ==
  \A pos \in Nat : read_item(mem, pos) \in
    [id : Ids \union {None}, used : {0, 1}, disc_off : Nat, metas_off : Nat, args_off : Nat,
     disc_len : Nat, metas_len : Nat, args_len : Nat]

\* The next item starts past the fixed part of this one.
LEMMA NextGrows ==
  ASSUME NEW mem, Readable(mem), NEW pos \in Nat
  PROVE  visit(mem, pos).next \in Nat /\ visit(mem, pos).next >= pos + ItemSize
<1> DEFINE item == read_item(mem, pos)
           x == pos + ItemSize + item.disc_len + (item.metas_len * MetaSize) + item.args_len
<1>1. ItemSize \in Nat /\ MetaSize \in Nat BY LayoutAssumption
<1>2. item.disc_len \in Nat /\ item.metas_len \in Nat /\ item.args_len \in Nat BY Zenon DEF Readable
<1>3. visit(mem, pos).next = align_up(x) BY DEF visit, item_next
<1> HIDE DEF item
<1>4. item.metas_len * MetaSize \in Nat BY <1>1, <1>2
<1>5. x \in Nat /\ x >= pos + ItemSize BY <1>1, <1>2, <1>4
<1> HIDE DEF x
<1> QED BY <1>1, <1>3, <1>5, AlignUp

\* The walk is the function its recursion describes.
LEMMA WalkStep ==
  ASSUME NEW mem, Readable(mem), NEW end \in Nat, NEW pos \in Nat
  PROVE  walk(mem, end)[pos] = IF pos + ItemSize > end
                                 THEN {}
                                 ELSE {visit(mem, pos)} \union walk(mem, end)[visit(mem, pos).next]
<1> DEFINE g == [p \in Nat |-> visit(mem, p).next]
           R(p) == {visit(mem, x) : x \in {y \in Reached(g, p) : y + ItemSize <= end}}
           f == [p \in Nat |-> R(p)]
           Rec(h) == h = [p \in Nat |-> IF p + ItemSize > end
                                          THEN {}
                                          ELSE {visit(mem, p)} \union h[visit(mem, p).next]]
<1>0. ItemSize \in Nat /\ ItemSize > 0 BY LayoutAssumption
<1>1. g \in [Nat -> Nat] /\ \A y \in Nat : g[y] > y BY <1>0, NextGrows
<1>2. ASSUME NEW p \in Nat
      PROVE  R(p) = IF p + ItemSize > end THEN {} ELSE {visit(mem, p)} \union R(g[p])
  <2> HIDE DEF g
  <2>1. Reached(g, p) = {p} \union Reached(g, g[p]) /\ \A x \in Reached(g, p) : x >= p
    BY <1>1, ReachedStep
  <2>2. Reached(g, p) \subseteq Nat BY DEF Reached
  <2>3. CASE p + ItemSize > end
    <3>1. {y \in Reached(g, p) : y + ItemSize <= end} = {} BY <1>0, <2>1, <2>2, <2>3
    <3> QED BY <2>3, <3>1
  <2>4. CASE ~(p + ItemSize > end)
    <3>1. p + ItemSize <= end BY <1>0, <2>4
    <3> QED BY <2>1, <2>4, <3>1
  <2> QED BY <2>3, <2>4
<1>3. Rec(f)
  <2>1. ASSUME NEW p \in Nat
        PROVE  f[p] = IF p + ItemSize > end
                        THEN {} ELSE {visit(mem, p)} \union f[visit(mem, p).next]
    <3>1. g[p] = visit(mem, p).next /\ g[p] \in Nat BY <1>1
    <3> HIDE DEF g
    <3>2. f[p] = R(p) /\ f[g[p]] = R(g[p]) BY <3>1
    <3> HIDE DEF R, f
    <3> QED BY <1>2, <3>1, <3>2
  <2> HIDE DEF R
  <2> QED BY <2>1
<1>4. walk(mem, end) = CHOOSE h : Rec(h) BY DEF walk
<1>5. Rec(walk(mem, end))
  <2> HIDE DEF Rec
  <2> QED BY <1>3, <1>4
<1> QED BY <1>5, Zenon

-----------------------------------------------------------------------------
\* A chain of items is what the walk finds.

\* Every nonempty set of natural numbers has a least element.
LEMMA LeastElement ==
  ASSUME NEW T, T \subseteq Nat, T # {}
  PROVE  \E m \in T : \A k \in T : m <= k
<1> DEFINE R == OpToRel(<, Nat)
<1>1. \E m \in T : \A k \in T : ~(<<k, m>> \in R)
  <2>1. IsWellFoundedOn(R, Nat) BY NatLessThanWellFounded
  <2> HIDE DEF R
  <2> QED BY <2>1, WFMin, Zenon
<1>2. \A k, m \in T : ~(<<k, m>> \in R) => m <= k
  BY DEF OpToRel
<1> HIDE DEF R
<1> QED BY <1>1, <1>2, Zenon

\* Visits that follow each other without gap or overlap, from the first byte behind the
\* header to the end.
Chain(mem, end, S) ==
  /\ \A v \in S : /\ v.pos \in Nat /\ v.pos >= items_start /\ v.pos + ItemSize <= end
                  /\ v = visit(mem, v.pos)
  /\ \A u, v \in S : u = v \/ u.next <= v.pos \/ v.next <= u.pos
  /\ items_start + ItemSize > end \/ \E v \in S : v.pos = items_start
  /\ \A v \in S : v.next + ItemSize > end \/ \E u \in S : u.pos = v.next

\* The first item starts at an aligned position within the account.
LEMMA StartType == items_start \in Nat /\ items_start <= AccLen /\ Aligned(items_start)
BY AlignUp, LayoutAssumption DEF items_start

\* An unbroken chain of visits is what the walk finds, by induction on what is left of it.
LEMMA ChainIsWalk ==
  ASSUME NEW mem, Readable(mem), NEW end \in Nat, NEW S, Chain(mem, end, S)
  PROVE  walk(mem, end)[items_start] = S
<1> DEFINE W(p) == walk(mem, end)[p]
           From(p) == {v \in S : v.pos >= p}
           Starts == {items_start} \union {v.next : v \in S}
<1>0. ItemSize \in Nat /\ ItemSize > 0 BY LayoutAssumption
<1>1. \A v \in S : /\ v.pos \in Nat /\ v.pos >= items_start /\ v.pos + ItemSize <= end
                   /\ v = visit(mem, v.pos) /\ v.next \in Nat /\ v.next > v.pos
  BY <1>0, NextGrows DEF Chain
<1>2. Starts \subseteq Nat BY <1>1, StartType
<1>3. ASSUME NEW p \in Starts, p + ItemSize > end PROVE W(p) = From(p)
  <2>1. W(p) = {} BY <1>2, <1>3, WalkStep, Zenon
  <2>2. From(p) = {} BY <1>0, <1>1, <1>2, <1>3
  <2> QED BY <2>1, <2>2
<1>4. ASSUME NEW p \in Starts, ~(p + ItemSize > end),
             \A r \in Starts : r > p => W(r) = From(r)
      PROVE  W(p) = From(p)
  <2>1. PICK u \in S : u.pos = p BY <1>4 DEF Chain
  <2>2. u.next \in Starts /\ u.next > p /\ u = visit(mem, p) BY <1>1, <2>1
  <2>3. W(p) = {u} \union W(u.next)
    <3>1. p \in Nat BY <1>2
    <3>2. W(p) = IF p + ItemSize > end
                   THEN {} ELSE {visit(mem, p)} \union W(visit(mem, p).next)
      BY <3>1, WalkStep
    <3> HIDE DEF W, Starts, From
    <3> QED BY <1>4, <2>2, <3>2
  <2>4. W(u.next) = From(u.next) BY <1>4, <2>2
  <2>5. ASSUME NEW v \in S PROVE v.pos >= p <=> (v = u \/ v.pos >= u.next)
    <3>1. u = v \/ u.next <= v.pos \/ v.next <= u.pos BY DEF Chain
    <3> QED BY <1>1, <2>1, <2>2, <3>1
  <2>6. From(p) = {u} \union From(u.next) BY <2>1, <2>5
  <2> QED BY <2>3, <2>4, <2>6
<1>5. \A p \in Starts : W(p) = From(p)
  <2> HIDE DEF W, From, Starts
  <2> DEFINE T == {n \in Nat : \E p \in Starts : n = end - p /\ W(p) # From(p)}
  <2>1. SUFFICES ASSUME NEW p \in Starts, W(p) # From(p) PROVE FALSE OBVIOUS
  <2>2. end - p \in T BY <1>0, <1>2, <1>3, <2>1
  <2>3. PICK m \in T : \A k \in T : m <= k
    <3> HIDE DEF T
    <3>1. T \subseteq Nat BY DEF T
    <3> QED BY <2>2, <3>1, LeastElement, Zenon
  <2>4. PICK r \in Starts : m = end - r /\ W(r) # From(r) OBVIOUS
  <2>5. PICK s \in Starts : s > r /\ W(s) # From(s) BY <1>3, <1>4, <2>4
  <2>6. end - s \in T BY <1>0, <1>2, <1>3, <2>5
  <2>7. m <= end - s
    <3> HIDE DEF T
    <3> QED BY <2>3, <2>6
  <2> QED BY <1>2, <2>4, <2>5, <2>7
<1>6. From(items_start) = S BY <1>1
<1> QED BY <1>5, <1>6, Zenon

-----------------------------------------------------------------------------
\* Memory.

Item == [id : Ids, used : {0, 1}, disc_off : Nat, metas_off : Nat, args_off : Nat,
         disc_len : Nat, metas_len : Nat, args_len : Nat]

\* Extents that do not overlap, with items in those that are headers.
Sound(mem) ==
  /\ \A e \in mem : /\ e = [pos |-> e.pos, len |-> e.len, val |-> e.val]
                    /\ e.pos \in Nat /\ e.len \in Nat \ {0}
                    /\ e.val[1] = "header" => e.val[2] \in Item
  /\ \A e, f \in mem : e = f \/ Apart(e, f.pos, f.len)

\* The extent of a header.
HeaderOf(pos, item) == [pos |-> pos, len |-> ItemSize, val |-> Header(item)]

\* Reading sound memory at any position gives the fields of an item.
LEMMA SoundReadable ==
  ASSUME NEW mem, Sound(mem)
  PROVE  Readable(mem)
<1> SUFFICES ASSUME NEW pos \in Nat
             PROVE  read_item(mem, pos) \in
                      [id : Ids \union {None}, used : {0, 1}, disc_off : Nat, metas_off : Nat,
                       args_off : Nat, disc_len : Nat, metas_len : Nat, args_len : Nat]
  BY DEF Readable
<1> DEFINE there == {e \in mem : e.pos = pos /\ e.val[1] = "header"}
<1>1. CASE there = {} BY <1>1 DEF read_item, NoItem
<1>2. CASE there # {}
  <2> DEFINE c == CHOOSE e \in there : TRUE
  <2>1. c \in there BY <1>2
  <2>2. read_item(mem, pos) = c.val[2] BY <1>2 DEF read_item
  <2> HIDE DEF c
  <2>3. c.val[2] \in Item BY <2>1 DEF Sound
  <2> QED BY <2>2, <2>3 DEF Item
<1> QED BY <1>1, <1>2

\* A header is read back where it was written.
LEMMA ReadsHeader ==
  ASSUME NEW mem, Sound(mem), NEW pos, NEW item, HeaderOf(pos, item) \in mem
  PROVE  read_item(mem, pos) = item
<1> DEFINE there == {e \in mem : e.pos = pos /\ e.val[1] = "header"}
           h == HeaderOf(pos, item)
<1>1. h \in there /\ h.val[2] = item BY DEF HeaderOf, Header
<1>2. \A e \in there : e = h
  <2> SUFFICES ASSUME NEW e \in there PROVE e = h OBVIOUS
  <2>1. e \in mem /\ h \in mem /\ e.pos = h.pos BY <1>1
  <2> HIDE DEF h, there
  <2>2. e.pos \in Nat /\ e.len \in Nat \ {0} /\ h.len \in Nat \ {0} BY <2>1 DEF Sound
  <2>3. e = h \/ Apart(e, h.pos, h.len) BY <2>1 DEF Sound
  <2> QED BY <2>1, <2>2, <2>3 DEF Apart
<1> DEFINE c == CHOOSE e \in there : TRUE
<1>3. c \in there BY <1>1
<1>4. read_item(mem, pos) = c.val[2] BY <1>1 DEF read_item
<1> HIDE DEF c, there, h
<1> QED BY <1>1, <1>2, <1>3, <1>4

\* What a write leaves and adds.
LEMMA WriteEffect ==
  ASSUME NEW mem, Sound(mem), NEW pos \in Nat, NEW len \in Nat, NEW val,
         val[1] = "header" => val[2] \in Item
  PROVE  /\ Sound(Write(mem, pos, len, val))
         /\ \A e \in mem : Apart(e, pos, len) => e \in Write(mem, pos, len, val)
         /\ \A e \in Write(mem, pos, len, val) :
              e \in mem \/ (len # 0 /\ e = [pos |-> pos, len |-> len, val |-> val])
         /\ len # 0 => [pos |-> pos, len |-> len, val |-> val] \in Write(mem, pos, len, val)
<1> DEFINE x == [pos |-> pos, len |-> len, val |-> val]
           m == Write(mem, pos, len, val)
<1>1. CASE len = 0 BY <1>1 DEF Write
<1>2. CASE len # 0
  <2>1. m = Erase(mem, pos, len) \union {x} BY <1>2 DEF Write
  <2>2. x.pos = pos /\ x.len = len /\ x.val = val OBVIOUS
  <2>3. x = [pos |-> x.pos, len |-> x.len, val |-> x.val] OBVIOUS
  <2> HIDE DEF x
  <2>4. \A e \in m : e = x \/ (e \in mem /\ Apart(e, pos, len)) BY <2>1 DEF Erase
  <2>5. \A e \in m : /\ e = [pos |-> e.pos, len |-> e.len, val |-> e.val]
                     /\ e.pos \in Nat /\ e.len \in Nat \ {0}
                     /\ e.val[1] = "header" => e.val[2] \in Item
    BY <1>2, <2>2, <2>3, <2>4 DEF Sound
  <2>6. ASSUME NEW e \in m, NEW f \in m PROVE e = f \/ Apart(e, f.pos, f.len)
    <3>1. CASE e = x /\ f # x
      <4>1. f \in mem /\ Apart(f, pos, len) BY <2>4, <3>1
      <4> QED BY <2>2, <2>5, <3>1, <4>1 DEF Apart
    <3>2. CASE e # x /\ f = x BY <2>2, <2>4, <3>2
    <3>3. CASE e # x /\ f # x BY <2>4, <3>3 DEF Sound
    <3> QED BY <3>1, <3>2, <3>3
  <2>7. Sound(m) BY <2>5, <2>6 DEF Sound
  <2>8. \A e \in mem : Apart(e, pos, len) => e \in m BY <2>1 DEF Erase
  <2> HIDE DEF m
  <2>9. x \in m BY <2>1
  <2> QED BY <1>2, <2>4, <2>7, <2>8, <2>9 DEF x, m
<1> QED BY <1>1, <1>2

\* The item write_item_at puts in place.
NewItem(pos, id, shape) ==
  [id |-> id, used |-> 1, disc_off |-> pos + ItemSize,
   metas_off |-> pos + ItemSize + shape.disc, args_off |-> args_offset(pos, shape),
   disc_len |-> shape.disc, metas_len |-> shape.metas, args_len |-> shape.args]

\* The three parts of an item's payload are where its offsets say.
Intact(mem, item) ==
  /\ \/ item.disc_len = 0
     \/ [pos |-> item.disc_off, len |-> item.disc_len, val |-> <<"disc", item.id>>] \in mem
  /\ \/ item.metas_len * MetaSize = 0
     \/ [pos |-> item.metas_off, len |-> item.metas_len * MetaSize,
         val |-> <<"metas", item.id>>] \in mem
  /\ \/ item.args_len = 0
     \/ [pos |-> item.args_off, len |-> item.args_len, val |-> <<"args", item.id>>] \in mem

\* The lengths of a request are numbers.
LEMMA ShapeTypes ==
  ASSUME NEW shape \in Shapes
  PROVE  /\ shape.disc \in Nat /\ shape.metas \in Nat /\ shape.args \in Nat
         /\ shape = [disc |-> shape.disc, metas |-> shape.metas, args |-> shape.args]
         /\ shape.metas * MetaSize \in Nat
         /\ total_needed(shape) \in Nat /\ total_needed(shape) >= ItemSize
<1>1. shape \in [disc : Nat, metas : Nat, args : Nat] BY LayoutAssumption
<1>2. ItemSize \in Nat /\ MetaSize \in Nat BY LayoutAssumption
<1>3. shape.metas * MetaSize \in Nat BY <1>1, <1>2
<1> QED BY <1>1, <1>2, <1>3 DEF total_needed

\* write_item_at stores the item and its payload, in their own bytes only.
LEMMA WriteItem ==
  ASSUME NEW mem, Sound(mem), NEW pos \in Nat, NEW id \in Ids, NEW shape \in Shapes
  PROVE  LET m == write_item_at(mem, pos, id, shape)
             item == NewItem(pos, id, shape)
         IN  /\ item \in Item
             /\ Sound(m)
             /\ \A e \in mem : Apart(e, pos, total_needed(shape)) => e \in m
             /\ \A e \in m : \/ e \in mem
                             \/ e.pos >= pos /\ e.pos + e.len <= pos + total_needed(shape)
             /\ HeaderOf(pos, item) \in m
             /\ Intact(m, item)
<1> DEFINE d == shape.disc
           b == shape.metas * MetaSize
           a == shape.args
           p1 == pos + ItemSize
           p2 == p1 + d
           p3 == args_offset(pos, shape)
           item == NewItem(pos, id, shape)
           x1 == [pos |-> p1, len |-> d, val |-> <<"disc", id>>]
           x2 == [pos |-> p2, len |-> b, val |-> <<"metas", id>>]
           x3 == [pos |-> p3, len |-> a, val |-> <<"args", id>>]
           m1 == Write(mem, p1, d, <<"disc", id>>)
           m2 == Write(m1, p2, b, <<"metas", id>>)
           m3 == Write(m2, p3, a, <<"args", id>>)
           m4 == Write(m3, pos, ItemSize, Header(item))
           t == total_needed(shape)
<1>1. ItemSize \in Nat /\ ItemSize # 0 BY LayoutAssumption
<1>2. d \in Nat /\ b \in Nat /\ a \in Nat BY ShapeTypes
<1>3. p3 = p2 + b BY DEF args_offset
<1>4. t = ItemSize + d + b + a BY DEF total_needed
<1>5. item \in Item BY <1>1, <1>2, <1>3, ShapeTypes DEF NewItem, Item
<1>6. write_item_at(mem, pos, id, shape) = m4 BY DEF write_item_at, NewItem
<1>7. Intact(m4, item) <=> /\ d = 0 \/ x1 \in m4
                           /\ b = 0 \/ x2 \in m4
                           /\ a = 0 \/ x3 \in m4
  BY DEF Intact, NewItem
<1>8. HeaderOf(pos, item) = [pos |-> pos, len |-> ItemSize, val |-> Header(item)]
  BY DEF HeaderOf
<1>9. Header(item)[1] = "header" => Header(item)[2] \in Item BY <1>5 DEF Header
<1>10. p1 = pos + ItemSize /\ p2 = p1 + d /\ p1 \in Nat /\ p2 \in Nat /\ p3 \in Nat
  BY <1>1, <1>2, <1>3
<1>11. /\ x1.pos = p1 /\ x1.len = d /\ x2.pos = p2 /\ x2.len = b /\ x3.pos = p3 /\ x3.len = a
  OBVIOUS
<1>12. /\ <<"disc", id>>[1] = "header" => <<"disc", id>>[2] \in Item
       /\ <<"metas", id>>[1] = "header" => <<"metas", id>>[2] \in Item
       /\ <<"args", id>>[1] = "header" => <<"args", id>>[2] \in Item
  OBVIOUS
<1>13. HeaderOf(pos, item).pos = pos /\ HeaderOf(pos, item).len = ItemSize BY DEF HeaderOf
<1> HIDE DEF d, b, a, p1, p2, p3, item, t
<1>14. /\ Sound(m1) /\ \A e \in mem : Apart(e, p1, d) => e \in m1
       /\ \A e \in m1 : e \in mem \/ (d # 0 /\ e = x1)
       /\ d # 0 => x1 \in m1
  BY <1>2, <1>10, <1>12, WriteEffect
<1> HIDE DEF m1
<1>15. /\ Sound(m2) /\ \A e \in m1 : Apart(e, p2, b) => e \in m2
       /\ \A e \in m2 : e \in m1 \/ (b # 0 /\ e = x2)
       /\ b # 0 => x2 \in m2
  <2>1. Sound(m1) BY <1>14
  <2> DEFINE val == <<"metas", id>>
  <2>2. val[1] = "header" => val[2] \in Item OBVIOUS
  <2> HIDE DEF val
  <2>3. /\ Sound(Write(m1, p2, b, val))
        /\ \A e \in m1 : Apart(e, p2, b) => e \in Write(m1, p2, b, val)
        /\ \A e \in Write(m1, p2, b, val) :
             e \in m1 \/ (b # 0 /\ e = [pos |-> p2, len |-> b, val |-> val])
        /\ b # 0 => [pos |-> p2, len |-> b, val |-> val] \in Write(m1, p2, b, val)
    BY <1>2, <1>10, <2>1, <2>2, WriteEffect
  <2> QED BY <2>3 DEF val
<1> HIDE DEF m2
<1>16. /\ Sound(m3) /\ \A e \in m2 : Apart(e, p3, a) => e \in m3
       /\ \A e \in m3 : e \in m2 \/ (a # 0 /\ e = x3)
       /\ a # 0 => x3 \in m3
  <2>1. Sound(m2) BY <1>15
  <2> DEFINE val == <<"args", id>>
  <2>2. val[1] = "header" => val[2] \in Item OBVIOUS
  <2> HIDE DEF val
  <2>3. /\ Sound(Write(m2, p3, a, val))
        /\ \A e \in m2 : Apart(e, p3, a) => e \in Write(m2, p3, a, val)
        /\ \A e \in Write(m2, p3, a, val) :
             e \in m2 \/ (a # 0 /\ e = [pos |-> p3, len |-> a, val |-> val])
        /\ a # 0 => [pos |-> p3, len |-> a, val |-> val] \in Write(m2, p3, a, val)
    BY <1>2, <1>10, <2>1, <2>2, WriteEffect
  <2> QED BY <2>3 DEF val
<1> HIDE DEF m3
<1>17. /\ Sound(m4) /\ \A e \in m3 : Apart(e, pos, ItemSize) => e \in m4
       /\ \A e \in m4 : e \in m3 \/ e = HeaderOf(pos, item)
       /\ HeaderOf(pos, item) \in m4
  <2>1. Sound(m3) BY <1>16
  <2>2. LET x == [pos |-> pos, len |-> ItemSize, val |-> Header(item)]
        IN  /\ Sound(m4) /\ \A e \in m3 : Apart(e, pos, ItemSize) => e \in m4
            /\ \A e \in m4 : e \in m3 \/ e = x
            /\ x \in m4
    BY <1>1, <1>9, <1>10, <2>1, WriteEffect
  <2> HIDE DEF m4
  <2> QED BY <1>8, <2>2
<1> HIDE DEF m4, x1, x2, x3
<1>18. /\ Apart(x1, p2, b) /\ Apart(x1, p3, a) /\ Apart(x1, pos, ItemSize)
       /\ Apart(x2, p3, a) /\ Apart(x2, pos, ItemSize) /\ Apart(x3, pos, ItemSize)
  BY <1>1, <1>2, <1>3, <1>10, <1>11 DEF Apart
<1>19. Intact(m4, item) BY <1>7, <1>14, <1>15, <1>16, <1>17, <1>18
<1>20. ASSUME NEW e \in mem, Apart(e, pos, t) PROVE e \in m4
  <2>1. e.pos \in Nat /\ e.len \in Nat BY DEF Sound
  <2>2. /\ Apart(e, p1, d) /\ Apart(e, p2, b) /\ Apart(e, p3, a) /\ Apart(e, pos, ItemSize)
    BY <1>1, <1>2, <1>3, <1>4, <1>10, <1>20, <2>1 DEF Apart
  <2> QED BY <1>14, <1>15, <1>16, <1>17, <2>2
<1>21. ASSUME NEW e \in m4 PROVE e \in mem \/ (e.pos >= pos /\ e.pos + e.len <= pos + t)
  <2>1. e \in mem \/ e = x1 \/ e = x2 \/ e = x3 \/ e = HeaderOf(pos, item)
    BY <1>14, <1>15, <1>16, <1>17
  <2> QED BY <1>1, <1>2, <1>3, <1>4, <1>10, <1>11, <1>13, <2>1
<1> QED BY <1>5, <1>6, <1>17, <1>19, <1>20, <1>21 DEF item, t

\* clear_used replaces the headers of its items and touches nothing else.
LEMMA ClearUsed ==
  ASSUME NEW mem, Sound(mem), NEW V,
         \A v \in V : v.pos \in Nat /\ v.item \in Item /\ HeaderOf(v.pos, v.item) \in mem,
         \A u, v \in V : u = v \/ u.pos # v.pos
  PROVE  LET m == clear_used(mem, V)
         IN  /\ Sound(m)
             /\ m = (mem \ {HeaderOf(v.pos, v.item) : v \in V})
                      \union {HeaderOf(v.pos, [v.item EXCEPT !.used = 0]) : v \in V}
<1> DEFINE m == clear_used(mem, V)
           old(v) == HeaderOf(v.pos, v.item)
           new(v) == HeaderOf(v.pos, [v.item EXCEPT !.used = 0])
           kept == {e \in mem : \A v \in V : Apart(e, v.pos, ItemSize)}
<1>1. ItemSize \in Nat \ {0} BY LayoutAssumption
<1>2. m = kept \union {new(v) : v \in V} BY DEF clear_used, HeaderOf
<1>3. \A v \in V : old(v).pos = v.pos /\ old(v).len = ItemSize /\ new(v).pos = v.pos
                   /\ new(v).len = ItemSize /\ new(v).val[2] \in Item
                   /\ new(v) = [pos |-> new(v).pos, len |-> new(v).len, val |-> new(v).val]
  BY Zenon DEF HeaderOf, Header, Item
<1>4. ASSUME NEW e \in mem PROVE e \in kept <=> \A v \in V : e # old(v)
  <2>1. e.pos \in Nat /\ e.len \in Nat \ {0} BY DEF Sound
  <2>2. ASSUME NEW v \in V PROVE Apart(e, v.pos, ItemSize) <=> e # old(v)
    <3>1. old(v) \in mem BY <2>2
    <3>2. e = old(v) \/ Apart(e, old(v).pos, old(v).len)
      <4> HIDE DEF old
      <4> QED BY <3>1 DEF Sound
    <3>3. e = old(v) => ~Apart(e, v.pos, ItemSize)
      <4> HIDE DEF old, new
      <4> QED BY <1>1, <1>3, <2>1 DEF Apart
    <3> HIDE DEF old, new
    <3> QED BY <1>3, <3>2, <3>3
  <2> QED BY <2>2
<1>5. m = (mem \ {old(v) : v \in V}) \union {new(v) : v \in V}
  <2> HIDE DEF m, old, new
  <2> QED BY <1>2, <1>4
<1>6. \A e \in m : e \in mem \/ \E v \in V : e = new(v) BY <1>2, Zenon
<1>7. ASSUME NEW e \in m
      PROVE  /\ e = [pos |-> e.pos, len |-> e.len, val |-> e.val]
             /\ e.pos \in Nat /\ e.len \in Nat \ {0}
             /\ e.val[1] = "header" => e.val[2] \in Item
  <2> HIDE DEF m, old, new
  <2>1. CASE e \in mem BY <2>1 DEF Sound
  <2>2. CASE \E v \in V : e = new(v) BY <1>1, <1>3, <2>2
  <2> QED BY <1>6, <2>1, <2>2
<1>8. ASSUME NEW e \in m, NEW f \in m PROVE e = f \/ Apart(e, f.pos, f.len)
  <2>1. ASSUME NEW v \in V, NEW g \in kept PROVE Apart(g, v.pos, ItemSize) OBVIOUS
  <2>2. ASSUME NEW u \in V, NEW v \in V PROVE u = v \/ Apart(new(u), v.pos, ItemSize)
    <3>1. u.pos \in Nat /\ v.pos \in Nat /\ old(u) \in mem /\ old(v) \in mem BY <2>2
    <3> HIDE DEF old, new, m
    <3>2. old(u) = old(v) \/ Apart(old(u), old(v).pos, old(v).len) BY <3>1 DEF Sound
    <3>3. u = v \/ old(u) # old(v) BY <1>3
    <3> QED BY <1>3, <3>2, <3>3 DEF Apart
  <2>3. (e \in kept \/ \E v \in V : e = new(v)) /\ (f \in kept \/ \E v \in V : f = new(v))
    BY <1>2, Zenon
  <2>4. kept \subseteq mem OBVIOUS
  <2> HIDE DEF m, old, new, kept
  <2>5. CASE e \in kept /\ f \in kept BY <2>4, <2>5 DEF Sound
  <2>6. CASE e \in kept /\ \E v \in V : f = new(v) BY <1>3, <2>1, <2>6
  <2>7. CASE f \in kept /\ \E v \in V : e = new(v)
    <3>1. PICK v \in V : e = new(v) BY <2>7
    <3>2. Apart(f, v.pos, ItemSize) BY <2>1, <2>7
    <3>3. e.pos = v.pos /\ e.len = ItemSize /\ v.pos \in Nat /\ f.pos \in Nat /\ f.len \in Nat
      BY <1>3, <1>7, <3>1
    <3> QED BY <1>1, <3>2, <3>3 DEF Apart
  <2>8. CASE (\E v \in V : e = new(v)) /\ (\E v \in V : f = new(v))
    <3>1. PICK u \in V : e = new(u) BY <2>8
    <3>2. PICK v \in V : f = new(v) BY <2>8
    <3> QED BY <1>3, <2>2, <3>1, <3>2
  <2> QED BY <2>3, <2>5, <2>6, <2>7, <2>8
<1>9. Sound(m) BY <1>7, <1>8 DEF Sound
<1> QED BY <1>5, <1>9

-----------------------------------------------------------------------------
\* The layout of a queue.

ItemShape(item) ==
  [disc |-> item.disc_len, metas |-> item.metas_len, args |-> item.args_len]

\* Where the payload of an item ends.
ItemEnd(v) == v.pos + total_needed(ItemShape(v.item))

\* A visit of an item that write_item_at has put in place, whatever became of it since.
Placed(v) ==
  /\ v = [pos |-> v.pos, next |-> v.next, item |-> v.item]
  /\ v.pos \in Nat /\ v.pos >= items_start /\ Aligned(v.pos)
  /\ v.item \in Item /\ ItemShape(v.item) \in Shapes
  /\ v.next = align_up(ItemEnd(v))
  /\ v.item.disc_off = v.pos + ItemSize
  /\ v.item.metas_off = v.item.disc_off + v.item.disc_len
  /\ v.item.args_off = v.item.metas_off + (v.item.metas_len * MetaSize)

\* Its bytes are in memory, below the cursor; its payload as long as it is used.
Stored(qa, v) ==
  /\ HeaderOf(v.pos, v.item) \in qa.mem
  /\ ItemEnd(v) <= qa.cursor
  /\ IsUsed(v) => Intact(qa.mem, v.item)

\* The visits S follow each other from items_start up to the cursor.
Layout(qa, S) ==
  /\ Sound(qa.mem)
  /\ \A e \in qa.mem : e.pos >= items_start /\ e.pos + e.len <= AccLen
  /\ qa.cursor \in items_start .. AccLen
  /\ IsFiniteSet(S)
  /\ \A v \in S : Placed(v) /\ Stored(qa, v)
  /\ \A u, v \in S : u = v \/ u.next <= v.pos \/ v.next <= u.pos
  /\ IF S = {} THEN qa.cursor = items_start ELSE \E v \in S : v.pos = items_start
  /\ \A v \in S : v.next >= qa.cursor \/ \E u \in S : u.pos = v.next

Used(S) == {v \in S : IsUsed(v)}

\* No two used items have the same id.
Distinct(S) == \A u, v \in Used(S) : u.item.id = v.item.id => u = v

\* The last item is used.
Trimmed(qa, S) == \A v \in S : v.next >= qa.cursor => IsUsed(v)

\* Where an item that is in place ends, and where the next one starts.
LEMMA PlacedFacts ==
  ASSUME NEW v, Placed(v)
  PROVE  /\ v.pos \in Nat /\ v.next \in Nat /\ ItemEnd(v) \in Nat
         /\ v.pos + ItemSize <= ItemEnd(v) /\ ItemEnd(v) <= v.next
         /\ v.next < ItemEnd(v) + Align
         /\ v.pos < v.next /\ Aligned(v.next)
         /\ v.next = item_next(v.pos, v.item)
<1> DEFINE t == total_needed(ItemShape(v.item))
<1>1. ItemSize \in Nat /\ ItemSize > 0 BY LayoutAssumption
<1>2. v.pos \in Nat /\ ItemShape(v.item) \in Shapes /\ v.next = align_up(ItemEnd(v)) BY DEF Placed
<1>3. t \in Nat /\ t >= ItemSize BY <1>2, ShapeTypes
<1>4. ItemEnd(v) = v.pos + t BY DEF ItemEnd
<1>5. item_next(v.pos, v.item) = align_up(v.pos + t)
  <2>1. t = ItemSize + v.item.disc_len + (v.item.metas_len * MetaSize) + v.item.args_len
    BY DEF total_needed, ItemShape
  <2>2. /\ v.item.disc_len \in Nat /\ v.item.args_len \in Nat
        /\ v.item.metas_len * MetaSize \in Nat
    <3>1. v.item \in Item /\ MetaSize \in Nat BY LayoutAssumption DEF Placed
    <3>2. v.item.metas_len \in Nat /\ v.item.disc_len \in Nat /\ v.item.args_len \in Nat
      BY <3>1 DEF Item
    <3> QED BY <3>1, <3>2
  <2>3. v.pos + t = v.pos + ItemSize + v.item.disc_len + (v.item.metas_len * MetaSize)
                     + v.item.args_len
    BY <1>1, <1>2, <2>1, <2>2
  <2> QED BY <2>3 DEF item_next
<1> HIDE DEF t
<1>6. v.pos + t \in Nat BY <1>2, <1>3
<1> QED BY <1>1, <1>2, <1>3, <1>4, <1>5, <1>6, AlignUp

\* scan_items visits exactly the items of the layout.
LEMMA LayoutIsScan ==
  ASSUME NEW qa, NEW S, Layout(qa, S)
  PROVE  scan_items(qa) = S /\ used_items(qa) = Used(S)
<1>1. ItemSize \in Nat /\ ItemSize > 0 /\ AccLen \in Nat BY LayoutAssumption
<1>2. qa.cursor \in Nat /\ qa.cursor <= AccLen BY <1>1, StartType, SMTT(30) DEF Layout
<1>3. Readable(qa.mem) BY SoundReadable DEF Layout
<1>4. ASSUME NEW v \in S
      PROVE  /\ v.pos \in Nat /\ v.pos >= items_start /\ v.pos + ItemSize <= qa.cursor
             /\ v = visit(qa.mem, v.pos) /\ v.next \in Nat
  <2>1. Placed(v) /\ Stored(qa, v) BY DEF Layout
  <2>2. /\ v.pos \in Nat /\ v.next \in Nat /\ ItemEnd(v) \in Nat
        /\ v.pos + ItemSize <= ItemEnd(v) /\ v.next = item_next(v.pos, v.item)
    BY <2>1, PlacedFacts
  <2>3. read_item(qa.mem, v.pos) = v.item BY <2>1, ReadsHeader DEF Layout, Stored
  <2>4. v = visit(qa.mem, v.pos) BY <2>1, <2>2, <2>3 DEF Placed, visit
  <2> QED BY <1>1, <1>2, <2>1, <2>2, <2>4 DEF Placed, Stored
<1>5. Chain(qa.mem, qa.cursor, S)
  <2>1. items_start + ItemSize > qa.cursor \/ \E v \in S : v.pos = items_start
    BY <1>1, StartType DEF Layout
  <2>2. \A v \in S : v.next + ItemSize > qa.cursor \/ \E u \in S : u.pos = v.next
    BY <1>1, <1>2, <1>4 DEF Layout
  <2>3. \A u, v \in S : u = v \/ u.next <= v.pos \/ v.next <= u.pos BY DEF Layout
  <2> QED BY <1>4, <2>1, <2>2, <2>3 DEF Chain
<1>6. walk(qa.mem, qa.cursor)[items_start] = S BY <1>2, <1>3, <1>5, ChainIsWalk
<1>7. (IF AccLen < qa.cursor THEN AccLen ELSE qa.cursor) = qa.cursor BY <1>1, <1>2
<1> QED BY <1>6, <1>7 DEF scan_items, used_items, Used

\* end_of finds the last visit.
LEMMA EndOf ==
  ASSUME NEW S, S # {}, \A v \in S : v.pos \in Nat /\ v.pos <= AccLen
  PROVE  \E v \in S : (\A u \in S : u.pos <= v.pos) /\ end_of(S) = v.next
<1> DEFINE T == {AccLen - v.pos : v \in S}
           last == CHOOSE v \in S : \A u \in S : u.pos <= v.pos
<1>1. AccLen \in Nat BY LayoutAssumption
<1>2. T \subseteq Nat /\ T # {} BY <1>1
<1>3. PICK m \in T : \A k \in T : m <= k
  <2> HIDE DEF T
  <2> QED BY <1>2, LeastElement, Zenon
<1>4. PICK v \in S : m = AccLen - v.pos OBVIOUS
<1>5. ASSUME NEW u \in S PROVE u.pos <= v.pos
  <2>1. AccLen - u.pos \in T OBVIOUS
  <2>2. m <= AccLen - u.pos
    <3> HIDE DEF T
    <3> QED BY <1>3, <2>1
  <2> QED BY <1>1, <1>4, <2>2
<1>6. last \in S /\ \A u \in S : u.pos <= last.pos BY <1>5
<1>7. end_of(S) = last.next BY DEF end_of
<1> HIDE DEF last
<1> QED BY <1>6, <1>7

\* The facts about two items of one layout that every argument below uses.
LEMMA LayoutFacts ==
  ASSUME NEW qa, NEW S, Layout(qa, S), NEW v \in S
  PROVE  /\ Placed(v) /\ Stored(qa, v)
         /\ v.pos \in Nat /\ v.next \in Nat /\ ItemEnd(v) \in Nat /\ v.pos >= items_start
         /\ v.pos + ItemSize <= ItemEnd(v) /\ ItemEnd(v) <= v.next
         /\ ItemEnd(v) <= qa.cursor /\ v.next < ItemEnd(v) + Align /\ Aligned(v.next)
         /\ v.pos < v.next /\ v.pos < qa.cursor /\ v.pos <= AccLen
         /\ qa.cursor \in Nat /\ qa.cursor <= AccLen
         /\ \A u \in S : u = v \/ u.next <= v.pos \/ v.next <= u.pos
         /\ v.next >= qa.cursor \/ \E u \in S : u.pos = v.next
<1>1. ItemSize \in Nat /\ ItemSize > 0 /\ AccLen \in Nat BY LayoutAssumption
<1>2. qa.cursor \in Nat /\ qa.cursor <= AccLen BY <1>1, StartType, SMTT(30) DEF Layout
<1>3. Placed(v) /\ Stored(qa, v) BY DEF Layout
<1>4. ItemEnd(v) <= qa.cursor /\ v.pos >= items_start BY <1>3 DEF Stored, Placed
<1>5. /\ v.pos \in Nat /\ v.next \in Nat /\ ItemEnd(v) \in Nat
      /\ v.pos + ItemSize <= ItemEnd(v) /\ ItemEnd(v) <= v.next
      /\ v.pos < v.next /\ v.next < ItemEnd(v) + Align /\ Aligned(v.next)
  BY <1>3, PlacedFacts
<1>6. v.pos < qa.cursor /\ v.pos <= AccLen BY <1>1, <1>2, <1>4, <1>5
<1>7. /\ \A u \in S : u = v \/ u.next <= v.pos \/ v.next <= u.pos
      /\ v.next >= qa.cursor \/ \E u \in S : u.pos = v.next
  BY DEF Layout
<1> QED BY <1>2, <1>3, <1>4, <1>5, <1>6, <1>7

\* The walk ends at the cursor, rounded up.
LEMMA EndOfLayout ==
  ASSUME NEW qa, NEW S, Layout(qa, S)
  PROVE  /\ end_of(S) = align_up(qa.cursor)
         /\ S # {} => \E v \in S : /\ end_of(S) = v.next /\ v.next >= qa.cursor
                                   /\ \A u \in S : u = v \/ u.next <= v.pos
<1>1. CASE S = {}
  <2>1. qa.cursor = items_start BY <1>1 DEF Layout
  <2>2. align_up(items_start) = items_start BY StartType, AlignFixed
  <2> QED BY <1>1, <2>1, <2>2 DEF end_of
<1>2. CASE S # {}
  <2>1. \A v \in S : v.pos \in Nat /\ v.pos <= AccLen BY LayoutFacts
  <2>2. PICK v \in S : (\A u \in S : u.pos <= v.pos) /\ end_of(S) = v.next
    BY <1>2, <2>1, EndOf
  <2>3. /\ v.pos \in Nat /\ v.next \in Nat /\ v.pos < v.next /\ ItemEnd(v) \in Nat
        /\ ItemEnd(v) <= qa.cursor /\ v.next < ItemEnd(v) + Align /\ Aligned(v.next)
        /\ qa.cursor \in Nat
        /\ \A u \in S : u = v \/ u.next <= v.pos \/ v.next <= u.pos
        /\ v.next >= qa.cursor \/ \E u \in S : u.pos = v.next
    BY LayoutFacts
  <2>4. v.next >= qa.cursor BY <2>2, <2>3
  <2>5. v.next < qa.cursor + Align
    <3>1. Align \in Nat BY LayoutAssumption
    <3> QED BY <2>3, <3>1
  <2>6. /\ align_up(qa.cursor) \in Nat /\ qa.cursor <= align_up(qa.cursor)
        /\ align_up(qa.cursor) < qa.cursor + Align /\ Aligned(align_up(qa.cursor))
    BY <2>3, AlignUp
  <2>7. v.next = align_up(qa.cursor) BY <2>3, <2>4, <2>5, <2>6, AlignedUnique
  <2>8. \A u \in S : u = v \/ u.next <= v.pos BY <2>1, <2>2, <2>3
  <2> QED BY <2>2, <2>4, <2>7, <2>8
<1> QED BY <1>1, <1>2

-----------------------------------------------------------------------------
\* Trimming.

\* A queue whose last item is used has nothing to trim.
LEMMA NothingToTrim ==
  ASSUME NEW qa, NEW S, Layout(qa, S), Trimmed(qa, S)
  PROVE  end_of(Used(S)) = end_of(S) /\ trim_trailing_holes(qa) = qa
<1>1. used_items(qa) = Used(S) BY LayoutIsScan
<1>2. CASE S = {}
  <2>1. Used(S) = {} BY <1>2 DEF Used
  <2>2. end_of(Used(S)) = items_start /\ qa.cursor = items_start
    BY <1>2, <2>1 DEF Layout, end_of
  <2> QED BY <1>1, <1>2, <2>1, <2>2, StartType
          DEF trim_trailing_holes, shrink_cursor, last_used_end_aligned
<1>3. CASE S # {}
  <2>1. PICK v \in S : /\ end_of(S) = v.next /\ v.next >= qa.cursor
                       /\ \A u \in S : u = v \/ u.next <= v.pos
    BY <1>3, EndOfLayout
  <2>2. v \in Used(S) BY <2>1 DEF Trimmed, Used
  <2>3. \A u \in Used(S) : u \in S /\ u.pos \in Nat /\ u.pos <= AccLen /\ u.pos < u.next
                           /\ u.next \in Nat
    BY LayoutFacts DEF Used
  <2>4. PICK w \in Used(S) : (\A u \in Used(S) : u.pos <= w.pos) /\ end_of(Used(S)) = w.next
    BY <2>2, <2>3, EndOf
  <2>5. w = v BY <2>1, <2>2, <2>3, <2>4
  <2>6. v.next \in Nat /\ qa.cursor \in Nat BY LayoutFacts
  <2> QED BY <1>1, <2>1, <2>4, <2>5, <2>6
          DEF trim_trailing_holes, shrink_cursor, last_used_end_aligned
<1> QED BY <1>2, <1>3

\* The payload of an item lies between its header and its end.
LEMMA PayloadInside ==
  ASSUME NEW v, Placed(v), NEW m1, NEW m2, Intact(m1, v.item),
         \A e \in m1 : v.pos + ItemSize <= e.pos /\ e.pos + e.len <= ItemEnd(v) => e \in m2
  PROVE  Intact(m2, v.item)
<1> DEFINE d == v.item.disc_len
           b == v.item.metas_len * MetaSize
           a == v.item.args_len
<1>1. ItemSize \in Nat /\ MetaSize \in Nat BY LayoutAssumption
<1>2. d \in Nat /\ a \in Nat /\ v.item.metas_len \in Nat /\ v.pos \in Nat BY DEF Placed, Item
<1>3. b \in Nat BY <1>1, <1>2, SMTT(30)
<1>4. ItemEnd(v) = v.pos + (ItemSize + d + b + a) BY DEF ItemEnd, total_needed, ItemShape
<1>5. /\ v.item.disc_off = v.pos + ItemSize /\ v.item.metas_off = v.item.disc_off + d
      /\ v.item.args_off = v.item.metas_off + b
  BY DEF Placed
<1> HIDE DEF d, b, a
<1>6. \A len, off, val : [pos |-> off, len |-> len, val |-> val].pos = off
                         /\ [pos |-> off, len |-> len, val |-> val].len = len
  OBVIOUS
<1>7. /\ v.pos + ItemSize <= v.item.disc_off /\ v.item.disc_off + d <= ItemEnd(v)
      /\ v.pos + ItemSize <= v.item.metas_off /\ v.item.metas_off + b <= ItemEnd(v)
      /\ v.pos + ItemSize <= v.item.args_off /\ v.item.args_off + a <= ItemEnd(v)
  BY <1>1, <1>2, <1>3, <1>4, <1>5
<1>8. \A off, len, val : [pos |-> off, len |-> len, val |-> val] \in m1
         /\ v.pos + ItemSize <= off /\ off + len <= ItemEnd(v)
         => [pos |-> off, len |-> len, val |-> val] \in m2
  BY <1>6
<1> QED BY <1>7, <1>8 DEF Intact, d, b, a

\* Shrinking the cursor to the end of the last used item leaves a trimmed layout with the
\* same used items.
LEMMA Shrink ==
  ASSUME NEW qa, NEW S, Layout(qa, S),
         qa = [item_count |-> qa.item_count, cursor |-> qa.cursor, mem |-> qa.mem]
  PROVE  LET end == end_of(Used(S))
             qs == shrink_cursor(qa, end)
             S2 == {v \in S : v.pos < end}
         IN  /\ Layout(qs, S2) /\ Trimmed(qs, S2) /\ Used(S2) = Used(S)
             /\ qs = [item_count |-> qa.item_count, cursor |-> qs.cursor, mem |-> qs.mem]
<1> DEFINE end == end_of(Used(S))
           qs == shrink_cursor(qa, end)
           S2 == {v \in S : v.pos < end}
<1>0. items_start \in Nat /\ qa.cursor \in Nat /\ qa.cursor >= items_start /\ AccLen \in Nat
  BY StartType, LayoutAssumption DEF Layout
<1>1. \A v \in S : /\ Placed(v) /\ Stored(qa, v) /\ v.pos \in Nat /\ v.next \in Nat
                   /\ ItemEnd(v) \in Nat /\ v.pos >= items_start /\ ItemEnd(v) <= v.next
                   /\ ItemEnd(v) <= qa.cursor /\ v.pos < v.next /\ v.pos < qa.cursor
                   /\ v.pos <= AccLen
                   /\ \A u \in S : u = v \/ u.next <= v.pos \/ v.next <= u.pos
                   /\ v.next >= qa.cursor \/ \E u \in S : u.pos = v.next
  BY LayoutFacts
<1>2. IsFiniteSet(S2) BY FS_Subset DEF Layout
<1>3. Used(S2) = Used(S) /\ (Used(S) = {} => end = items_start)
      /\ (Used(S) # {} => \E w \in Used(S) : end = w.next /\ \A u \in Used(S) : u.pos <= w.pos)
  <2>1. CASE Used(S) = {}
    <3>1. end = items_start BY <2>1 DEF end_of
    <3> QED BY <2>1, <3>1 DEF Used
  <2>2. CASE Used(S) # {}
    <3>1. \A u \in Used(S) : u \in S /\ u.pos \in Nat /\ u.pos <= AccLen BY <1>1 DEF Used
    <3>2. PICK w \in Used(S) : (\A u \in Used(S) : u.pos <= w.pos) /\ end = w.next
      BY <2>2, <3>1, EndOf
    <3>3. w.pos < end /\ w.pos \in Nat /\ end \in Nat BY <1>1, <3>1, <3>2
    <3> HIDE DEF end
    <3>4. \A u \in Used(S) : u.pos < end BY <3>1, <3>2, <3>3
    <3>5. Used(S2) = Used(S) BY <3>4 DEF Used
    <3> QED BY <2>2, <3>2, <3>5
  <2> QED BY <2>1, <2>2
<1>4. CASE ~(end < qa.cursor)
  <2>1. qs = qa BY <1>4 DEF shrink_cursor
  <2>2. end \in Nat
    <3> HIDE DEF end
    <3> QED BY <1>0, <1>1, <1>3 DEF Used
  <2> HIDE DEF end, qs
  <2>3. S2 = S BY <1>0, <1>1, <1>4, <2>2
  <2>4. ASSUME NEW v \in S, v.next >= qa.cursor PROVE IsUsed(v)
    <3>1. Used(S) # {} BY <1>0, <1>1, <1>3, <1>4
    <3>2. PICK w \in Used(S) : end = w.next BY <1>3, <3>1
    <3>3. w \in S /\ IsUsed(w) BY DEF Used
    <3>4. w = v \/ w.next <= v.pos \/ v.next <= w.pos BY <1>1, <3>3
    <3> QED BY <1>0, <1>1, <1>4, <2>4, <3>2, <3>3, <3>4
  <2>5. Trimmed(qa, S) BY <2>4 DEF Trimmed
  <2> HIDE DEF S2
  <2> QED BY <1>3, <2>1, <2>3, <2>5 DEF end, qs, S2
<1>5. CASE end < qa.cursor
  <2>1. /\ qs.cursor = end /\ qs.mem = {e \in qa.mem : e.pos < end}
        /\ qs = [item_count |-> qa.item_count, cursor |-> qs.cursor, mem |-> qs.mem]
    <3> HIDE DEF end
    <3> QED BY <1>5, Zenon DEF shrink_cursor
  <2> HIDE DEF end, qs
  <2>2. end \in Nat /\ end >= items_start /\ end <= AccLen
    <3>1. CASE Used(S) = {} BY <1>0, <1>3, <3>1, StartType
    <3>2. CASE Used(S) # {}
      <4>1. PICK w \in Used(S) : end = w.next BY <1>3, <3>2
      <4>2. w \in S BY DEF Used
      <4>3. qa.cursor <= AccLen BY <1>0 DEF Layout
      <4> QED BY <1>0, <1>1, <1>5, <4>1, <4>2, <4>3
    <3> QED BY <3>1, <3>2
  <2>3. Sound(qs.mem) BY <2>1 DEF Layout, Sound
  <2>4. \A e \in qs.mem : e.pos >= items_start /\ e.pos + e.len <= AccLen BY <2>1 DEF Layout
  <2>5. ASSUME NEW v \in S2
        PROVE  \E w \in S2 : /\ end = w.next /\ IsUsed(w)
                             /\ v = w \/ v.next <= w.pos
    <3>1. Used(S) # {} BY <1>0, <1>1, <1>3
    <3>2. PICK w \in Used(S) : end = w.next BY <1>3, <3>1
    <3>3. w \in S /\ IsUsed(w) BY DEF Used
    <3>4. v = w \/ v.next <= w.pos \/ w.next <= v.pos BY <1>1, <3>3
    <3>5. w \in S2 BY <1>1, <3>2, <3>3
    <3> QED BY <1>1, <3>2, <3>3, <3>4, <3>5
  <2>6. ASSUME NEW v \in S2 PROVE Placed(v) /\ Stored(qs, v)
    <3>1. v \in S /\ v.pos < end OBVIOUS
    <3>2. ItemEnd(v) <= end
      <4>1. PICK w \in S2 : end = w.next /\ (v = w \/ v.next <= w.pos) BY <2>5
      <4> QED BY <1>1, <3>1, <4>1
    <3>3. HeaderOf(v.pos, v.item) \in qs.mem
      <4>1. HeaderOf(v.pos, v.item) \in qa.mem /\ HeaderOf(v.pos, v.item).pos = v.pos
        BY <1>1, <3>1 DEF Stored, HeaderOf
      <4> QED BY <2>1, <3>1, <4>1
    <3>4. \A e \in qa.mem : e.pos + e.len <= ItemEnd(v) => e \in qs.mem
      <4>1. \A e \in qa.mem : e.pos \in Nat /\ e.len \in Nat \ {0} BY DEF Layout, Sound
      <4> QED BY <1>1, <2>1, <2>2, <3>1, <3>2, <4>1
    <3>5. IsUsed(v) => Intact(qs.mem, v.item)
      <4>1. SUFFICES ASSUME Intact(qa.mem, v.item) PROVE Intact(qs.mem, v.item)
        BY <1>1, <3>1 DEF Stored
      <4>2. Placed(v) BY <1>1, <3>1
      <4> QED BY <3>4, <4>1, <4>2, PayloadInside
    <3> QED BY <1>1, <2>1, <3>1, <3>2, <3>3, <3>5 DEF Stored
  <2>7. \A u, v \in S2 : u = v \/ u.next <= v.pos \/ v.next <= u.pos BY <1>1
  <2>8. IF S2 = {} THEN qs.cursor = items_start ELSE \E v \in S2 : v.pos = items_start
    <3>1. CASE S2 = {}
      <4>1. Used(S) = {} BY <1>3, <3>1 DEF Used
      <4> QED BY <1>3, <2>1, <3>1, <4>1
    <3>2. CASE S2 # {}
      <4>1. PICK v \in S2 : TRUE BY <3>2
      <4>2. PICK u \in S : u.pos = items_start BY <4>1 DEF Layout
      <4>3. u.pos < end BY <1>0, <1>1, <2>2, <4>1, <4>2
      <4> QED BY <3>2, <4>2, <4>3
    <3> QED BY <3>1, <3>2
  <2>9. ASSUME NEW v \in S2
        PROVE  /\ v.next >= qs.cursor \/ \E u \in S2 : u.pos = v.next
               /\ v.next >= qs.cursor => IsUsed(v)
    <3>1. PICK w \in S2 : end = w.next /\ IsUsed(w) /\ (v = w \/ v.next <= w.pos) BY <2>5
    <3>2. w \in S /\ v \in S OBVIOUS
    <3>3. CASE v = w BY <1>1, <2>1, <2>2, <3>1, <3>3
    <3>4. CASE v.next <= w.pos
      <4>1. v.next < end /\ v.next < qa.cursor BY <1>0, <1>1, <3>1, <3>2, <3>4
      <4>2. PICK u \in S : u.pos = v.next BY <1>0, <1>1, <3>2, <4>1
      <4>3. u \in S2 BY <4>1, <4>2
      <4> QED BY <1>1, <2>1, <2>2, <3>2, <4>1, <4>2, <4>3
    <3> QED BY <3>1, <3>3, <3>4
  <2> HIDE DEF S2
  <2>10. qs.cursor \in items_start .. AccLen BY <1>0, <2>1, <2>2
  <2>11. Layout(qs, S2) BY <1>2, <2>3, <2>4, <2>6, <2>7, <2>8, <2>9, <2>10 DEF Layout
  <2>12. Trimmed(qs, S2) BY <2>9 DEF Trimmed
  <2> QED BY <1>3, <2>1, <2>11, <2>12 DEF end, qs, S2
<1> QED BY <1>4, <1>5

-----------------------------------------------------------------------------
\* Clearing the used flag.

\* What a visit finds once its item has been removed.
Hole(v) == [pos |-> v.pos, next |-> v.next, item |-> [v.item EXCEPT !.used = 0]]

Holes(S, V) == (S \ V) \union {Hole(v) : v \in V}

\* A hole lies where its item lay.
LEMMA HoleFacts ==
  ASSUME NEW v, Placed(v)
  PROVE  /\ Placed(Hole(v)) /\ ~IsUsed(Hole(v)) /\ ItemEnd(Hole(v)) = ItemEnd(v)
         /\ Hole(v).pos = v.pos /\ Hole(v).next = v.next
         /\ Hole(v).item = [v.item EXCEPT !.used = 0]
<1>1. v.item \in Item BY DEF Placed
<1>2. Hole(v).pos = v.pos /\ Hole(v).next = v.next /\ Hole(v).item = [v.item EXCEPT !.used = 0]
  BY DEF Hole
<1> DEFINE h == [v.item EXCEPT !.used = 0]
<1>3. /\ h \in Item /\ h.used = 0 /\ h.disc_off = v.item.disc_off
      /\ h.metas_off = v.item.metas_off /\ h.args_off = v.item.args_off
      /\ h.disc_len = v.item.disc_len /\ h.metas_len = v.item.metas_len
      /\ h.args_len = v.item.args_len
  BY <1>1 DEF Item
<1>4. Hole(v) = [pos |-> Hole(v).pos, next |-> Hole(v).next, item |-> Hole(v).item] BY DEF Hole
<1> HIDE DEF h
<1>5. ItemShape(Hole(v).item) = ItemShape(v.item) BY <1>2, <1>3 DEF ItemShape, h
<1>6. ItemEnd(Hole(v)) = ItemEnd(v) BY <1>2, <1>5 DEF ItemEnd
<1>7. Placed(Hole(v)) BY <1>2, <1>3, <1>4, <1>5, <1>6 DEF Placed, h
<1> QED BY <1>2, <1>3, <1>6, <1>7 DEF IsUsed, h

\* Clearing the used flag of some items leaves every item where it is.
LEMMA ClearLayout ==
  ASSUME NEW qa, NEW S, Layout(qa, S), NEW V, V \subseteq Used(S), NEW qc,
         qc.cursor = qa.cursor, qc.mem = clear_used(qa.mem, V)
  PROVE  Layout(qc, Holes(S, V)) /\ Used(Holes(S, V)) = Used(S) \ V
<1> DEFINE m == qc.mem
           S1 == Holes(S, V)
           old(v) == HeaderOf(v.pos, v.item)
<1>0. /\ ItemSize \in Nat \ {0} /\ items_start \in Nat /\ qa.cursor \in Nat
      /\ qa.cursor <= AccLen /\ AccLen \in Nat
  BY StartType, LayoutAssumption, SMTT(30) DEF Layout
<1>1. \A v \in S : /\ Placed(v) /\ Stored(qa, v) /\ v.pos \in Nat /\ v.next \in Nat
                   /\ v.item \in Item /\ old(v) \in qa.mem
                   /\ ItemEnd(v) \in Nat /\ v.pos >= items_start
                   /\ v.pos + ItemSize <= ItemEnd(v)
                   /\ ItemEnd(v) <= qa.cursor /\ v.pos < v.next /\ v.pos < qa.cursor
                   /\ \A u \in S : u = v \/ u.next <= v.pos \/ v.next <= u.pos
                   /\ v.next >= qa.cursor \/ \E u \in S : u.pos = v.next
  BY LayoutFacts, SMTT(30) DEF Placed, Stored
<1>2. \A u, v \in S : u = v \/ u.pos # v.pos BY <1>1, SMTT(30)
<1>3. V \subseteq S BY DEF Used
<1>4. \A v \in V : /\ Placed(Hole(v)) /\ ~IsUsed(Hole(v)) /\ ItemEnd(Hole(v)) = ItemEnd(v)
                   /\ Hole(v).pos = v.pos /\ Hole(v).next = v.next
                   /\ Hole(v).item = [v.item EXCEPT !.used = 0]
  BY <1>1, <1>3, HoleFacts
<1>5. /\ Sound(m)
      /\ m = (qa.mem \ {old(v) : v \in V})
               \union {HeaderOf(v.pos, [v.item EXCEPT !.used = 0]) : v \in V}
  <2>1. Sound(qa.mem) BY DEF Layout
  <2>2. \A v \in V : v.pos \in Nat /\ v.item \in Item /\ HeaderOf(v.pos, v.item) \in qa.mem
    BY <1>1, <1>3
  <2>3. \A u, v \in V : u = v \/ u.pos # v.pos BY <1>2, <1>3
  <2> QED BY <2>1, <2>2, <2>3, ClearUsed, Zenon
<1>6. \A s \in S1 : \E v \in S : /\ s.pos = v.pos /\ s.next = v.next
                                 /\ (v \notin V /\ s = v) \/ (v \in V /\ s = Hole(v))
  BY <1>3, <1>4, Zenon DEF Holes
<1>7. \A v \in S : \E s \in S1 : s.pos = v.pos
  BY <1>4, Zenon DEF Holes
<1>8. \A e \in m : e.pos >= items_start /\ e.pos + e.len <= AccLen
  <2> SUFFICES ASSUME NEW e \in m PROVE e.pos >= items_start /\ e.pos + e.len <= AccLen
    OBVIOUS
  <2>1. CASE e \in qa.mem BY <2>1 DEF Layout
  <2>2. CASE \E v \in V : e = HeaderOf(v.pos, [v.item EXCEPT !.used = 0])
    <3>1. PICK v \in V : e.pos = v.pos /\ e.len = ItemSize BY <2>2 DEF HeaderOf
    <3> QED BY <1>0, <1>1, <1>3, <3>1, SMTT(30)
  <2> QED BY <1>5, <2>1, <2>2
<1>9. IsFiniteSet(S1)
  <2> DEFINE f == [v \in V |-> Hole(v)]
             T == {Hole(v) : v \in V}
  <2>1. IsFiniteSet(S) BY DEF Layout
  <2>2. IsFiniteSet(V) /\ IsFiniteSet(S \ V) BY <1>3, <2>1, FS_Subset
  <2>3. f \in Surjection(V, T) BY DEF Surjection
  <2> HIDE DEF f, T
  <2>4. IsFiniteSet(T) BY <2>2, <2>3, FS_Surjection
  <2>5. IsFiniteSet((S \ V) \union T) BY <2>2, <2>4, FS_Union, Zenon
  <2> QED BY <2>5 DEF T, Holes
<1>10. ASSUME NEW s \in S1 PROVE Placed(s) /\ Stored(qc, s)
  <2>1. PICK v \in S : (v \notin V /\ s = v) \/ (v \in V /\ s = Hole(v)) BY <1>6
  <2>2. CASE v \notin V /\ s = v
    <3>1. old(v).pos = v.pos /\ \A u \in V : old(u).pos = u.pos BY DEF HeaderOf
    <3>2. old(v) \in m
      <4>1. \A u \in V : old(u) # old(v) BY <1>2, <1>3, <2>2, <3>1
      <4> HIDE DEF old
      <4> QED BY <1>1, <1>5, <4>1
    <3>3. \A e \in qa.mem : e.val[1] # "header" => e \in m
      <4>1. \A u \in V : old(u).val[1] = "header" BY DEF HeaderOf, Header
      <4> HIDE DEF old
      <4> QED BY <1>5, <4>1
    <3>4. IsUsed(v) => Intact(m, v.item)
      <4>1. SUFFICES ASSUME Intact(qa.mem, v.item) PROVE Intact(m, v.item)
        BY <1>1 DEF Stored
      <4>2. \A off, len, x : [pos |-> off, len |-> len, val |-> x].val = x OBVIOUS
      <4>3. \A id : /\ <<"disc", id>>[1] # "header" /\ <<"metas", id>>[1] # "header"
                    /\ <<"args", id>>[1] # "header"
        OBVIOUS
      <4> HIDE DEF m
      <4> QED BY <3>3, <4>1, <4>2, <4>3 DEF Intact
    <3> QED BY <1>1, <2>2, <3>2, <3>4 DEF Stored
  <2>3. CASE v \in V /\ s = Hole(v)
    <3>1. HeaderOf(s.pos, s.item) \in m
      <4>1. HeaderOf(s.pos, s.item) = HeaderOf(v.pos, [v.item EXCEPT !.used = 0])
        BY <1>4, <2>3
      <4> QED BY <1>5, <2>3, <4>1, Zenon
    <3> QED BY <1>1, <1>4, <2>3, <3>1, Zenon DEF Stored
  <2> QED BY <2>1, <2>2, <2>3
<1>11. ASSUME NEW r \in S1, NEW s \in S1 PROVE r = s \/ r.next <= s.pos \/ s.next <= r.pos
  <2>1. PICK u \in S : /\ r.pos = u.pos /\ r.next = u.next
                       /\ (u \notin V /\ r = u) \/ (u \in V /\ r = Hole(u))
    BY <1>6
  <2>2. PICK v \in S : /\ s.pos = v.pos /\ s.next = v.next
                       /\ (v \notin V /\ s = v) \/ (v \in V /\ s = Hole(v))
    BY <1>6
  <2>3. u = v \/ u.next <= v.pos \/ v.next <= u.pos BY <1>1
  <2> QED BY <2>1, <2>2, <2>3
<1>12. IF S1 = {} THEN qc.cursor = items_start ELSE \E s \in S1 : s.pos = items_start
  <2>1. S1 = {} <=> S = {} BY <1>6, <1>7
  <2>2. IF S = {} THEN qa.cursor = items_start ELSE \E v \in S : v.pos = items_start
    BY DEF Layout
  <2> QED BY <1>7, <2>1, <2>2
<1>13. ASSUME NEW s \in S1 PROVE s.next >= qc.cursor \/ \E r \in S1 : r.pos = s.next
  <2>1. PICK v \in S : s.next = v.next BY <1>6
  <2>2. v.next >= qa.cursor \/ \E u \in S : u.pos = v.next BY <1>1
  <2> QED BY <1>7, <2>1, <2>2
<1>14. Used(S1) = Used(S) \ V
  <2>1. \A s \in S1 : IsUsed(s) => s \in S \ V BY <1>4, <1>6, Zenon
  <2> QED BY <2>1 DEF Used, Holes
<1>15. qc.cursor \in items_start .. AccLen BY DEF Layout
<1> HIDE DEF S1, m
<1> QED BY <1>5, <1>8, <1>9, <1>10, <1>11, <1>12, <1>13, <1>14, <1>15, Zenon DEF Layout, S1, m

=============================================================================
