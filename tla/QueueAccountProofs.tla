-------------------------- MODULE QueueAccountProofs --------------------------
(***************************************************************************)
(* What the byte-level queue account guarantees for every size of item,    *)
(* header and account, every alignment and any number of requests.         *)
(***************************************************************************)
EXTENDS QueueLayoutProofs

-----------------------------------------------------------------------------
\* Adding.

\* The visit of an item just written.
NewVisit(pos, id, shape) ==
  [pos |-> pos, next |-> align_up(pos + total_needed(shape)), item |-> NewItem(pos, id, shape)]

\* What a visit of an item just written finds.
LEMMA NewFacts ==
  ASSUME NEW pos \in Nat, pos >= items_start, Aligned(pos), NEW id \in Ids, NEW shape \in Shapes
  PROVE  LET n == NewVisit(pos, id, shape)
         IN  /\ Placed(n) /\ IsUsed(n) /\ ItemEnd(n) = pos + total_needed(shape)
             /\ n.pos = pos /\ n.next = align_up(pos + total_needed(shape))
             /\ n.item = NewItem(pos, id, shape) /\ n.item.id = id
             /\ ItemShape(n.item) = shape
<1> DEFINE n == NewVisit(pos, id, shape)
           i == NewItem(pos, id, shape)
<1>1. /\ n.pos = pos /\ n.next = align_up(pos + total_needed(shape)) /\ n.item = i
      /\ n = [pos |-> n.pos, next |-> n.next, item |-> n.item]
  BY DEF NewVisit
<1>2. /\ i.id = id /\ i.used = 1 /\ i.disc_off = pos + ItemSize
      /\ i.metas_off = pos + ItemSize + shape.disc /\ i.args_off = args_offset(pos, shape)
      /\ i.disc_len = shape.disc /\ i.metas_len = shape.metas /\ i.args_len = shape.args
  BY DEF NewItem
<1>3. i \in Item
  <2>1. ItemSize \in Nat BY LayoutAssumption
  <2> QED BY <2>1, ShapeTypes DEF NewItem, Item, args_offset
<1> HIDE DEF n, i
<1>4. ItemShape(i) = shape BY <1>2, ShapeTypes DEF ItemShape
<1>5. ItemEnd(n) = pos + total_needed(shape) BY <1>1, <1>4 DEF ItemEnd
<1>6. i.args_off = i.metas_off + (i.metas_len * MetaSize) BY <1>2 DEF args_offset
<1>7. Placed(n) BY <1>1, <1>2, <1>3, <1>4, <1>5, <1>6 DEF Placed
<1> QED BY <1>1, <1>2, <1>4, <1>5, <1>7 DEF IsUsed, n, i

\* Writing an item clear of the others, over memory m0 that still holds them.
LEMMA WriteBeside ==
  ASSUME NEW qa, NEW S, Layout(qa, S), NEW T, T \subseteq S,
         NEW pos \in Nat, pos >= items_start, Aligned(pos), NEW id \in Ids, NEW shape \in Shapes,
         pos + total_needed(shape) <= AccLen,
         \A u \in T : ItemEnd(u) <= pos \/ pos + total_needed(shape) <= u.pos,
         NEW m0, m0 \subseteq qa.mem, \A e \in qa.mem : e.pos + e.len <= qa.cursor => e \in m0,
         NEW qn, qn.mem = write_item_at(m0, pos, id, shape),
         \A u \in T : ItemEnd(u) <= qn.cursor, pos + total_needed(shape) <= qn.cursor
  PROVE  /\ Sound(qn.mem)
         /\ \A e \in qn.mem : e.pos >= items_start /\ e.pos + e.len <= AccLen
         /\ \A v \in T \union {NewVisit(pos, id, shape)} : Placed(v) /\ Stored(qn, v)
<1> DEFINE m == qn.mem
           t == total_needed(shape)
           n == NewVisit(pos, id, shape)
           item == NewItem(pos, id, shape)
<1>0. ItemSize \in Nat /\ items_start \in Nat /\ AccLen \in Nat
  BY StartType, LayoutAssumption
<1>1. t \in Nat BY ShapeTypes
<1>2. Sound(m0) BY DEF Layout, Sound
<1>3. /\ Sound(m)
      /\ \A e \in m0 : Apart(e, pos, t) => e \in m
      /\ \A e \in m : e \in m0 \/ (e.pos >= pos /\ e.pos + e.len <= pos + t)
      /\ HeaderOf(pos, item) \in m /\ Intact(m, item)
  BY <1>2, WriteItem
<1>4. /\ Placed(n) /\ IsUsed(n) /\ ItemEnd(n) = pos + t /\ n.pos = pos /\ n.item = item
  BY NewFacts
<1> HIDE DEF n, t, m, item
<1>5. \A e \in m : e.pos >= items_start /\ e.pos + e.len <= AccLen
  <2> SUFFICES ASSUME NEW e \in m PROVE e.pos >= items_start /\ e.pos + e.len <= AccLen
    OBVIOUS
  <2>1. CASE e \in m0 BY <2>1 DEF Layout
  <2>2. CASE e.pos >= pos /\ e.pos + e.len <= pos + t
    <3>1. e.pos \in Nat /\ e.len \in Nat BY <1>3 DEF Sound
    <3> QED BY <1>0, <1>1, <2>2, <3>1 DEF t
  <2> QED BY <1>3, <2>1, <2>2
<1>6. ASSUME NEW u \in T PROVE Placed(u) /\ Stored(qn, u)
  <2>1. /\ Placed(u) /\ Stored(qa, u) /\ u.pos \in Nat /\ ItemEnd(u) \in Nat
        /\ u.pos + ItemSize <= ItemEnd(u) /\ ItemEnd(u) <= qa.cursor /\ qa.cursor \in Nat
    BY LayoutFacts
  <2>2. ItemEnd(u) <= pos \/ pos + t <= u.pos BY DEF t
  <2>3. ASSUME NEW e \in qa.mem, u.pos <= e.pos, e.pos + e.len <= ItemEnd(u) PROVE e \in m
    <3>1. e.pos \in Nat /\ e.len \in Nat BY DEF Layout, Sound
    <3>2. e \in m0 BY <2>1, <2>3, <3>1
    <3>3. Apart(e, pos, t) BY <1>1, <2>1, <2>2, <2>3, <3>1 DEF Apart
    <3> QED BY <1>3, <3>2, <3>3
  <2>4. HeaderOf(u.pos, u.item) \in m
    <3>1. /\ HeaderOf(u.pos, u.item) \in qa.mem /\ HeaderOf(u.pos, u.item).pos = u.pos
          /\ HeaderOf(u.pos, u.item).len = ItemSize
      BY <2>1 DEF Stored, HeaderOf
    <3> QED BY <2>1, <2>3, <3>1
  <2>5. IsUsed(u) => Intact(m, u.item)
    <3>1. SUFFICES ASSUME Intact(qa.mem, u.item) PROVE Intact(m, u.item) BY <2>1 DEF Stored
    <3>2. \A e \in qa.mem : u.pos + ItemSize <= e.pos /\ e.pos + e.len <= ItemEnd(u) => e \in m
      <4>1. \A e \in qa.mem : e.pos \in Nat BY DEF Layout, Sound
      <4> QED BY <1>0, <2>1, <2>3, <4>1
    <3> QED BY <2>1, <3>1, <3>2, PayloadInside, Zenon
  <2> QED BY <2>1, <2>4, <2>5 DEF Stored, m
<1>7. Stored(qn, n) BY <1>3, <1>4 DEF Stored, m, t
<1> QED BY <1>3, <1>4, <1>5, <1>6, <1>7 DEF m, n

\* An item appended behind the last one.
LEMMA AppendLayout ==
  ASSUME NEW qa, NEW S, Layout(qa, S), NEW id \in Ids, NEW shape \in Shapes,
         fits(align_up(qa.cursor), shape), NEW qn,
         qn.cursor = align_up(qa.cursor) + total_needed(shape),
         qn.mem = write_item_at(Erase(qa.mem, qa.cursor, align_up(qa.cursor) - qa.cursor),
                                align_up(qa.cursor), id, shape)
  PROVE  LET n == NewVisit(align_up(qa.cursor), id, shape)
         IN  /\ Layout(qn, S \union {n}) /\ Trimmed(qn, S \union {n})
             /\ \A u \in S : u.next <= n.pos
<1> DEFINE pos == align_up(qa.cursor)
           t == total_needed(shape)
           n == NewVisit(pos, id, shape)
           m0 == Erase(qa.mem, qa.cursor, pos - qa.cursor)
<1>0. /\ ItemSize \in Nat \ {0} /\ items_start \in Nat /\ AccLen \in Nat /\ qa.cursor \in Nat
      /\ qa.cursor >= items_start
  BY StartType, LayoutAssumption DEF Layout
<1>1. t \in Nat /\ t >= ItemSize BY ShapeTypes
<1>2. pos \in Nat /\ pos >= qa.cursor /\ Aligned(pos) /\ pos + t <= AccLen
  BY <1>0, AlignUp DEF fits
<1>3. /\ Placed(n) /\ IsUsed(n) /\ ItemEnd(n) = pos + t /\ n.pos = pos
      /\ n.next = align_up(pos + t)
  BY <1>0, <1>2, NewFacts
<1>4. n.next \in Nat /\ n.next >= pos + t BY <1>1, <1>2, <1>3, AlignUp
<1>5. \A u \in S : /\ u.pos \in Nat /\ u.next \in Nat /\ ItemEnd(u) \in Nat /\ u.pos < u.next
                   /\ ItemEnd(u) <= qa.cursor /\ u.pos < qa.cursor
                   /\ u.next >= qa.cursor \/ \E w \in S : w.pos = u.next
  BY LayoutFacts
<1>6. ASSUME NEW u \in S PROVE u.next <= pos /\ (u.next >= qa.cursor => u.next = pos)
  <2>1. end_of(S) = pos BY EndOfLayout
  <2>2. PICK v \in S : end_of(S) = v.next /\ \A w \in S : w = v \/ w.next <= v.pos
    BY EndOfLayout
  <2> HIDE DEF pos
  <2> QED BY <1>0, <1>2, <1>5, <2>1, <2>2
<1>7. qn.cursor = pos + t OBVIOUS
<1>8. /\ m0 \subseteq qa.mem /\ \A e \in qa.mem : e.pos + e.len <= qa.cursor => e \in m0
  BY DEF Erase, Apart
<1>9. qn.mem = write_item_at(m0, pos, id, shape) OBVIOUS
<1> HIDE DEF n, t, pos, m0
<1>10. /\ Sound(qn.mem)
       /\ \A e \in qn.mem : e.pos >= items_start /\ e.pos + e.len <= AccLen
       /\ \A v \in S \union {n} : Placed(v) /\ Stored(qn, v)
  <2>1. \A u \in S : ItemEnd(u) <= pos /\ ItemEnd(u) <= qn.cursor
    BY <1>0, <1>1, <1>2, <1>5, <1>7
  <2>2. pos >= items_start /\ pos + t <= qn.cursor BY <1>0, <1>1, <1>2, <1>7
  <2> QED BY <1>2, <1>8, <1>9, <2>1, <2>2, WriteBeside, ZenonT(30) DEF n, t
<1>11. IsFiniteSet(S \union {n}) BY FS_AddElement DEF Layout
<1>12. \A u, v \in S \union {n} : u = v \/ u.next <= v.pos \/ v.next <= u.pos
  <2>1. \A u, v \in S : u = v \/ u.next <= v.pos \/ v.next <= u.pos BY DEF Layout
  <2> QED BY <1>3, <1>6, <2>1
<1>13. \E v \in S \union {n} : v.pos = items_start
  <2>1. CASE S = {}
    <3>1. qa.cursor = items_start BY <2>1 DEF Layout
    <3>2. pos = items_start BY <3>1, StartType, AlignFixed DEF pos
    <3> QED BY <1>3, <3>2
  <2>2. CASE S # {} BY <2>2 DEF Layout
  <2> QED BY <2>1, <2>2
<1>14. \A v \in S \union {n} : v.next >= qn.cursor \/ \E u \in S \union {n} : u.pos = v.next
  BY <1>3, <1>4, <1>5, <1>6, <1>7
<1>15. qn.cursor \in items_start .. AccLen BY <1>0, <1>1, <1>2, <1>7
<1>16. Layout(qn, S \union {n}) BY <1>10, <1>11, <1>12, <1>13, <1>14, <1>15 DEF Layout
<1>17. Trimmed(qn, S \union {n})
  <2>1. \A u \in S : ~(u.next >= qn.cursor) BY <1>0, <1>1, <1>2, <1>5, <1>6, <1>7
  <2> QED BY <1>3, <2>1 DEF Trimmed
<1> QED BY <1>3, <1>6, <1>16, <1>17 DEF n, pos

\* An item written over a hole of its own span.
LEMMA ReuseLayout ==
  ASSUME NEW qa, NEW S, Layout(qa, S), Trimmed(qa, S), NEW id \in Ids, NEW shape \in Shapes,
         NEW v \in S, ~IsUsed(v), v.next - v.pos = required_span(shape), fits(v.pos, shape),
         NEW qn, qn.cursor = qa.cursor, qn.mem = write_item_at(qa.mem, v.pos, id, shape)
  PROVE  LET n == NewVisit(v.pos, id, shape)
         IN  Layout(qn, (S \ {v}) \union {n}) /\ Trimmed(qn, (S \ {v}) \union {n})
<1> DEFINE t == total_needed(shape)
           n == NewVisit(v.pos, id, shape)
           T == S \ {v}
<1>0. ItemSize \in Nat \ {0} /\ items_start \in Nat /\ AccLen \in Nat /\ Align \in Nat
  BY StartType, LayoutAssumption
<1>1. t \in Nat BY ShapeTypes
<1>2. \A u \in S : /\ u.pos \in Nat /\ u.next \in Nat /\ ItemEnd(u) \in Nat /\ u.pos < u.next
                   /\ ItemEnd(u) <= u.next /\ ItemEnd(u) <= qa.cursor /\ u.pos >= items_start
                   /\ qa.cursor \in Nat /\ Placed(u)
                   /\ u.next >= qa.cursor \/ \E w \in S : w.pos = u.next
                   /\ u = v \/ u.next <= v.pos \/ v.next <= u.pos
  BY LayoutFacts
<1>3. Aligned(v.pos) BY <1>2 DEF Placed
<1>4. /\ Placed(n) /\ IsUsed(n) /\ ItemEnd(n) = v.pos + t /\ n.pos = v.pos
      /\ n.next = align_up(v.pos + t)
  BY <1>2, <1>3, NewFacts
<1>5. n.next = v.next /\ v.pos + t <= v.next
  <2>1. align_up(v.pos + t) = v.pos + align_up(t) BY <1>1, <1>2, <1>3, AlignShift
  <2>2. align_up(t) = v.next - v.pos BY DEF required_span
  <2>3. v.pos + t \in Nat BY <1>1, <1>2
  <2>4. v.pos + t <= align_up(v.pos + t) BY <2>3, AlignUp
  <2> HIDE DEF t, n
  <2> QED BY <1>2, <1>4, <2>1, <2>2, <2>4
<1>6. v.next < qa.cursor BY <1>2 DEF Trimmed
<1>7. v.pos + t <= AccLen BY DEF fits
<1> HIDE DEF n, t
<1>8. /\ Sound(qn.mem)
      /\ \A e \in qn.mem : e.pos >= items_start /\ e.pos + e.len <= AccLen
      /\ \A u \in T \union {n} : Placed(u) /\ Stored(qn, u)
  <2>1. \A u \in T : /\ ItemEnd(u) <= v.pos \/ v.pos + t <= u.pos
                     /\ ItemEnd(u) <= qn.cursor
    BY <1>1, <1>2, <1>5
  <2>2. v.pos + t <= qn.cursor /\ v.pos >= items_start /\ v.pos \in Nat BY <1>1, <1>2, <1>5, <1>6
  <2>3. T \subseteq S OBVIOUS
  <2> HIDE DEF T
  <2> QED BY <1>3, <1>7, <2>1, <2>2, <2>3, WriteBeside, Zenon DEF n, t
<1>9. IsFiniteSet(T \union {n})
  <2>1. IsFiniteSet(T) BY FS_Subset DEF Layout
  <2> QED BY <2>1, FS_AddElement
<1>10. \A u, w \in T \union {n} : u = w \/ u.next <= w.pos \/ w.next <= u.pos
  <2>1. \A u, w \in S : u = w \/ u.next <= w.pos \/ w.next <= u.pos BY DEF Layout
  <2> QED BY <1>2, <1>4, <1>5, <2>1
<1>11. \A u \in S : \E w \in T \union {n} : w.pos = u.pos BY <1>4
<1>12. \A w \in T \union {n} : \E u \in S : w.pos = u.pos /\ w.next = u.next BY <1>4, <1>5
<1>13. \E w \in T \union {n} : w.pos = items_start
  <2>1. \E u \in S : u.pos = items_start BY DEF Layout
  <2> QED BY <1>11, <2>1
<1>14. \A w \in T \union {n} : w.next >= qn.cursor \/ \E u \in T \union {n} : u.pos = w.next
  <2> SUFFICES ASSUME NEW w \in T \union {n}
               PROVE  w.next >= qn.cursor \/ \E u \in T \union {n} : u.pos = w.next
    OBVIOUS
  <2>1. PICK u \in S : w.next = u.next BY <1>12
  <2>2. u.next >= qa.cursor \/ \E x \in S : x.pos = u.next BY <1>2
  <2> QED BY <1>11, <2>1, <2>2
<1>15. qn.cursor \in items_start .. AccLen BY DEF Layout
<1>16. Layout(qn, T \union {n}) BY <1>8, <1>9, <1>10, <1>13, <1>14, <1>15 DEF Layout
<1>17. Trimmed(qn, T \union {n}) BY <1>4 DEF Trimmed
<1> QED BY <1>16, <1>17 DEF n

-----------------------------------------------------------------------------
\* The queue and its operations.

\* A queue between two operations, with the visits of its walk.
Queue(qa, S) ==
  /\ qa = [item_count |-> qa.item_count, cursor |-> qa.cursor, mem |-> qa.mem]
  /\ Layout(qa, S) /\ Trimmed(qa, S) /\ Distinct(S)
  /\ qa.item_count = Cardinality(Used(S))

\* Taking the items V away in one pass and trimming the queue.
Removal(qa, S, V) ==
  shrink_cursor([item_count |-> saturating_sub(qa.item_count, Cardinality(V)),
                 cursor |-> qa.cursor, mem |-> clear_used(qa.mem, V)],
                end_of(Used(S) \ V))

Remaining(S, V) == {v \in Holes(S, V) : v.pos < end_of(Used(S) \ V)}

\* The walk over a queue finds its visits; the used ones are no more than there are ids.
LEMMA UsedFacts ==
  ASSUME NEW qa, NEW S, Queue(qa, S)
  PROVE  /\ scan_items(qa) = S /\ used_items(qa) = Used(S)
         /\ IsFiniteSet(Used(S)) /\ Cardinality(Used(S)) \in Nat
         /\ Cardinality(Used(S)) <= Cardinality(Ids)
<1>1. scan_items(qa) = S /\ used_items(qa) = Used(S) BY LayoutIsScan DEF Queue
<1>2. IsFiniteSet(Used(S)) BY FS_Subset DEF Queue, Layout, Used
<1>3. Cardinality(Used(S)) \in Nat BY <1>2, FS_CardinalityType
<1> DEFINE f == [v \in Used(S) |-> v.item.id]
<1>4. \A v \in Used(S) : v.item.id \in Ids BY DEF Queue, Layout, Placed, Item, Used
<1>5. f \in Injection(Used(S), Ids)
  <2>1. f \in [Used(S) -> Ids] BY <1>4
  <2>2. \A u, v \in Used(S) : f[u] = f[v] => u = v BY DEF Queue, Distinct
  <2> HIDE DEF f
  <2> QED BY <2>1, <2>2 DEF Injection, IsInjective
<1> HIDE DEF f
<1>6. Cardinality(Used(S)) <= Cardinality(Ids) BY <1>5, LayoutAssumption, FS_Injection
<1> QED BY <1>1, <1>2, <1>3, <1>6

\* No two used items have the same logical index.
LEMMA IndexInjective ==
  ASSUME NEW qa, NEW S, Queue(qa, S), NEW v \in Used(S), NEW w \in Used(S),
         logical_index(qa, v) = logical_index(qa, w)
  PROVE  v = w
<1>1. used_items(qa) = Used(S) /\ IsFiniteSet(Used(S)) BY UsedFacts
<1>2. v \in S /\ w \in S /\ \A u \in Used(S) : u.pos \in Nat
  BY LayoutFacts DEF Used, Queue
<1>3. v = w \/ v.pos # w.pos
  <2>1. v.next \in Nat /\ w.next \in Nat /\ v.pos < v.next /\ w.pos < w.next
        /\ (w = v \/ w.next <= v.pos \/ v.next <= w.pos)
    BY <1>2, LayoutFacts DEF Queue
  <2> QED BY <1>2, <2>1
<1> DEFINE Below(x) == {u \in Used(S) : u.pos < x.pos}
<1>4. Cardinality(Below(v)) = Cardinality(Below(w)) BY <1>1 DEF logical_index
<1>5. IsFiniteSet(Below(v)) /\ IsFiniteSet(Below(w)) BY <1>1, FS_Subset
<1>6. CASE v.pos < w.pos
  <2>1. Below(v) \subseteq Below(w) BY <1>2, <1>6
  <2>2. v \in Below(w) /\ v \notin Below(v) BY <1>2, <1>6
  <2> HIDE DEF Below
  <2> QED BY <1>4, <1>5, <2>1, <2>2, FS_Subset
<1>7. CASE w.pos < v.pos
  <2>1. Below(w) \subseteq Below(v) BY <1>2, <1>7
  <2>2. w \in Below(v) /\ w \notin Below(w) BY <1>2, <1>7
  <2> HIDE DEF Below
  <2> QED BY <1>4, <1>5, <2>1, <2>2, FS_Subset
<1> QED BY <1>2, <1>3, <1>6, <1>7

\* Adding an item of a new id to the used ones.
LEMMA AddedQueue ==
  ASSUME NEW qa, NEW S, Queue(qa, S), NEW T, NEW n, n \notin Used(S), IsUsed(n),
         Used(T) = Used(S) \union {n}, n.item.id \notin {v.item.id : v \in Used(S)},
         NEW qn, Layout(qn, T), Trimmed(qn, T),
         qn = [item_count |-> qa.item_count + 1, cursor |-> qn.cursor, mem |-> qn.mem]
  PROVE  /\ Queue(qn, T) /\ find_item_by_id(qn, n.item.id) = {n}
         /\ get_item_by_index(qn, logical_index(qn, n)) = {n}
<1>1. IsFiniteSet(Used(S)) BY UsedFacts
<1>2. Cardinality(Used(T)) = Cardinality(Used(S)) + 1 BY <1>1, FS_AddElement, Zenon
<1>3. qn.item_count = qa.item_count + 1 OBVIOUS
<1>4. Distinct(T) BY DEF Distinct, Queue
<1>5. qn = [item_count |-> qn.item_count, cursor |-> qn.cursor, mem |-> qn.mem] BY <1>3
<1>6. Queue(qn, T) BY <1>2, <1>3, <1>4, <1>5 DEF Queue
<1>7. used_items(qn) = Used(T) /\ n \in Used(T) BY <1>6, UsedFacts
<1>8. find_item_by_id(qn, n.item.id) = {n}
  <2>1. {v \in used_items(qn) : v.item.id = n.item.id} = {n} BY <1>4, <1>7 DEF Distinct
  <2>2. n.pos \in Nat BY <1>7, LayoutFacts DEF Used
  <2> QED BY <2>1, <2>2 DEF find_item_by_id
<1>9. get_item_by_index(qn, logical_index(qn, n)) = {n}
  BY <1>6, <1>7, IndexInjective DEF get_item_by_index
<1> QED BY <1>6, <1>8, <1>9

\* AppendItem and ReuseHole.
LEMMA AddItem ==
  ASSUME NEW S, Queue(q, S), NEW id \in Ids \ {v.item.id : v \in Used(S)}, NEW shape \in Shapes,
         AppendItem(id, shape) \/ ReuseHole(id, shape)
  PROVE  \E T, n : /\ Queue(q', T) /\ Used(T) = Used(S) \union {n} /\ n \notin Used(S)
                   /\ n.item.id = id /\ ItemShape(n.item) = shape
                   /\ ret' = [ok |-> TRUE, id |-> id, index |-> ret'.index]
                   /\ ret'.index \in 0 .. Cardinality(Ids)
                   /\ find_item_by_id(q', id) = {n} /\ get_item_by_index(q', ret'.index) = {n}
<1>0. /\ Layout(q, S) /\ Trimmed(q, S) /\ q.item_count = Cardinality(Used(S))
  BY DEF Queue
<1>1. trim_trailing_holes(q) = q BY <1>0, NothingToTrim
<1>2. scan_items(q) = S /\ used_items(q) = Used(S) /\ IsFiniteSet(Used(S)) BY UsedFacts
<1>3. /\ items_start \in Nat /\ q.cursor \in Nat /\ q.cursor >= items_start
  BY <1>0, StartType, LayoutAssumption DEF Layout
<1>4. ASSUME NEW T, NEW n, IsUsed(n), Used(T) = Used(S) \union {n}, n.item.id = id,
             ItemShape(n.item) = shape, Layout(q', T), Trimmed(q', T),
             q' = [item_count |-> q.item_count + 1, cursor |-> q'.cursor, mem |-> q'.mem],
             ret' = [ok |-> TRUE, id |-> id, index |-> Cardinality({u \in Used(S) : u.pos < n.pos})]
      PROVE  \E T1, n1 : /\ Queue(q', T1) /\ Used(T1) = Used(S) \union {n1} /\ n1 \notin Used(S)
                   /\ n1.item.id = id /\ ItemShape(n1.item) = shape
                   /\ ret' = [ok |-> TRUE, id |-> id, index |-> ret'.index]
                   /\ ret'.index \in 0 .. Cardinality(Ids)
                   /\ find_item_by_id(q', id) = {n1} /\ get_item_by_index(q', ret'.index) = {n1}
  <2>1. n \notin Used(S) BY <1>4
  <2>2. /\ Queue(q', T) /\ find_item_by_id(q', id) = {n}
        /\ get_item_by_index(q', logical_index(q', n)) = {n}
    BY <1>4, <2>1, AddedQueue
  <2>3. n.pos \in Nat BY <1>4, LayoutFacts DEF Used
  <2>4. {u \in Used(T) : u.pos < n.pos} = {u \in Used(S) : u.pos < n.pos} BY <1>4, <2>3
  <2>5. /\ logical_index(q', n) = Cardinality({u \in Used(S) : u.pos < n.pos})
        /\ Cardinality(Used(S)) \in Nat /\ Cardinality(Used(S)) <= Cardinality(Ids)
    BY <2>2, <2>4, UsedFacts, Zenon DEF logical_index
  <2>6. ret'.index = logical_index(q', n) BY <1>4, <2>5
  <2>7. ret'.index \in 0 .. Cardinality(Ids)
    <3> DEFINE B == {u \in Used(S) : u.pos < n.pos}
    <3>1. IsFiniteSet(B) /\ Cardinality(B) <= Cardinality(Used(S)) BY <1>2, FS_Subset
    <3>2. Cardinality(B) \in Nat BY <3>1, FS_CardinalityType
    <3>3. Cardinality(Ids) \in Nat BY LayoutAssumption, FS_CardinalityType
    <3>4. ret'.index = Cardinality(B) BY <1>4
    <3> HIDE DEF B
    <3> QED BY <2>5, <3>1, <3>2, <3>3, <3>4
  <2>8. ret' = [ok |-> TRUE, id |-> id, index |-> ret'.index] BY <1>4
  <2> QED BY <1>4, <2>1, <2>2, <2>6, <2>7, <2>8, Zenon
<1>5. CASE AppendItem(id, shape)
  <2> DEFINE pos == align_up(q.cursor)
             n == NewVisit(pos, id, shape)
             T == S \union {n}
  <2>1. /\ fits(pos, shape)
        /\ q' = [item_count |-> q.item_count + 1, cursor |-> pos + total_needed(shape),
                 mem |-> write_item_at(Erase(q.mem, q.cursor, pos - q.cursor), pos, id, shape)]
        /\ ret' = [ok |-> TRUE, id |-> id, index |-> q.item_count]
    BY <1>1, <1>5 DEF AppendItem
  <2>2. /\ q'.cursor = pos + total_needed(shape)
        /\ q'.mem = write_item_at(Erase(q.mem, q.cursor, pos - q.cursor), pos, id, shape)
        /\ q' = [item_count |-> q.item_count + 1, cursor |-> q'.cursor, mem |-> q'.mem]
    BY <2>1
  <2>3. Layout(q', T) /\ Trimmed(q', T) /\ \A u \in S : u.next <= n.pos
    BY <1>0, <2>1, <2>2, AppendLayout
  <2>4. pos \in Nat /\ pos >= items_start /\ Aligned(pos) BY <1>3, AlignUp, SMTT(30)
  <2>5. IsUsed(n) /\ n.item.id = id /\ ItemShape(n.item) = shape /\ n.pos = pos
    BY <2>4, NewFacts
  <2> HIDE DEF n, pos
  <2>6. Used(T) = Used(S) \union {n} BY <2>5 DEF Used
  <2>7. {u \in Used(S) : u.pos < n.pos} = Used(S)
    <3>1. \A u \in Used(S) : u \in S /\ u.pos \in Nat /\ u.next \in Nat /\ u.pos < u.next
      BY <1>0, LayoutFacts DEF Used
    <3> QED BY <2>3, <2>4, <2>5, <3>1, SMTT(30)
  <2> HIDE DEF T
  <2> QED BY <1>0, <1>4, <2>1, <2>2, <2>3, <2>5, <2>6, <2>7, SMTT(30)
<1>6. CASE ReuseHole(id, shape)
  <2>1. PICK v \in reusable_spans(q, shape) :
          /\ fits(v.pos, shape)
          /\ q' = [item_count |-> q.item_count + 1, cursor |-> q.cursor,
                   mem |-> write_item_at(q.mem, v.pos, id, shape)]
          /\ ret' = [ok |-> TRUE, id |-> id, index |-> logical_index(q, v)]
    BY <1>1, <1>6, ZenonT(30) DEF ReuseHole
  <2>2. v \in S /\ ~IsUsed(v) /\ v.next - v.pos = required_span(shape)
    BY <1>2 DEF reusable_spans
  <2> DEFINE n == NewVisit(v.pos, id, shape)
             T == (S \ {v}) \union {n}
  <2>3. /\ q'.cursor = q.cursor /\ q'.mem = write_item_at(q.mem, v.pos, id, shape)
        /\ q' = [item_count |-> q.item_count + 1, cursor |-> q'.cursor, mem |-> q'.mem]
    BY <2>1
  <2>4. Layout(q', T) /\ Trimmed(q', T) BY <1>0, <2>1, <2>2, <2>3, ReuseLayout
  <2>5. v.pos \in Nat /\ v.pos >= items_start /\ Aligned(v.pos)
    BY <1>0, <2>2, LayoutFacts DEF Placed
  <2>6. IsUsed(n) /\ n.item.id = id /\ ItemShape(n.item) = shape /\ n.pos = v.pos
    BY <2>5, NewFacts, SMTT(30)
  <2> HIDE DEF n
  <2>7. Used(T) = Used(S) \union {n} BY <2>2, <2>6 DEF Used
  <2>8. logical_index(q, v) = Cardinality({u \in Used(S) : u.pos < n.pos})
    BY <1>2, <2>6 DEF logical_index
  <2> HIDE DEF T
  <2> QED BY <1>4, <2>1, <2>3, <2>4, <2>6, <2>7, <2>8
<1> QED BY <1>5, <1>6

\* What a removal does to the header and the memory.
LEMMA RemovalForm ==
  ASSUME NEW qa, NEW S, Queue(qa, S), NEW V, V \subseteq Used(S)
  PROVE  LET end == end_of(Used(S) \ V)
             m == clear_used(qa.mem, V)
         IN  Removal(qa, S, V)
               = [item_count |-> qa.item_count - Cardinality(V),
                  cursor |-> IF end < qa.cursor THEN end ELSE qa.cursor,
                  mem |-> IF end < qa.cursor THEN {e \in m : e.pos < end} ELSE m]
<1>1. IsFiniteSet(Used(S)) /\ Cardinality(Used(S)) \in Nat BY UsedFacts
<1>2. IsFiniteSet(V) /\ Cardinality(V) <= Cardinality(Used(S)) BY <1>1, FS_Subset
<1>3. Cardinality(V) \in Nat BY <1>2, FS_CardinalityType
<1>4. saturating_sub(qa.item_count, Cardinality(V)) = qa.item_count - Cardinality(V)
  BY <1>1, <1>2, <1>3 DEF Queue, saturating_sub
<1> QED BY <1>4, Zenon DEF Removal, shrink_cursor

\* A removal leaves a queue whose used items are the ones not removed.
LEMMA RemoveQueue ==
  ASSUME NEW qa, NEW S, Queue(qa, S), NEW V, V \subseteq Used(S)
  PROVE  /\ Queue(Removal(qa, S, V), Remaining(S, V))
         /\ Used(Remaining(S, V)) = Used(S) \ V
<1> DEFINE qc == [item_count |-> saturating_sub(qa.item_count, Cardinality(V)),
                  cursor |-> qa.cursor, mem |-> clear_used(qa.mem, V)]
           H  == Holes(S, V)
           qr == Removal(qa, S, V)
           R  == Remaining(S, V)
<1>1. /\ qc.cursor = qa.cursor /\ qc.mem = clear_used(qa.mem, V)
      /\ qc = [item_count |-> qc.item_count, cursor |-> qc.cursor, mem |-> qc.mem]
  OBVIOUS
<1>2. Layout(qa, S) BY DEF Queue
<1>3. qr = shrink_cursor(qc, end_of(Used(S) \ V)) BY DEF Removal
<1>4. R = {v \in H : v.pos < end_of(Used(S) \ V)} BY DEF Remaining
<1> HIDE DEF qc, H, qr, R
<1>5. Layout(qc, H) /\ Used(H) = Used(S) \ V BY <1>1, <1>2, ClearLayout DEF H
<1>6. /\ Layout(qr, R) /\ Trimmed(qr, R) /\ Used(R) = Used(H)
      /\ qr = [item_count |-> qc.item_count, cursor |-> qr.cursor, mem |-> qr.mem]
  BY <1>1, <1>3, <1>4, <1>5, Shrink, Zenon
<1>7. qr = [item_count |-> qr.item_count, cursor |-> qr.cursor, mem |-> qr.mem] BY <1>6
<1>8. Distinct(R) BY <1>5, <1>6 DEF Distinct, Queue
<1>9. qr.item_count = Cardinality(Used(R))
  <2>1. qr.item_count = qa.item_count - Cardinality(V)
    <3> DEFINE end == end_of(Used(S) \ V)
               m == clear_used(qa.mem, V)
    <3>1. qr = [item_count |-> qa.item_count - Cardinality(V),
                cursor |-> IF end < qa.cursor THEN end ELSE qa.cursor,
                mem |-> IF end < qa.cursor THEN {e \in m : e.pos < end} ELSE m]
      BY RemovalForm, Zenon DEF qr
    <3> QED BY <3>1
  <2>2. IsFiniteSet(Used(S)) /\ Cardinality(Used(S)) \in Nat BY UsedFacts
  <2>3. IsFiniteSet(V) BY <2>2, FS_Subset
  <2>4. Cardinality(Used(S) \ V) = Cardinality(Used(S)) - Cardinality(Used(S) \cap V)
    BY <2>2, FS_Difference
  <2>5. Used(S) \cap V = V OBVIOUS
  <2> QED BY <1>5, <1>6, <2>1, <2>4, <2>5 DEF Queue
<1> QED BY <1>5, <1>6, <1>7, <1>8, <1>9 DEF Queue, qr, R

\* remove_item is the removal of one item, although it finds the new end with a second
\* walk over the account.
LEMMA RemoveItemIs ==
  ASSUME NEW qa, NEW S, Queue(qa, S), NEW v \in Used(S)
  PROVE  remove_item(qa, v) = Removal(qa, S, {v})
<1> DEFINE qc == [item_count |-> saturating_sub(qa.item_count, 1),
                  cursor |-> qa.cursor, mem |-> clear_used(qa.mem, {v})]
<1>1. qc.cursor = qa.cursor /\ qc.mem = clear_used(qa.mem, {v}) OBVIOUS
<1>2. Layout(qa, S) BY DEF Queue
<1>3. Cardinality({v}) = 1 BY FS_Singleton
<1>4. Removal(qa, S, {v}) = shrink_cursor(qc, end_of(Used(S) \ {v})) BY <1>3 DEF Removal
<1>5. remove_item(qa, v) = shrink_cursor(qc, end_of(used_items(qc)))
  BY DEF remove_item, trim_trailing_holes, last_used_end_aligned
<1> HIDE DEF qc
<1>6. Layout(qc, Holes(S, {v})) /\ Used(Holes(S, {v})) = Used(S) \ {v}
  <2> DEFINE V == {v}
  <2>1. V \subseteq Used(S) /\ qc.mem = clear_used(qa.mem, V) BY <1>1
  <2> HIDE DEF V
  <2>2. Layout(qc, Holes(S, V)) /\ Used(Holes(S, V)) = Used(S) \ V
    BY <1>1, <1>2, <2>1, ClearLayout
  <2> QED BY <2>2 DEF V
<1>7. used_items(qc) = Used(S) \ {v} BY <1>6, LayoutIsScan
<1> QED BY <1>4, <1>5, <1>7

\* remove_items_matching is the removal of every item it selects.
LEMMA RemoveMatchingIs ==
  ASSUME NEW qa, NEW S, Queue(qa, S), NEW gone
  PROVE  remove_items_matching(qa, gone) = Removal(qa, S, {v \in Used(S) : v.item.id \in gone})
<1>1. used_items(qa) = Used(S) BY UsedFacts
<1> QED BY <1>1 DEF remove_items_matching, Removal, count_after, end_of_kept

\* The end of some items of a layout: past each of them, and no further than that of more.
LEMMA EndOfSome ==
  ASSUME NEW qa, NEW S, Layout(qa, S), NEW B, B \subseteq S, NEW A, A \subseteq B
  PROVE  /\ end_of(A) \in Nat /\ end_of(B) \in Nat /\ end_of(A) <= end_of(B)
         /\ \A v \in B : v.pos < end_of(B)
<1>1. \A v \in S : /\ v.pos \in Nat /\ v.next \in Nat /\ v.pos < v.next /\ v.pos <= AccLen
                   /\ v.pos >= items_start
                   /\ \A u \in S : u = v \/ u.next <= v.pos \/ v.next <= u.pos
  BY LayoutFacts
<1>2. ASSUME NEW C, C \subseteq S
      PROVE  /\ end_of(C) \in Nat /\ end_of(C) >= items_start
             /\ \A v \in C : v.next <= end_of(C)
             /\ C # {} => \E v \in C : end_of(C) = v.next
  <2>1. CASE C = {} BY <2>1, StartType DEF end_of
  <2>2. CASE C # {}
    <3>1. \A v \in C : v.pos \in Nat /\ v.pos <= AccLen BY <1>1, <1>2
    <3>2. PICK v \in C : (\A u \in C : u.pos <= v.pos) /\ end_of(C) = v.next
      BY <2>2, <3>1, EndOf
    <3>3. \A u \in C : u.next <= v.next BY <1>1, <1>2, <3>2
    <3>4. v.next \in Nat /\ v.next >= items_start BY <1>1, <1>2, StartType
    <3> QED BY <3>2, <3>3, <3>4
  <2> QED BY <2>1, <2>2
<1>3. end_of(A) <= end_of(B)
  <2>1. CASE A = {} BY <1>2, <2>1 DEF end_of
  <2>2. CASE A # {}
    <3>1. PICK v \in A : end_of(A) = v.next BY <1>2, <2>2
    <3>2. v \in B BY <3>1
    <3> QED BY <1>2, <3>1, <3>2
  <2> QED BY <2>1, <2>2
<1>4. \A v \in B : v.pos < end_of(B) BY <1>1, <1>2
<1> QED BY <1>2, <1>3, <1>4

\* Clearing the items of a set one after the other or at once is the same.
LEMMA ClearTwice ==
  ASSUME NEW qa, NEW S, Layout(qa, S), NEW V, V \subseteq S, NEW v \in V
  PROVE  clear_used(clear_used(qa.mem, {v}), V \ {v}) = clear_used(qa.mem, V)
<1> DEFINE hdr(w) == [pos |-> w.pos, len |-> ItemSize, val |-> Header([w.item EXCEPT !.used = 0])]
           far(e, w) == Apart(e, w.pos, ItemSize)
<1>1. \A m, W, e : e \in clear_used(m, W)
                     <=> (e \in m /\ \A w \in W : far(e, w)) \/ \E w \in W : e = hdr(w)
  BY DEF clear_used
<1>2. ASSUME NEW w \in V, w # v PROVE far(hdr(v), w)
  <2>1. /\ v.pos \in Nat /\ w.pos \in Nat /\ v.next \in Nat /\ w.next \in Nat
        /\ ItemEnd(v) \in Nat /\ ItemEnd(w) \in Nat
        /\ v.pos + ItemSize <= ItemEnd(v) /\ ItemEnd(v) <= v.next
        /\ w.pos + ItemSize <= ItemEnd(w) /\ ItemEnd(w) <= w.next
        /\ (w = v \/ w.next <= v.pos \/ v.next <= w.pos)
    BY LayoutFacts
  <2>2. ItemSize \in Nat BY LayoutAssumption
  <2>3. hdr(v).pos = v.pos /\ hdr(v).len = ItemSize OBVIOUS
  <2> HIDE DEF hdr
  <2> QED BY <1>2, <2>1, <2>2, <2>3 DEF Apart
<1> HIDE DEF hdr, far
<1>3. ASSUME NEW e
      PROVE  e \in clear_used(clear_used(qa.mem, {v}), V \ {v}) <=> e \in clear_used(qa.mem, V)
  <2>1. e \in clear_used(qa.mem, {v}) <=> (e \in qa.mem /\ far(e, v)) \/ e = hdr(v)
    BY <1>1
  <2>2. e \in clear_used(clear_used(qa.mem, {v}), V \ {v})
          <=> \/ e \in clear_used(qa.mem, {v}) /\ \A w \in V \ {v} : far(e, w)
              \/ \E w \in V \ {v} : e = hdr(w)
    BY <1>1
  <2>3. e \in clear_used(qa.mem, V)
          <=> (e \in qa.mem /\ \A w \in V : far(e, w)) \/ \E w \in V : e = hdr(w)
    BY <1>1
  <2> QED BY <1>2, <2>1, <2>2, <2>3
<1> QED BY <1>3

\* Clearing items below an end, and what lies below the end once they are cleared.
LEMMA ClearBelow ==
  ASSUME NEW m, NEW W, NEW end, \A w \in W : w.pos < end
  PROVE  clear_used({e \in m : e.pos < end}, W) = {e \in clear_used(m, W) : e.pos < end}
<1> DEFINE hdr(w) == [pos |-> w.pos, len |-> ItemSize, val |-> Header([w.item EXCEPT !.used = 0])]
           far(e) == \A w \in W : Apart(e, w.pos, ItemSize)
<1>1. \A n : clear_used(n, W) = {e \in n : far(e)} \union {hdr(w) : w \in W} BY DEF clear_used
<1>2. \A w \in W : hdr(w).pos < end OBVIOUS
<1> HIDE DEF hdr, far
<1> QED BY <1>1, <1>2

\* Removing one item and then the others is removing them all at once.
LEMMA RemoveOneFirst ==
  ASSUME NEW qa, NEW S, Queue(qa, S), NEW V, V \subseteq Used(S), NEW v \in V
  PROVE  Removal(Removal(qa, S, {v}), Remaining(S, {v}), V \ {v}) = Removal(qa, S, V)
<1> DEFINE one == {v}
           W  == V \ one
           q1 == Removal(qa, S, one)
           R  == Remaining(S, one)
           e1 == end_of(Used(S) \ one)
           e2 == end_of(Used(S) \ V)
           c  == qa.cursor
           m1 == clear_used(qa.mem, one)
           M1 == IF e1 < c THEN {e \in m1 : e.pos < e1} ELSE m1
           m2 == clear_used(M1, W)
           m  == clear_used(qa.mem, V)
           c1 == IF e1 < c THEN e1 ELSE c
<1>1. /\ one \subseteq Used(S) /\ W \subseteq Used(S) \ one /\ Used(S) \subseteq S
      /\ (Used(S) \ one) \ W = Used(S) \ V /\ Layout(qa, S) /\ V \subseteq S
  BY DEF Queue, Used
<1>2. c \in Nat BY StartType, LayoutAssumption DEF Queue, Layout
<1> HIDE DEF one, W
<1>3. q1 = [item_count |-> qa.item_count - Cardinality(one), cursor |-> c1, mem |-> M1]
  BY <1>1, RemovalForm, Zenon
<1>4. Queue(q1, R) /\ Used(R) = Used(S) \ one BY <1>1, RemoveQueue
<1>5. q1.item_count = qa.item_count - Cardinality(one) /\ q1.cursor = c1 /\ q1.mem = M1
  BY <1>3
<1>6. Removal(qa, S, V) = [item_count |-> qa.item_count - Cardinality(V),
                           cursor |-> IF e2 < c THEN e2 ELSE c,
                           mem |-> IF e2 < c THEN {e \in m : e.pos < e2} ELSE m]
  BY <1>1, RemovalForm, Zenon
<1> HIDE DEF q1, R
<1>7. Removal(q1, R, W) = [item_count |-> q1.item_count - Cardinality(W),
                           cursor |-> IF e2 < c1 THEN e2 ELSE c1,
                           mem |-> IF e2 < c1 THEN {e \in m2 : e.pos < e2} ELSE m2]
  <2> DEFINE end == end_of(Used(R) \ W)
             mm == clear_used(q1.mem, W)
  <2>1. Removal(q1, R, W) = [item_count |-> q1.item_count - Cardinality(W),
                           cursor |-> IF end < q1.cursor THEN end ELSE q1.cursor,
                           mem |-> IF end < q1.cursor THEN {e \in mm : e.pos < end} ELSE mm]
    <3>1. W \subseteq Used(R) BY <1>1, <1>4
    <3> QED BY <1>4, <3>1, RemovalForm, Zenon
  <2>2. end = e2 /\ mm = m2 BY <1>1, <1>4, <1>5
  <2> HIDE DEF end, mm, e2, m2, c1
  <2> QED BY <1>5, <2>1, <2>2
<1>8. /\ e1 \in Nat /\ e2 \in Nat /\ e2 <= e1 /\ \A w \in W : w.pos < e1
  <2> DEFINE B == Used(S) \ one
             A == Used(S) \ V
  <2>1. B \subseteq S /\ A \subseteq B /\ W \subseteq B BY <1>1
  <2> HIDE DEF A, B
  <2>2. end_of(A) \in Nat /\ end_of(B) \in Nat /\ end_of(A) <= end_of(B)
        /\ \A w \in B : w.pos < end_of(B)
    BY <1>1, <2>1, EndOfSome
  <2> QED BY <2>1, <2>2, Zenon DEF A, B
<1>9. q1.item_count - Cardinality(W) = qa.item_count - Cardinality(V)
  <2>1. IsFiniteSet(V) /\ qa.item_count \in Nat BY UsedFacts, FS_Subset DEF Queue
  <2>2. Cardinality(one) = 1 BY FS_Singleton DEF one
  <2>3. Cardinality(W) = Cardinality(V) - 1 BY <2>1, FS_RemoveElement, Zenon DEF W, one
  <2>4. Cardinality(V) \in Nat BY <2>1, FS_CardinalityType
  <2> QED BY <1>5, <2>1, <2>2, <2>3, <2>4
<1>10. clear_used(m1, W) = m
  BY <1>1, ClearTwice DEF W, one
<1>11. \A e \in m : e.pos \in Nat
  <2> DEFINE qc == [item_count |-> 0, cursor |-> qa.cursor, mem |-> m]
  <2>1. qc.cursor = qa.cursor /\ qc.mem = clear_used(qa.mem, V) OBVIOUS
  <2> HIDE DEF qc
  <2>2. Layout(qc, Holes(S, V)) BY <1>1, <2>1, ClearLayout
  <2> QED BY <2>1, <2>2 DEF Layout, Sound
<1>12. m2 = IF e1 < c THEN {e \in m : e.pos < e1} ELSE m
  <2>1. CASE e1 < c
    <3>1. clear_used({e \in m1 : e.pos < e1}, W) = {e \in clear_used(m1, W) : e.pos < e1}
      <4> HIDE DEF m1, e1
      <4>1. \A w \in W : w.pos < e1 BY <1>8
      <4> QED BY <4>1, ClearBelow
    <3> QED BY <1>10, <2>1, <3>1, Zenon
  <2>2. CASE ~(e1 < c) BY <1>10, <2>2
  <2> QED BY <2>1, <2>2
<1> HIDE DEF e1, e2, m, m2, c, c1
<1>13. (IF e2 < c1 THEN e2 ELSE c1) = (IF e2 < c THEN e2 ELSE c) BY <1>2, <1>8 DEF c1
<1>14. (IF e2 < c1 THEN {e \in m2 : e.pos < e2} ELSE m2)
         = (IF e2 < c THEN {e \in m : e.pos < e2} ELSE m)
  <2>1. CASE e1 < c
    <3>1. c1 = e1 /\ e2 < c /\ m2 = {e \in m : e.pos < e1} BY <1>2, <1>8, <1>12, <2>1 DEF c1
    <3>2. {e \in m2 : e.pos < e2} = {e \in m : e.pos < e2} BY <1>8, <1>11, <3>1
    <3>3. CASE e2 < e1 BY <3>1, <3>2, <3>3
    <3>4. CASE e2 = e1 BY <1>8, <3>1, <3>4
    <3> QED BY <1>8, <3>3, <3>4
  <2>2. CASE ~(e1 < c) BY <1>12, <2>2 DEF c1
  <2> QED BY <2>1, <2>2
<1>15. Removal(q1, R, W) = Removal(qa, S, V)
  <2> DEFINE ma == IF e2 < c1 THEN {e \in m2 : e.pos < e2} ELSE m2
             mb == IF e2 < c THEN {e \in m : e.pos < e2} ELSE m
             ca == IF e2 < c1 THEN e2 ELSE c1
             cb == IF e2 < c THEN e2 ELSE c
             na == q1.item_count - Cardinality(W)
             nb == qa.item_count - Cardinality(V)
  <2>1. Removal(q1, R, W) = [item_count |-> na, cursor |-> ca, mem |-> ma] BY <1>7
  <2>2. Removal(qa, S, V) = [item_count |-> nb, cursor |-> cb, mem |-> mb] BY <1>6
  <2>3. na = nb /\ ca = cb /\ ma = mb BY <1>9, <1>13, <1>14
  <2> HIDE DEF ma, mb, ca, cb, na, nb
  <2> QED BY <2>1, <2>2, <2>3
<1> QED BY <1>15, Zenon DEF q1, R, W, one

-----------------------------------------------------------------------------
\* What every step does, and the theorems.

\* Between two operations the account is a queue, and an index just returned finds its item.
QInv ==
  /\ Queue(q, scan_items(q))
  /\ ret \in [ok : BOOLEAN, id : Ids \union {None}, index : 0 .. Cardinality(Ids)]
  /\ ReturnedIndexFindsItem

\* A freshly initialised account is an empty queue.
LEMMA InitQueue == Init => QInv
<1> SUFFICES ASSUME Init PROVE QInv OBVIOUS
<1>1. q.item_count = 0 /\ q.cursor = items_start /\ q.mem = {} BY DEF Init
<1>2. q = [item_count |-> q.item_count, cursor |-> q.cursor, mem |-> q.mem] BY DEF Init
<1>3. items_start \in items_start .. AccLen BY StartType, LayoutAssumption
<1>4. Layout(q, {}) BY <1>1, <1>3, FS_EmptySet DEF Layout, Sound
<1>5. Used({}) = {} BY DEF Used
<1>6. Queue(q, {}) BY <1>1, <1>2, <1>4, <1>5, FS_EmptySet DEF Queue, Trimmed, Distinct
<1>7. scan_items(q) = {} BY <1>6, UsedFacts
<1>8. ret = [ok |-> TRUE, id |-> None, index |-> 0] /\ call.op # "add" BY DEF Init
<1>9. Cardinality(Ids) \in Nat BY LayoutAssumption, FS_CardinalityType
<1>10. ret \in [ok : BOOLEAN, id : Ids \union {None}, index : 0 .. Cardinality(Ids)]
  BY <1>8, <1>9
<1> QED BY <1>6, <1>7, <1>8, <1>10 DEF QInv, ReturnedIndexFindsItem

\* What a call has done to the used items S, when those of T are left, and what it
\* returned: add_item_with_id, remove_item, remove_items_matching and the refusals.
Added(S, T, id, shape, n) ==
  /\ call' = AddCall(id, shape)
  /\ n.item.id = id /\ ItemShape(n.item) = shape
  /\ id \notin {v.item.id : v \in Used(S)}
  /\ Used(T) = Used(S) \union {n}
  /\ ret' = [ok |-> TRUE, id |-> id, index |-> logical_index(q', n)]

AddFailed(S, T, id, shape) ==
  /\ call' = AddCall(id, shape)
  /\ Used(T) = Used(S)
  /\ ret' = [ok |-> FALSE, id |-> id, index |-> 0]

Taken(S, T, index, v) ==
  /\ call' = RemoveCall(index)
  /\ logical_index(q, v) = index
  /\ Used(T) = Used(S) \ {v}
  /\ ret' = [ok |-> TRUE, id |-> v.item.id, index |-> 0]

NothingAt(S, T, index) ==
  /\ call' = RemoveCall(index)
  /\ \A v \in Used(S) : logical_index(q, v) # index
  /\ Used(T) = Used(S)
  /\ ret' = [ok |-> FALSE, id |-> None, index |-> 0]

Purged(S, T, gone) ==
  /\ call' = PurgeCall(gone)
  /\ Used(T) = {v \in Used(S) : v.item.id \notin gone}
  /\ ret' = [ok |-> TRUE, id |-> None, index |-> 0]

Done(S, T) ==
  \/ \E id \in Ids, shape \in Shapes :
       (\E n \in Used(T) : Added(S, T, id, shape, n)) \/ AddFailed(S, T, id, shape)
  \/ \E index \in 0 .. Cardinality(Ids) :
       (\E v \in Used(S) : Taken(S, T, index, v)) \/ NothingAt(S, T, index)
  \/ \E gone \in SUBSET {v.item.id : v \in Used(S)} : Purged(S, T, gone)

Returns == [ok : BOOLEAN, id : Ids \union {None}, index : 0 .. Cardinality(Ids)]

\* Every operation leaves a queue, and has done to it exactly what it was called for.
LEMMA StepQueue ==
  ASSUME NEW S, Queue(q, S), Next
  PROVE  /\ \E T : Queue(q', T) /\ Done(S, T)
         /\ ret' \in Returns
         /\ ReturnedIndexFindsItem'
<1> DEFINE Goal == /\ \E T : Queue(q', T) /\ Done(S, T)
                   /\ ret' \in Returns
                   /\ ReturnedIndexFindsItem'
<1>1. scan_items(q) = S /\ used_items(q) = Used(S) BY UsedFacts
<1>2. LiveIds = {v.item.id : v \in Used(S)} BY <1>1 DEF LiveIds
<1>3. trim_trailing_holes(q) = q BY NothingToTrim DEF Queue
<1>4. 0 \in 0 .. Cardinality(Ids) BY LayoutAssumption, FS_CardinalityType
<1>5. ASSUME NEW id \in Ids \ LiveIds, NEW shape \in Shapes,
             ReuseHole(id, shape) \/ AppendItem(id, shape)
      PROVE  Goal
  <2>1. PICK T, n : /\ Queue(q', T) /\ Used(T) = Used(S) \union {n} /\ n \notin Used(S)
                    /\ n.item.id = id /\ ItemShape(n.item) = shape
                    /\ ret' = [ok |-> TRUE, id |-> id, index |-> ret'.index]
                    /\ ret'.index \in 0 .. Cardinality(Ids)
                    /\ find_item_by_id(q', id) = {n} /\ get_item_by_index(q', ret'.index) = {n}
    <3>1. id \in Ids \ {v.item.id : v \in Used(S)} BY <1>2
    <3> QED BY <1>5, <3>1, AddItem
  <2>2. n \in Used(T) /\ id \notin {v.item.id : v \in Used(S)} BY <1>2, <2>1
  <2>3. call' = AddCall(id, shape) BY <1>5 DEF ReuseHole, AppendItem
  <2>4. ret'.index = logical_index(q', n) BY <2>1 DEF get_item_by_index
  <2>5. Added(S, T, id, shape, n) BY <2>1, <2>2, <2>3, <2>4, Zenon DEF Added
  <2>6. Done(S, T) BY <2>2, <2>5 DEF Done
  <2>7. ret' \in Returns
    <3> DEFINE i == ret'.index
    <3>1. ret' = [ok |-> TRUE, id |-> id, index |-> i] /\ i \in 0 .. Cardinality(Ids) BY <2>1
    <3> HIDE DEF i
    <3> QED BY <3>1 DEF Returns
  <2>8. ret'.id = id BY <2>1
  <2>9. ReturnedIndexFindsItem' BY <2>1, <2>8 DEF ReturnedIndexFindsItem
  <2> QED BY <2>1, <2>6, <2>7, <2>9
<1>6. ASSUME NEW id \in Ids \ LiveIds, NEW shape \in Shapes, AddRefused(id, shape)
      PROVE  Goal
  <2>1. /\ q' = q /\ ret' = [ok |-> FALSE, id |-> id, index |-> 0]
        /\ call' = AddCall(id, shape)
    BY <1>3, <1>6 DEF AddRefused, Failed
  <2>2. ReturnedIndexFindsItem' BY <2>1 DEF ReturnedIndexFindsItem
  <2>3. Done(S, S) BY <2>1 DEF Done, AddFailed
  <2>4. ret' \in Returns BY <1>4, <2>1 DEF Returns
  <2> QED BY <2>1, <2>2, <2>3, <2>4
<1>7. ASSUME NEW index \in 0 .. Cardinality(Ids), RemoveItem(index) PROVE Goal
  <2>1. PICK v \in Used(S) : /\ q' = remove_item(q, v) /\ logical_index(q, v) = index
                             /\ ret' = [ok |-> TRUE, id |-> v.item.id, index |-> 0]
    BY <1>1, <1>7 DEF RemoveItem, get_item_by_index
  <2>2. call' = RemoveCall(index) BY <1>7 DEF RemoveItem
  <2> DEFINE V == {v}
             T == Remaining(S, V)
  <2>3. q' = Removal(q, S, V) BY <2>1, RemoveItemIs
  <2>4. V \subseteq Used(S) OBVIOUS
  <2> HIDE DEF V
  <2>5. Queue(q', T) /\ Used(T) = Used(S) \ V BY <2>3, <2>4, RemoveQueue
  <2> HIDE DEF T
  <2>6. Taken(S, T, index, v) BY <2>1, <2>2, <2>5 DEF Taken, V
  <2>7. Done(S, T) BY <2>6 DEF Done
  <2>8. v.item.id \in Ids BY DEF Queue, Layout, Placed, Item, Used
  <2>9. ret' \in Returns BY <1>4, <2>1, <2>8 DEF Returns
  <2>10. ReturnedIndexFindsItem' BY <2>2 DEF ReturnedIndexFindsItem, RemoveCall
  <2> QED BY <2>5, <2>7, <2>9, <2>10
<1>8. ASSUME NEW index \in 0 .. Cardinality(Ids), RemoveRefused(index) PROVE Goal
  <2>1. /\ q' = q /\ ret' = [ok |-> FALSE, id |-> None, index |-> 0]
        /\ call' = RemoveCall(index)
    BY <1>8 DEF RemoveRefused, Failed
  <2>2. \A v \in Used(S) : logical_index(q, v) # index
    BY <1>1, <1>8 DEF RemoveRefused, get_item_by_index
  <2>3. ReturnedIndexFindsItem' BY <2>1 DEF ReturnedIndexFindsItem
  <2>4. Done(S, S) BY <2>1, <2>2 DEF Done, NothingAt
  <2>5. ret' \in Returns BY <1>4, <2>1 DEF Returns
  <2> QED BY <2>1, <2>3, <2>4, <2>5
<1>9. ASSUME NEW gone \in SUBSET LiveIds, RemoveMatching(gone) PROVE Goal
  <2> DEFINE V == {v \in Used(S) : v.item.id \in gone}
             T == Remaining(S, V)
  <2>1. q' = Removal(q, S, V) BY <1>9, RemoveMatchingIs DEF RemoveMatching
  <2>2. ret' = [ok |-> TRUE, id |-> None, index |-> 0] /\ call' = PurgeCall(gone)
    BY <1>9 DEF RemoveMatching
  <2>3. V \subseteq Used(S) OBVIOUS
  <2>4. Used(S) \ V = {v \in Used(S) : v.item.id \notin gone} OBVIOUS
  <2> HIDE DEF V
  <2>5. Queue(q', T) /\ Used(T) = Used(S) \ V BY <2>1, <2>3, RemoveQueue
  <2> HIDE DEF T
  <2>6. Purged(S, T, gone) BY <2>2, <2>4, <2>5 DEF Purged
  <2>7. gone \in SUBSET {v.item.id : v \in Used(S)} BY <1>2
  <2>8. Done(S, T) BY <2>6, <2>7 DEF Done
  <2>9. ret' \in Returns BY <1>4, <2>2 DEF Returns
  <2>10. ReturnedIndexFindsItem' BY <2>2 DEF ReturnedIndexFindsItem, PurgeCall
  <2> QED BY <2>5, <2>8, <2>9, <2>10
<1> HIDE DEF Goal
<1>10. Goal BY <1>5, <1>6, <1>7, <1>8, <1>9 DEF Next
<1> QED BY <1>10 DEF Goal

\* Every step keeps the invariant.
LEMMA NextQInv == QInv /\ [Next]_vars => QInv'
<1> SUFFICES ASSUME QInv, [Next]_vars PROVE QInv' OBVIOUS
<1>1. CASE Next
  <2>1. PICK T : Queue(q', T) BY <1>1, StepQueue DEF QInv
  <2>2. scan_items(q') = T BY <2>1, UsedFacts
  <2>3. /\ ret' \in [ok : BOOLEAN, id : Ids \union {None}, index : 0 .. Cardinality(Ids)]
        /\ ReturnedIndexFindsItem'
    BY <1>1, StepQueue DEF QInv, Returns
  <2> QED BY <2>1, <2>2, <2>3 DEF QInv
<1>2. CASE UNCHANGED vars BY <1>2 DEF vars, QInv, ReturnedIndexFindsItem
<1> QED BY <1>1, <1>2

\* The invariant, always.
LEMMA AlwaysQInv == Spec => []QInv
BY InitQueue, NextQInv, PTL DEF Spec

\* The header fields and every byte written stay in range: no add ever writes over the
\* queue header or beyond the account (add_item_with_id).
THEOREM QueueTypeOK == Spec => []TypeOK
<1>1. QInv => TypeOK
  <2> SUFFICES ASSUME QInv PROVE TypeOK OBVIOUS
  <2> DEFINE S == scan_items(q)
  <2>1. Queue(q, S) BY DEF QInv
  <2> HIDE DEF S
  <2>2. q.item_count \in 0 .. Cardinality(Ids)
    <3>1. Cardinality(Ids) \in Nat BY LayoutAssumption, FS_CardinalityType
    <3>2. q.item_count \in Nat /\ q.item_count <= Cardinality(Ids) BY <2>1, UsedFacts DEF Queue
    <3> QED BY <3>1, <3>2
  <2> QED BY <2>1, <2>2 DEF QInv, TypeOK, Queue, Layout
<1> QED BY <1>1, AlwaysQInv, PTL

\* scan_items never reads the middle of a payload as an item, and stops at the cursor,
\* whatever holes have been reused and trimmed.
THEOREM WalkReadsWholeItemsThm == Spec => []WalkReadsWholeItems
<1>1. QInv => WalkReadsWholeItems
  <2> SUFFICES ASSUME QInv PROVE WalkReadsWholeItems OBVIOUS
  <2> DEFINE S == scan_items(q)
  <2>1. Layout(q, S) BY DEF QInv, Queue
  <2> HIDE DEF S
  <2>2. ASSUME NEW v \in S PROVE v.item # NoItem
    <3>1. v.item.disc_off = v.pos + ItemSize /\ v.pos \in Nat BY <2>1, LayoutFacts DEF Placed
    <3>2. ItemSize \in Nat \ {0} BY LayoutAssumption
    <3>3. NoItem.disc_off = 0 BY DEF NoItem
    <3>4. v.item.disc_off # 0 BY <3>1, <3>2
    <3> QED BY <3>3, <3>4
  <2>3. end_of(S) = align_up(q.cursor) BY <2>1, EndOfLayout
  <2> QED BY <2>2, <2>3 DEF WalkReadsWholeItems, S
<1> QED BY <1>1, AlwaysQInv, PTL

\* header.item_count counts the used items and no hole lies behind the last of them,
\* after any sequence of adds, removals and purges.
THEOREM HeaderMatchesItemsThm == Spec => []HeaderMatchesItems
<1>1. QInv => HeaderMatchesItems
  <2> SUFFICES ASSUME QInv PROVE HeaderMatchesItems OBVIOUS
  <2> DEFINE S == scan_items(q)
  <2>1. Queue(q, S) BY DEF QInv
  <2>2. used_items(q) = Used(S) BY <2>1, UsedFacts
  <2>3. end_of(Used(S)) = end_of(S) BY <2>1, NothingToTrim DEF Queue
  <2> QED BY <2>1, <2>2, <2>3 DEF HeaderMatchesItems, Queue
<1> QED BY <1>1, AlwaysQInv, PTL

\* The index an add returns is the one under which get_item_by_index finds the item.
THEOREM ReturnedIndexFindsItemThm == Spec => []ReturnedIndexFindsItem
<1>1. QInv => ReturnedIndexFindsItem BY DEF QInv
<1> QED BY <1>1, AlwaysQInv, PTL

\* An account that holds no request refuses none for want of room that a fresh account
\* takes: no fragmentation outlives the requests that caused it (trim_trailing_holes).
THEOREM RefusedOnlyWhenOccupiedThm == Spec => RefusedOnlyWhenOccupied
<1>1. ASSUME QInv, NEW id \in Ids, NEW shape \in Shapes,
             q.item_count = 0, ~ArgumentSizeTooLarge(shape), fits(items_start, shape)
      PROVE  ~AddRefused(id, shape)
  <2> DEFINE S == scan_items(q)
  <2>1. Queue(q, S) BY <1>1 DEF QInv
  <2> HIDE DEF S
  <2>2. trim_trailing_holes(q) = q /\ scan_items(q) = S
    BY <2>1, NothingToTrim, UsedFacts DEF Queue
  <2>3. Used(S) = {}
    <3>1. IsFiniteSet(Used(S)) /\ Cardinality(Used(S)) = 0 BY <1>1, <2>1, UsedFacts DEF Queue
    <3> QED BY <3>1, FS_EmptySet
  <2>4. S = {}
    <3>1. S # {} => \E v \in S : v.next >= q.cursor BY <2>1, EndOfLayout DEF Queue
    <3> QED BY <2>1, <2>3, <3>1 DEF Queue, Trimmed, Used
  <2>5. q.cursor = items_start BY <2>1, <2>4 DEF Queue, Layout
  <2>6. align_up(q.cursor) = items_start BY <2>5, StartType, AlignFixed
  <2>7. reusable_spans(q, shape) = {} BY <2>2, <2>4 DEF reusable_spans
  <2> QED BY <1>1, <2>2, <2>6, <2>7 DEF AddRefused
<1>2. QInv => \A id \in Ids, shape \in Shapes :
                q.item_count = 0 /\ ~ArgumentSizeTooLarge(shape) /\ fits(items_start, shape)
                  => ~AddRefused(id, shape)
  BY <1>1
<1> QED BY <1>2, AlwaysQInv, PTL DEF RefusedOnlyWhenOccupied

\* purge_expired_requests and remove_item agree: one pass over the account leaves the
\* bytes, the count and the cursor that removing the same requests one by one leaves.
THEOREM PurgeMatchesRemovalsThm == Spec => []PurgeMatchesRemovals
<1>1. QInv => PurgeMatchesRemovals
  <2> SUFFICES ASSUME QInv PROVE PurgeMatchesRemovals OBVIOUS
  <2> DEFINE S == scan_items(q)
  <2>1. Queue(q, S) BY DEF QInv
  <2> HIDE DEF S
  <2>2. used_items(q) = Used(S) BY <2>1, UsedFacts
  <2>3. remove_items_matching(q, {}) = q
    <3> DEFINE V == {v \in Used(S) : v.item.id \in {}}
               end == end_of(Used(S) \ V)
               m == clear_used(q.mem, V)
    <3>1. V = {} /\ Used(S) \ V = Used(S) /\ Cardinality(V) = 0 BY FS_EmptySet
    <3>2. m = q.mem BY <3>1 DEF clear_used
    <3>3. end >= q.cursor /\ end \in Nat /\ q.cursor \in Nat
      <4>1. end = align_up(q.cursor) BY <2>1, <3>1, NothingToTrim, EndOfLayout DEF Queue
      <4>2. q.cursor \in Nat BY <2>1, StartType, LayoutAssumption DEF Queue, Layout
      <4> QED BY <4>1, <4>2, AlignUp
    <3>4. remove_items_matching(q, {}) = Removal(q, S, V) BY <2>1, RemoveMatchingIs
    <3>5. V \subseteq Used(S) OBVIOUS
    <3> HIDE DEF V
    <3>6. Removal(q, S, V) = [item_count |-> q.item_count - Cardinality(V),
                              cursor |-> IF end < q.cursor THEN end ELSE q.cursor,
                              mem |-> IF end < q.cursor THEN {e \in m : e.pos < end} ELSE m]
      BY <2>1, <3>5, RemovalForm, Zenon
    <3>7. q.item_count \in Nat BY <2>1, UsedFacts DEF Queue
    <3> HIDE DEF end, m
    <3>8. Removal(q, S, V) = [item_count |-> q.item_count, cursor |-> q.cursor, mem |-> q.mem]
      BY <3>1, <3>2, <3>3, <3>6, <3>7
    <3> QED BY <2>1, <3>4, <3>8 DEF Queue
  <2>4. ASSUME NEW gone \in SUBSET LiveIds, NEW id \in gone, NEW v \in find_item_by_id(q, id)
        PROVE  remove_items_matching(q, gone)
                 = remove_items_matching(remove_item(q, v), gone \ {id})
    <3> DEFINE V == {u \in Used(S) : u.item.id \in gone}
               q1 == Removal(q, S, {v})
               R == Remaining(S, {v})
               V1 == {u \in Used(R) : u.item.id \in gone \ {id}}
    <3>1. v \in Used(S) /\ v.item.id = id BY <2>2, <2>4 DEF find_item_by_id
    <3>2. remove_item(q, v) = q1 BY <2>1, <3>1, RemoveItemIs
    <3>3. remove_items_matching(q, gone) = Removal(q, S, V) BY <2>1, RemoveMatchingIs
    <3>4. Queue(q1, R) /\ Used(R) = Used(S) \ {v}
      <4> DEFINE one == {v}
      <4>1. one \subseteq Used(S) BY <3>1
      <4> HIDE DEF one
      <4>2. Queue(Removal(q, S, one), Remaining(S, one)) /\ Used(Remaining(S, one)) = Used(S) \ one
        BY <2>1, <4>1, RemoveQueue
      <4> QED BY <4>2, Zenon DEF one
    <3>5. V1 = V \ {v} BY <2>1, <3>1, <3>4, Zenon DEF Queue, Distinct
    <3>6. v \in V /\ V \subseteq Used(S) BY <3>1
    <3> HIDE DEF V, q1, R
    <3>7. remove_items_matching(q1, gone \ {id}) = Removal(q1, R, V1) BY <3>4, RemoveMatchingIs
    <3>8. Removal(Removal(q, S, {v}), Remaining(S, {v}), V \ {v}) = Removal(q, S, V)
      BY <2>1, <3>6, RemoveOneFirst
    <3> QED BY <3>2, <3>3, <3>5, <3>7, <3>8, Zenon DEF q1, R
  <2> QED BY <2>3, <2>4 DEF PurgeMatchesRemovals
<1> QED BY <1>1, AlwaysQInv, PTL

\* What is read back for a used item.
Request(v) == [at |-> v.pos, id |-> v.item.id, shape |-> ItemShape(v.item), intact |-> TRUE]

\* What is read back for the used items of a queue.
LEMMA QueueContents ==
  ASSUME NEW qa, NEW S, Queue(qa, S)
  PROVE  Contents(qa) = {Request(v) : v \in Used(S)}
<1>1. used_items(qa) = Used(S) BY UsedFacts
<1>2. ASSUME NEW v \in Used(S) PROVE ReadBack(qa, v) = Request(v)
  <2>1. Intact(qa.mem, v.item) BY DEF Queue, Layout, Stored, Used
  <2> DEFINE Whole ==
        /\ \/ v.item.disc_len = 0
           \/ [pos |-> v.item.disc_off, len |-> v.item.disc_len,
               val |-> <<"disc", v.item.id>>] \in qa.mem
        /\ \/ v.item.metas_len * MetaSize = 0
           \/ [pos |-> v.item.metas_off, len |-> v.item.metas_len * MetaSize,
               val |-> <<"metas", v.item.id>>] \in qa.mem
        /\ \/ v.item.args_len = 0
           \/ [pos |-> v.item.args_off, len |-> v.item.args_len,
               val |-> <<"args", v.item.id>>] \in qa.mem
  <2>2. ReadBack(qa, v) = [at |-> v.pos, id |-> v.item.id, shape |-> ItemShape(v.item),
                           intact |-> Whole]
    BY DEF ReadBack, ItemShape
  <2>3. Whole = TRUE BY <2>1, Zenon DEF Intact
  <2> HIDE DEF Whole
  <2> QED BY <2>2, <2>3 DEF Request
<1> QED BY <1>1, <1>2, Zenon DEF Contents

\* The list counts as the account does.
LEMMA SameCardinality == \A X : Abstract!Cardinality(X) = Cardinality(X)
BY DEF Abstract!Cardinality, Cardinality

\* Every used item is read back as a request of its own, and the used items before it as
\* the requests before it: the index in the list is the logical index of scan_items.
LEMMA ContentsIndex ==
  ASSUME NEW qa, NEW S, Queue(qa, S), NEW v \in Used(S)
  PROVE  /\ \A u \in Used(S) : Request(u) = Request(v) => u = v
         /\ \A u \in Used(S) : Request(u).at = Request(v).at => u = v
         /\ Abstract!Index(Contents(qa), Request(v)) = logical_index(qa, v)
<1>1. used_items(qa) = Used(S) /\ IsFiniteSet(Used(S)) BY UsedFacts
<1>2. Contents(qa) = {Request(u) : u \in Used(S)} BY QueueContents
<1>3. \A u \in Used(S) : Request(u).at = u.pos /\ Request(u).id = u.item.id BY DEF Request
<1>4. \A u, w \in Used(S) : Request(u) = Request(w) => u = w
  <2>1. \A u, w \in Used(S) : u.item.id = w.item.id => u = w BY DEF Queue, Distinct
  <2> QED BY <1>3, <2>1, Zenon
<1>5. ASSUME NEW u \in Used(S), Request(u).at = Request(v).at PROVE u = v
  <2>1. u \in S /\ v \in S /\ u.pos = v.pos BY <1>3, <1>5 DEF Used
  <2>2. /\ u.pos \in Nat /\ u.next \in Nat /\ v.next \in Nat /\ u.pos < u.next /\ v.pos < v.next
        /\ (u = v \/ u.next <= v.pos \/ v.next <= u.pos)
    BY <2>1, LayoutFacts DEF Queue
  <2> QED BY <2>1, <2>2
<1> DEFINE A == {p \in Contents(qa) : p.at < Request(v).at}
           B == {u \in Used(S) : u.pos < v.pos}
           f == [u \in B |-> Request(u)]
<1>6. \A u \in Used(S) : Request(u) \in A <=> u \in B BY <1>2, <1>3
<1>7. \A p \in A : \E u \in B : p = Request(u) BY <1>2, <1>6
<1>8. IsFiniteSet(B) BY <1>1, FS_Subset
<1>9. B \subseteq Used(S) OBVIOUS
<1> HIDE DEF A, B
<1>10. f \in Bijection(B, A)
  <2>1. f \in [B -> A] BY <1>6, <1>9
  <2>2. \A u, w \in B : f[u] = f[w] => u = w BY <1>4, <1>9
  <2>3. \A p \in A : \E u \in B : f[u] = p BY <1>7
  <2> HIDE DEF f
  <2> QED BY <2>1, <2>2, <2>3 DEF Bijection, Injection, IsInjective, Surjection
<1>11. ExistsBijection(B, A) BY <1>10 DEF ExistsBijection
<1>12. Cardinality(A) = Cardinality(B) BY <1>8, <1>11, FS_Bijection
<1>13. Abstract!Index(Contents(qa), Request(v)) = Cardinality(A)
  BY SameCardinality, Zenon DEF Abstract!Index, A
<1>14. logical_index(qa, v) = Cardinality(B) BY <1>1 DEF logical_index, B
<1> QED BY <1>4, <1>5, <1>12, <1>13, <1>14

\* The account is a list of requests, and every call does to it exactly what it was asked
\* to: an add stores one request, its payload whole, at the index it returns; a removal
\* takes the request at its index, and a purge the ones it selects, whatever holes there
\* are; a refused call changes nothing; and what is read back, at any offset, of any other
\* request stays as it is.
THEOREM ImplementsMapThm == Spec => ImplementsMap
<1>1. Init => Abstract!Init
  <2> SUFFICES ASSUME Init PROVE Contents(q) = {}
    BY DEF Init, Abstract!Init, None, Abstract!None
  <2>1. Queue(q, scan_items(q)) /\ q.item_count = 0 BY InitQueue DEF QInv, Init
  <2>2. Used(scan_items(q)) = {}
    <3>1. IsFiniteSet(Used(scan_items(q))) BY <2>1, UsedFacts
    <3> QED BY <2>1, <3>1, FS_EmptySet, Zenon DEF Queue
  <2> QED BY <2>1, <2>2, QueueContents
<1>2. QInv /\ [Next]_vars => [Abstract!Next]_(Abstract!vars)
  <2> SUFFICES ASSUME QInv, [Next]_vars PROVE [Abstract!Next]_(Abstract!vars) OBVIOUS
  <2>1. CASE UNCHANGED vars
    <3>1. q' = q /\ call' = call /\ ret' = ret BY <2>1 DEF vars
    <3>2. Contents(q)' = Contents(q) BY <3>1
    <3> QED BY <3>1, <3>2 DEF Abstract!vars
  <2>2. CASE Next
    <3> DEFINE S == scan_items(q)
               C == Contents(q)
               D == Contents(q)'
               Live == {v.item.id : v \in Used(S)}
    <3>1. Queue(q, S) BY DEF QInv
    <3>2. PICK T : Queue(q', T) /\ Done(S, T) BY <2>2, <3>1, StepQueue
    <3> HIDE DEF S
    <3>3. C = {Request(v) : v \in Used(S)} BY <3>1, QueueContents
    <3>4. D = {Request(v) : v \in Used(T)} BY <3>2, QueueContents
    <3>5. Abstract!IdsOf(C) = Live
      <4>1. \A v : Request(v).id = v.item.id BY DEF Request
      <4> QED BY <3>3, <4>1 DEF Abstract!IdsOf
    <3>6. Used(T) = Used(S) => D = C BY <3>3, <3>4
    <3> HIDE DEF C, D
    <3>7. ASSUME NEW id \in Ids, NEW shape \in Shapes, NEW n \in Used(T),
                 Added(S, T, id, shape, n)
          PROVE  Abstract!Add(id, shape)
      <4> DEFINE r == Request(n)
      <4>1. r \in D /\ r.id = id /\ r = [at |-> r.at, id |-> id, shape |-> shape, intact |-> TRUE]
        BY <3>4, <3>7 DEF Request, Added
      <4>2. id \notin Abstract!IdsOf(C) BY <3>5, <3>7 DEF Added
      <4>3. D = C \union {r} BY <3>3, <3>4, <3>7 DEF Added
      <4>4. n \notin Used(S) BY <3>7 DEF Added
      <4>5. \A p \in C : p.at # r.at
        <5>1. \A v \in Used(S) : Request(v).at # r.at
          BY <3>2, <3>7, <4>4, ContentsIndex DEF Added
        <5> QED BY <3>3, <5>1
      <4>6. Abstract!Index(D, r) = logical_index(q', n) BY <3>2, ContentsIndex DEF D
      <4>7. ret' = [ok |-> TRUE, id |-> id, index |-> Abstract!Index(D, r)]
        BY <3>7, <4>6 DEF Added
      <4>8. call' = [op |-> "add", id |-> id, shape |-> shape] BY <3>7 DEF Added, AddCall
      <4> HIDE DEF r
      <4> QED BY <4>1, <4>2, <4>3, <4>5, <4>7, <4>8, Zenon DEF Abstract!Add, C, D
    <3>8. ASSUME NEW id \in Ids, NEW shape \in Shapes, AddFailed(S, T, id, shape)
          PROVE  Abstract!RefuseAdd(id, shape)
      BY <3>6, <3>8 DEF AddFailed, AddCall, Abstract!RefuseAdd, C, D
    <3>9. ASSUME NEW index \in 0 .. Cardinality(Ids), NEW v \in Used(S), Taken(S, T, index, v)
          PROVE  Abstract!Remove(index)
      <4> DEFINE r == Request(v)
      <4>1. r \in C /\ r.id = v.item.id BY <3>3 DEF Request
      <4>2. Abstract!Index(C, r) = index BY <3>1, <3>9, ContentsIndex DEF Taken, C
      <4>3. \A u \in Used(S) : Request(u) = r => u = v BY <3>1, ContentsIndex
      <4> HIDE DEF r
      <4>4. D = C \ {r}
        <5>1. Used(T) = Used(S) \ {v} BY <3>9 DEF Taken
        <5> QED BY <3>3, <3>4, <4>3, <5>1 DEF r
      <4>5. ret' = [ok |-> TRUE, id |-> r.id, index |-> 0] /\ call' = [op |-> "remove", index |-> index]
        BY <3>9, <4>1 DEF Taken, RemoveCall
      <4> QED BY <4>1, <4>2, <4>4, <4>5, Zenon DEF Abstract!Remove, C, D
    <3>10. ASSUME NEW index \in 0 .. Cardinality(Ids), NothingAt(S, T, index)
           PROVE  Abstract!RefuseRemove(index)
      <4>1. \A r \in C : Abstract!Index(C, r) # index
        <5>1. \A v \in Used(S) : Abstract!Index(C, Request(v)) # index
          BY <3>1, <3>10, ContentsIndex DEF NothingAt, C
        <5> QED BY <3>3, <5>1
      <4> QED BY <3>6, <3>10, <4>1
          DEF NothingAt, RemoveCall, None, Abstract!None, Abstract!RefuseRemove, C, D
    <3>11. ASSUME NEW gone \in SUBSET Live, Purged(S, T, gone)
           PROVE  Abstract!Purge(gone)
      <4>1. D = {r \in C : r.id \notin gone}
        <5>1. \A v : Request(v).id = v.item.id BY DEF Request
        <5>2. Used(T) = {v \in Used(S) : v.item.id \notin gone} BY <3>11 DEF Purged
        <5> QED BY <3>3, <3>4, <5>1, <5>2
      <4>2. /\ call' = [op |-> "purge", gone |-> gone]
            /\ ret' = [ok |-> TRUE, id |-> Abstract!None, index |-> 0]
        BY <3>11 DEF Purged, PurgeCall, None, Abstract!None
      <4> QED BY <4>1, <4>2, Zenon DEF Abstract!Purge, C, D
    <3>12. Abstract!IdsOf(Contents(q)) = Live BY <3>5 DEF C
    <3>13. 0 .. Abstract!Cardinality(Ids) = 0 .. Cardinality(Ids) BY SameCardinality
    <3>14. Abstract!Next <=>
             \/ \E id \in Ids, shape \in Shapes :
                  Abstract!Add(id, shape) \/ Abstract!RefuseAdd(id, shape)
             \/ \E index \in 0 .. Cardinality(Ids) :
                  Abstract!Remove(index) \/ Abstract!RefuseRemove(index)
             \/ \E gone \in SUBSET Live : Abstract!Purge(gone)
      BY <3>12, <3>13, Zenon DEF Abstract!Next
    <3>15. \/ \E id \in Ids, shape \in Shapes :
                (\E n \in Used(T) : Added(S, T, id, shape, n)) \/ AddFailed(S, T, id, shape)
           \/ \E index \in 0 .. Cardinality(Ids) :
                (\E v \in Used(S) : Taken(S, T, index, v)) \/ NothingAt(S, T, index)
           \/ \E gone \in SUBSET Live : Purged(S, T, gone)
      BY <3>2, Zenon DEF Done
    <3> HIDE DEF Live
    <3>16. Abstract!Next BY <3>7, <3>8, <3>9, <3>10, <3>11, <3>14, <3>15, Zenon
    <3> QED BY <3>16
  <2> QED BY <2>1, <2>2
<1> QED BY <1>1, <1>2, AlwaysQInv, PTL DEF Spec, ImplementsMap, Abstract!Spec

=============================================================================
