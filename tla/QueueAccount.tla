----------------------------- MODULE QueueAccount -----------------------------
(***************************************************************************)
(* The oracle queue account (api/src/state/queue.rs): a header and a        *)
(* region of variable-size items in one byte array, walked from the front.  *)
(* Removing an item only clears its used flag; the hole is reused by a      *)
(* request of exactly the same aligned span, and holes at the end are       *)
(* trimmed by moving the cursor back.                                       *)
(*                                                                          *)
(* The bytes are modelled by the extents written to them: a write destroys  *)
(* every extent it touches, and a read finds a value only where it lies     *)
(* whole. What lies past the cursor is forgotten when the cursor moves back: *)
(* a walk or a read that relied on such bytes would find nothing there.      *)
(***************************************************************************)
EXTENDS Integers, FiniteSets

CONSTANTS
  ItemSize,     \* size_of::<QueueItem>()
  MetaSize,     \* size_of::<CompactAccountMeta>()
  HeaderSize,   \* size_of::<Queue>()
  Align,        \* align_of::<QueueItem>()
  AccLen,       \* acc.len(): account data after the 8-byte discriminator
  MaxMetas,     \* MAX_CALLBACK_ACCOUNTS
  MaxArgs,      \* limit on args.len() in item_layout
  Ids,          \* request ids
  Shapes        \* lengths [disc, metas, args] of the requests made

ASSUME LayoutAssumption ==
  /\ {ItemSize, MetaSize, HeaderSize, Align} \subseteq Nat \ {0}
  /\ ItemSize % Align = 0
  /\ AccLen \in Nat /\ AccLen >= HeaderSize + Align
  /\ Shapes \subseteq [disc : Nat, metas : Nat, args : Nat]
  /\ IsFiniteSet(Ids)

VARIABLES
  q,      \* [item_count, cursor, mem]: header fields and written extents
  call,   \* the last call, with its arguments
  ret     \* its result

vars == <<q, call, ret>>

-----------------------------------------------------------------------------
align_up(x) == ((x + Align - 1) \div Align) * Align

items_start == align_up(HeaderSize)

\* Bytes pos .. pos+len-1 no longer hold what they held.
Apart(e, pos, len) == e.pos + e.len <= pos \/ pos + len <= e.pos

Erase(mem, pos, len) == {e \in mem : Apart(e, pos, len)}

Write(mem, pos, len, val) ==
  IF len = 0 THEN mem
             ELSE Erase(mem, pos, len) \union {[pos |-> pos, len |-> len, val |-> val]}

None == "none"

\* The calls.
AddCall(id, shape) == [op |-> "add", id |-> id, shape |-> shape]

RemoveCall(index) == [op |-> "remove", index |-> index]

PurgeCall(gone) == [op |-> "purge", gone |-> gone]

Failed(id) == [ok |-> FALSE, id |-> id, index |-> 0]

\* What reading an item from bytes that hold no whole item gives.
NoItem == [id |-> None, used |-> 0, disc_off |-> 0, metas_off |-> 0,
           args_off |-> 0, disc_len |-> 0, metas_len |-> 0, args_len |-> 0]

Header(item) == <<"header", item>>

read_item(mem, pos) ==
  LET there == {e \in mem : e.pos = pos /\ e.val[1] = "header"}
  IN  IF there = {} THEN NoItem ELSE (CHOOSE e \in there : TRUE).val[2]

item_next(pos, item) ==
  align_up(pos + ItemSize + item.disc_len + (item.metas_len * MetaSize)
               + item.args_len)

\* One visit of scan_items: where the item lies, where the next one starts.
visit(mem, pos) ==
  [pos |-> pos, next |-> item_next(pos, read_item(mem, pos)), item |-> read_item(mem, pos)]

\* The visits from a position up to an end.
walk(mem, end) ==
  LET from[pos \in Nat] ==
        IF pos + ItemSize > end
          THEN {}
          ELSE {visit(mem, pos)} \union from[visit(mem, pos).next]
  IN  from

\* The visits of scan_items, whose order is that of their positions.
scan_items(qa) ==
  walk(qa.mem, IF AccLen < qa.cursor THEN AccLen ELSE qa.cursor)[items_start]

IsUsed(v) == v.item.used = 1

\* iter_items
used_items(qa) == {v \in scan_items(qa) : IsUsed(v)}

\* Fault: holes are counted, too.
logical_index_with_holes(qa, v) == Cardinality({u \in scan_items(qa) : u.pos < v.pos})

\* The used items scan_items has seen before it visits v.
logical_index(qa, v) == Cardinality({u \in used_items(qa) : u.pos < v.pos})

\* Where the last of some visits ends.
end_of(visits) ==
  IF visits = {} THEN items_start
                 ELSE (CHOOSE v \in visits : \A u \in visits : u.pos <= v.pos).next

last_used_end_aligned(qa) == end_of(used_items(qa))

\* Shrink the cursor to end, if it is beyond. The bytes above it stay in the
\* account, but the model drops them: every walk stops at the cursor, and what
\* the cursor passes again is written first.
shrink_cursor(qa, end) ==
  IF end < qa.cursor
    THEN [qa EXCEPT !.cursor = end, !.mem = {e \in @ : e.pos < end}]
    ELSE qa

\* Fault: holes at the end are never trimmed.
trim_trailing_holes_never(qa) == qa

trim_trailing_holes(qa) == shrink_cursor(qa, last_used_end_aligned(qa))

-----------------------------------------------------------------------------
\* Insertion.

total_needed(shape) ==
  ItemSize + shape.disc + (shape.metas * MetaSize) + shape.args

required_span(shape) == align_up(total_needed(shape))

\* The error of item_layout.
ArgumentSizeTooLarge(shape) == shape.metas > MaxMetas \/ shape.args > MaxArgs

\* Fault: the first hole that is large enough is taken.
reusable_spans_first_fit(qa, shape) ==
  LET holes == {v \in scan_items(qa) :
                  ~IsUsed(v) /\ v.next - v.pos >= required_span(shape)}
  IN  {v \in holes : \A u \in holes : v.pos <= u.pos}

\* scan_for_reusable_span: the first hole whose span is exactly the one required,
\* used only if it lies below the trimmed cursor.
reusable_spans(qa, shape) ==
  LET holes == {v \in scan_items(qa) :
                  ~IsUsed(v) /\ v.next - v.pos = required_span(shape)}
  IN  {v \in holes : /\ \A u \in holes : v.pos <= u.pos
                     /\ v.pos < trim_trailing_holes(qa).cursor}

args_offset(pos, shape) ==
  pos + ItemSize + shape.disc + (shape.metas * MetaSize)

\* Fault: room is checked for the fixed part of the item only.
fits_header(pos, shape) == pos + ItemSize <= AccLen

fits(pos, shape) == pos + total_needed(shape) <= AccLen

\* write_item_at: the three payload parts, then the item with their offsets.
write_item_at(mem, pos, id, shape) ==
  LET disc_off  == pos + ItemSize
      metas_off == disc_off + shape.disc
      args_off  == args_offset(pos, shape)
      m1 == Write(mem, disc_off, shape.disc, <<"disc", id>>)
      m2 == Write(m1, metas_off, shape.metas * MetaSize, <<"metas", id>>)
      m3 == Write(m2, args_off, shape.args, <<"args", id>>)
  IN  Write(m3, pos, ItemSize,
            Header([id |-> id, used |-> 1, disc_off |-> disc_off,
                    metas_off |-> metas_off, args_off |-> args_off,
                    disc_len |-> shape.disc, metas_len |-> shape.metas,
                    args_len |-> shape.args]))

\* add_item_with_id when a hole of the right span exists.
ReuseHole(id, shape) ==
  /\ ~ArgumentSizeTooLarge(shape)
  /\ \E v \in reusable_spans(q, shape) :
       LET qt == trim_trailing_holes(q)
       IN  /\ fits(v.pos, shape)
           /\ q' = [item_count |-> q.item_count + 1,
                    cursor |-> qt.cursor,
                    mem |-> write_item_at(qt.mem, v.pos, id, shape)]
           /\ ret' = [ok |-> TRUE, id |-> id, index |-> logical_index(q, v)]
  /\ call' = AddCall(id, shape)

\* add_item_with_id at the end: the gap up to the aligned start is zeroed, the
\* cursor is left at the unaligned end of the arguments.
AppendItem(id, shape) ==
  LET qt      == trim_trailing_holes(q)
      aligned == align_up(qt.cursor)
  IN  /\ ~ArgumentSizeTooLarge(shape)
      /\ fits(aligned, shape)
      /\ reusable_spans(q, shape) = {}
      /\ q' = [item_count |-> q.item_count + 1,
               cursor |-> aligned + total_needed(shape),
               mem |-> write_item_at(Erase(qt.mem, qt.cursor, aligned - qt.cursor),
                                     aligned, id, shape)]
      /\ ret' = [ok |-> TRUE, id |-> id, index |-> q.item_count]
      /\ call' = AddCall(id, shape)

\* add_item_with_id returns an error: the request is too large for any item, or
\* for the room left in the place chosen for it.
AddRefused(id, shape) ==
  /\ \/ ArgumentSizeTooLarge(shape) /\ UNCHANGED q
     \/ /\ ~ArgumentSizeTooLarge(shape)
        /\ \/ \E v \in reusable_spans(q, shape) : ~fits(v.pos, shape)
           \/ /\ reusable_spans(q, shape) = {}
              /\ ~fits(align_up(trim_trailing_holes(q).cursor), shape)
        /\ q' = trim_trailing_holes(q)
  /\ ret' = Failed(id)
  /\ call' = AddCall(id, shape)

-----------------------------------------------------------------------------
\* Removal.

saturating_sub(a, b) == IF a < b THEN 0 ELSE a - b

\* Clear the used flag of items, in place.
clear_used(mem, visits) ==
  {e \in mem : \A v \in visits : Apart(e, v.pos, ItemSize)}
    \union {[pos |-> v.pos, len |-> ItemSize,
             val |-> Header([v.item EXCEPT !.used = 0])] : v \in visits}

\* The first used item with this id, if any.
find_item_by_id(qa, id) ==
  LET found == {v \in used_items(qa) : v.item.id = id}
  IN  {v \in found : \A u \in found : v.pos <= u.pos}

\* remove_item, once it has found its item.
remove_item(qa, v) ==
  trim_trailing_holes(
    [item_count |-> saturating_sub(qa.item_count, 1),
     cursor |-> qa.cursor,
     mem |-> clear_used(qa.mem, {v})])

\* Fault: the end of an item removed in this pass still counts.
end_of_kept_late(used, hit) == end_of(used)

\* Where the last used item that a pass does not remove ends.
end_of_kept(used, hit) == end_of(used \ hit)

\* Fault: the item count goes down by one per pass.
count_after_one(count, hit) == saturating_sub(count, 1)

count_after(count, hit) == saturating_sub(count, Cardinality(hit))

\* remove_items_matching: one pass that clears every used item whose id is in
\* gone, and remembers the end of the last one kept.
remove_items_matching(qa, gone) ==
  LET used == used_items(qa)
      hit  == {v \in used : v.item.id \in gone}
  IN  shrink_cursor(
        [item_count |-> count_after(qa.item_count, hit),
         cursor |-> qa.cursor,
         mem |-> clear_used(qa.mem, hit)],
        end_of_kept(used, hit))

\* Fault: the items are counted as they lie, the removed ones too.
get_item_by_place(qa, index) ==
  {v \in used_items(qa) : logical_index_with_holes(qa, v) = index}

\* get_item_by_index: the used item under a logical index, if any.
get_item_by_index(qa, index) ==
  {v \in used_items(qa) : logical_index(qa, v) = index}

\* remove_item on an index some caller holds; it may be out of range. The item
\* removed is returned.
RemoveItem(index) ==
  /\ \E v \in get_item_by_index(q, index) :
       /\ q' = remove_item(q, v)
       /\ ret' = [ok |-> TRUE, id |-> v.item.id, index |-> 0]
  /\ call' = RemoveCall(index)

\* InvalidQueueIndex
RemoveRefused(index) ==
  /\ get_item_by_index(q, index) = {}
  /\ ret' = Failed(None)
  /\ call' = RemoveCall(index)
  /\ UNCHANGED q

\* purge_expired_requests: whatever set of items has expired.
RemoveMatching(gone) ==
  /\ q' = remove_items_matching(q, gone)
  /\ ret' = [ok |-> TRUE, id |-> None, index |-> 0]
  /\ call' = PurgeCall(gone)

-----------------------------------------------------------------------------
LiveIds == {v.item.id : v \in used_items(q)}

\* A freshly initialised account, as load() leaves it.
Init ==
  /\ q = [item_count |-> 0, cursor |-> items_start, mem |-> {}]
  /\ call = [op |-> "load"]
  /\ ret = [ok |-> TRUE, id |-> None, index |-> 0]

Next ==
  \/ \E id \in Ids \ LiveIds, shape \in Shapes :
       \/ ReuseHole(id, shape)
       \/ AppendItem(id, shape)
       \/ AddRefused(id, shape)
  \/ \E index \in 0 .. Cardinality(Ids) : RemoveItem(index) \/ RemoveRefused(index)
  \/ \E gone \in SUBSET LiveIds : RemoveMatching(gone)

Spec == Init /\ [][Next]_vars

-----------------------------------------------------------------------------
\* The header fields are in range and every byte written lies between the
\* queue header and the end of the account.
TypeOK ==
  /\ q.item_count \in 0 .. Cardinality(Ids)
  /\ q.cursor \in items_start .. AccLen
  /\ \A e \in q.mem : e.pos >= items_start /\ e.pos + e.len <= AccLen
  /\ ret \in [ok : BOOLEAN, id : Ids \union {None}, index : 0 .. Cardinality(Ids)]

\* Every step of scan_items lands on a whole item, and the walk ends exactly at
\* the (aligned) cursor: no hole reuse, gap or trim ever leaves it reading the
\* middle of a payload as an item.
WalkReadsWholeItems ==
  /\ \A v \in scan_items(q) : v.item # NoItem
  /\ end_of(scan_items(q)) = align_up(q.cursor)

\* header.item_count is the number of used items although it is kept by
\* separate increments and decrements, and no item past the last used one is
\* kept: every removal trims.
HeaderMatchesItems ==
  /\ q.item_count = Cardinality(used_items(q))
  /\ end_of(used_items(q)) = end_of(scan_items(q))

\* The index add_item_with_id returns (for an append it is the item count, for
\* a reused hole the used items before it) is the index under which
\* get_item_by_index and remove_item find that request.
ReturnedIndexFindsItem ==
  (call.op = "add" /\ ret.ok)
    => \E v \in find_item_by_id(q, ret.id) : get_item_by_index(q, ret.index) = {v}

\* An add is refused for want of room only while other requests are pending:
\* however fragmented it once was, a queue whose requests have all left takes
\* any request that fits a fresh account of that size.
RefusedOnlyWhenOccupied ==
  [][\A id \in Ids, shape \in Shapes :
       q.item_count = 0 /\ ~ArgumentSizeTooLarge(shape) /\ fits(items_start, shape)
         => ~AddRefused(id, shape)]_vars

\* purge's single pass leaves exactly what removing the same items one by one, in
\* any order, with remove_item leaves, the position of the cursor included.
PurgeMatchesRemovals ==
  /\ remove_items_matching(q, {}) = q
  /\ \A gone \in SUBSET LiveIds : \A id \in gone : \A v \in find_item_by_id(q, id) :
       remove_items_matching(q, gone)
         = remove_items_matching(remove_item(q, v), gone \ {id})

\* What is read back for a request: its place, its lengths, and whether the bytes
\* at its stored offsets are its own.
ReadBack(qa, v) ==
  LET item == v.item
      Holds(off, len, val) ==
        len = 0 \/ [pos |-> off, len |-> len, val |-> val] \in qa.mem
  IN  [at |-> v.pos,
       id |-> item.id,
       shape |-> [disc |-> item.disc_len, metas |-> item.metas_len,
                  args |-> item.args_len],
       intact |-> /\ Holds(item.disc_off, item.disc_len, <<"disc", item.id>>)
                  /\ Holds(item.metas_off, item.metas_len * MetaSize,
                           <<"metas", item.id>>)
                  /\ Holds(item.args_off, item.args_len, <<"args", item.id>>)]

\* The list of requests a walk over the account reads.
Contents(qa) == {ReadBack(qa, v) : v \in used_items(qa)}

Abstract == INSTANCE AbstractQueue WITH pending <- Contents(q)

\* The byte-level account implements a list of requests: an add stores the one
\* request it was given, payload intact, at the index it returns; remove_item
\* takes and returns exactly the request at its index, a purge exactly the ones it
\* selects, a refused call none; and no operation moves or disturbs another one.
ImplementsMap == Abstract!Spec

=============================================================================
