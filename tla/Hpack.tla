--------------------------------- MODULE Hpack ---------------------------------
(***************************************************************************)
(* lib/nghttp2_hd.c: the header compression of one direction of a          *)
(* connection.  The deflater of one session and the inflater of the other  *)
(* keep the same dynamic table without ever comparing notes; its size is   *)
(* set by SETTINGS_HEADER_TABLE_SIZE, which the two apply at different     *)
(* times (lib/nghttp2_session.c).                                          *)
(*                                                                         *)
(* A header block is the sequence of its representations; their bytes, the *)
(* Huffman code and the split into frames are left out.  A HEADERS frame   *)
(* also carries the fields it was made from, which no code looks at.  An   *)
(* entry that has been freed is Freed.  Allocation succeeds.               *)
(***************************************************************************)
EXTENDS Integers, SequencesExt, FiniteSetsExt, SeqSums

CONSTANTS
  Fields,          \* header fields [name, value]
  Static,          \* static_table: a sequence of fields, equal names together
  Room,            \* entry_room of every field
  Hash,            \* the bucket of every name in nghttp2_hd_map
  NeverIndexed,    \* the fields of NGHTTP2_HD_NEVER_INDEXING
  Unindexed,       \* the fields whose name is never worth an entry
  Overhead,        \* NGHTTP2_HD_ENTRY_OVERHEAD
  DefaultMax,      \* NGHTTP2_HD_DEFAULT_MAX_BUFFER_SIZE
  DeflateMaxes,    \* the limits an application sets for its deflater
  SeqRange,        \* 2^32, the range of next_seq, scaled down
  SettingsFrames,  \* the SETTINGS_HEADER_TABLE_SIZE values of one frame, in order
  Blocks,          \* the lists of fields HEADERS are submitted with
  MaxSettings, MaxBlocks   \* bounds of the model: frames of each kind

Freed == [name |-> "freed", value |-> 0, seq |-> 0]
NoLimit == -1           \* UINT32_MAX
Buckets == {Hash[n] : n \in DOMAIN Hash}

Blank(ent) == [name |-> ent.name, value |-> ent.value]

ASSUME FieldsAssumption ==
  /\ \A f \in Fields : f = Blank(f) /\ f.name \in DOMAIN Hash
  /\ Blank(Freed) \notin Fields
  /\ Overhead \in Nat \ {0}
  /\ Room \in [Fields -> Nat] /\ \A f \in Fields : Room[f] >= Overhead
  /\ Static \in Seq(Fields) /\ Blocks \subseteq Seq(Fields)

\* The sizes of a table are numbers of 32 bits, as seq is.
ASSUME SizesAssumption ==
  /\ SeqRange \in Nat /\ DefaultMax \in 0..(SeqRange - 1)
  /\ DeflateMaxes \subseteq 0..(SeqRange - 1)
  /\ SettingsFrames \subseteq Seq(0..(SeqRange - 1)) \ {<<>>}

VARIABLES
  deflater,    \* nghttp2_hd_deflater, with its context
  inflater,    \* nghttp2_hd_inflater
  fwd, back,   \* frames on their way: HEADERS and ACK, SETTINGS
  acks,        \* SETTINGS ACK in the deflating side's ob_urgent
  inflight,    \* inflight_settings of the inflating side
  settings, blocks    \* frames submitted so far

vars == <<deflater, inflater, fwd, back, acks, inflight, settings, blocks>>

-------------------------------------------------------------------------------
(* hd_ringbuf: a ring of entries, the newest first, whose size is a power of two *)

Size(ring) == ring.mask + 1

\* The least power of two that is not less than n.
PowerFrom(n) ==
  LET power[k \in 0..n] == IF k = 0 THEN 1 ELSE 2 * power[k - 1]
  IN  Min({power[k] : k \in {i \in 0..n : power[i] >= n}})

hd_ringbuf_init(n) ==
  [buffer |-> [i \in 0..(PowerFrom(n) - 1) |-> Freed], mask |-> PowerFrom(n) - 1,
   first |-> 0, len |-> 0]

hd_ringbuf_get(ring, i) == ring.buffer[(ring.first + i) % Size(ring)]

hd_ringbuf_reserve(ring, n) ==
  IF Size(ring) >= n THEN ring
  ELSE [ring EXCEPT
          !.buffer = [i \in 0..(PowerFrom(n) - 1) |->
                        IF i < ring.len THEN hd_ringbuf_get(ring, i) ELSE Freed],
          !.mask = PowerFrom(n) - 1, !.first = 0]

\* Fault: the ring does not grow.
PushUnreserved(ring, ent) ==
  LET f == (ring.first - 1) % Size(ring)
  IN  [ring EXCEPT !.buffer[f] = ent, !.first = f, !.len = @ + 1]

hd_ringbuf_push_front(ring, ent) ==
  LET r == hd_ringbuf_reserve(ring, ring.len + 1)
      f == (r.first - 1) % Size(r)
  IN  [r EXCEPT !.buffer[f] = ent, !.first = f, !.len = @ + 1]

hd_ringbuf_pop_back(ring) ==
  [ring EXCEPT !.buffer[(ring.first + ring.len - 1) % Size(ring)] = Freed,
               !.len = @ - 1]

\* The entries of the ring, the newest first.
Entries(ring) == [i \in 1..ring.len |-> hd_ringbuf_get(ring, i - 1)]

-------------------------------------------------------------------------------
(* hd_map: the deflater's way from a field to its entry *)

hd_map_insert(map, ent) == [map EXCEPT ![Hash[ent.name]] = <<ent>> \o @]

hd_map_remove(map, ent) ==
  LET chain == map[Hash[ent.name]]
      at    == {i \in DOMAIN chain : chain[i] = ent}
  IN  IF at = {} THEN map
      ELSE [map EXCEPT ![Hash[ent.name]] = RemoveAt(chain, Min(at))]

\* The first entry of the field, or else the first one of its name.
hd_map_find(map, nv, name_only) ==
  LET chain == map[Hash[nv.name]]
      named == {i \in DOMAIN chain : chain[i].name = nv.name}
      exact == {i \in named : chain[i].value = nv.value}
  IN  CASE named = {} -> [ent |-> Freed, exact |-> FALSE]
        [] named # {} /\ (name_only \/ exact = {}) ->
             [ent |-> chain[Min(named)], exact |-> FALSE]
        [] OTHER -> [ent |-> chain[Min(exact)], exact |-> TRUE]

-------------------------------------------------------------------------------
(* nghttp2_hd_context; the map of an inflater stays empty *)

hd_context_init ==
  [hd_table |-> hd_ringbuf_init(DefaultMax \div Overhead),
   map |-> [b \in Buckets |-> <<>>],
   hd_table_bufsize |-> 0, hd_table_bufsize_max |-> DefaultMax, next_seq |-> 0]

RoomOf(ent) == Room[Blank(ent)]

EvictOldest(ctx) ==
  LET ent == hd_ringbuf_get(ctx.hd_table, ctx.hd_table.len - 1)
  IN  [ctx EXCEPT !.hd_table_bufsize = @ - RoomOf(ent),
                  !.hd_table = hd_ringbuf_pop_back(@),
                  !.map = hd_map_remove(@, ent)]

\* The oldest entries go until room bytes are free, or all have gone.
Evict(ctx, room) ==
  LET left[n \in 0..ctx.hd_table.len] == IF n = 0 THEN ctx ELSE EvictOldest(left[n - 1])
      Stops(c) == \/ c.hd_table_bufsize + room <= c.hd_table_bufsize_max
                  \/ c.hd_table.len = 0
  IN  left[Min({n \in 0..ctx.hd_table.len : Stops(left[n])})]

hd_context_shrink_table_size(ctx) == Evict(ctx, 0)

add_hd_table_incremental(ctx, nv, mapped) ==
  LET c   == Evict(ctx, Room[nv])
      ent == [name |-> nv.name, value |-> nv.value, seq |-> c.next_seq]
  IN  IF Room[nv] > c.hd_table_bufsize_max THEN c
      ELSE [c EXCEPT !.hd_table = hd_ringbuf_push_front(@, ent),
                     !.map = IF mapped THEN hd_map_insert(@, ent) ELSE @,
                     !.hd_table_bufsize = @ + Room[nv],
                     !.next_seq = (@ + 1) % SeqRange]

\* nghttp2_hd_table_get; indices count from 0, static entries first.
hd_table_get(ctx, i) ==
  IF i >= Len(Static) THEN hd_ringbuf_get(ctx.hd_table, i - Len(Static))
  ELSE Static[i + 1]

-------------------------------------------------------------------------------
(* The deflater *)

nghttp2_hd_deflate_init2(max) ==
  [ctx |-> [hd_context_init EXCEPT !.hd_table_bufsize_max = Min({@, max})],
   deflate_max |-> max, min |-> NoLimit, notify |-> max < DefaultMax]

Least(a, b) == IF a = NoLimit THEN b ELSE Min({a, b})

\* Fault: a size the table had in between is forgotten.
ChangeForgetsMin(D, max) ==
  LET next == Min({max, D.deflate_max})
  IN  [D EXCEPT !.ctx = hd_context_shrink_table_size(
                          [@ EXCEPT !.hd_table_bufsize_max = next]),
                !.min = next, !.notify = TRUE]

nghttp2_hd_deflate_change_table_size(D, max) ==
  LET next == Min({max, D.deflate_max})
  IN  [D EXCEPT !.ctx = hd_context_shrink_table_size(
                          [@ EXCEPT !.hd_table_bufsize_max = next]),
                !.min = Least(@, next), !.notify = TRUE]

hd_deflate_decide_indexing(D, nv) ==
  CASE nv \in NeverIndexed -> "never"
    [] \/ nv \in Unindexed
       \/ Room[nv] > (D.ctx.hd_table_bufsize_max * 3) \div 4 -> "without"
    [] OTHER -> "with"

search_static_table(nv, name_only) ==
  LET first == CHOOSE i \in DOMAIN Static :
                 /\ Static[i].name = nv.name
                 /\ \A k \in 1..(i - 1) : Static[k].name # nv.name
      match == {i \in DOMAIN Static : Static[i] = nv}
  IN  IF name_only \/ match = {} THEN [index |-> first - 1, match |-> FALSE]
      ELSE [index |-> Min(match) - 1, match |-> TRUE]

\* An entry's index is its age: how many entries have been added since.
IndexOf(ctx, ent) == Len(Static) + ((ctx.next_seq - 1 - ent.seq) % SeqRange)

search_hd_table(ctx, nv, name_only) ==
  LET r == hd_map_find(ctx.map, nv, name_only)
  IN  CASE ~r.exact /\ (\E i \in DOMAIN Static : Static[i].name = nv.name) ->
             search_static_table(nv, name_only)
        [] r.exact -> [index |-> IndexOf(ctx, r.ent), match |-> TRUE]
        [] OTHER -> [index |-> IF r.ent = Freed THEN -1 ELSE IndexOf(ctx, r.ent),
                     match |-> FALSE]

\* One field: an index, or a literal whose name may be an index.
deflate_nv(D, nv) ==
  LET mode == hd_deflate_decide_indexing(D, nv)
      r    == search_hd_table(D.ctx, nv, mode = "never")
  IN  IF r.match
      THEN [D |-> D, repr |-> [op |-> "indexed", index |-> r.index]]
      ELSE [D |-> IF mode = "with"
                  THEN [D EXCEPT !.ctx = add_hd_table_incremental(@, nv, TRUE)] ELSE D,
            repr |-> [op |-> IF r.index = -1 THEN "newname" ELSE "indname",
                      index |-> r.index, nv |-> nv, mode |-> mode]]

TableSize(n) == [op |-> "size", size |-> n]

\* The sizes the table has had since the last block: the least and the last.
SizeUpdates(D) ==
  IF ~D.notify THEN <<>>
  ELSE (IF D.min # NoLimit /\ D.ctx.hd_table_bufsize_max > D.min
        THEN <<TableSize(D.min)>> ELSE <<>>)
       \o <<TableSize(D.ctx.hd_table_bufsize_max)>>

nghttp2_hd_deflate_hd_bufs(D, nva) ==
  LET started == [D |-> [D EXCEPT !.notify = FALSE,
                                  !.min = IF D.notify THEN NoLimit ELSE @],
                  block |-> SizeUpdates(D)]
      Deflated(r, nv) == LET x == deflate_nv(r.D, nv)
                         IN  [D |-> x.D, block |-> Append(r.block, x.repr)]
      done[n \in 0..Len(nva)] == IF n = 0 THEN started ELSE Deflated(done[n - 1], nva[n])
  IN  done[Len(nva)]

-------------------------------------------------------------------------------
(* The inflater *)

nghttp2_hd_inflate_init ==
  [ctx |-> hd_context_init, settings |-> DefaultMax, min |-> NoLimit,
   state |-> "START", bad |-> FALSE]

nghttp2_hd_inflate_change_table_size(I, max) ==
  IF I.ctx.hd_table_bufsize_max > max
  THEN [I EXCEPT !.settings = max, !.state = "EXPECT_TABLE_SIZE", !.min = max,
                 !.ctx = hd_context_shrink_table_size(
                           [@ EXCEPT !.hd_table_bufsize_max = max])]
  ELSE [I EXCEPT !.settings = max]

\* NGHTTP2_HD_STATE_READ_TABLE_SIZE.
ReadTableSize(I, n) ==
  IF I.state = "OPCODE" \/ n > Least(I.min, I.settings)
  THEN [I EXCEPT !.bad = TRUE]
  ELSE [I EXCEPT !.min = NoLimit, !.state = "START",
                 !.ctx = hd_context_shrink_table_size(
                           [@ EXCEPT !.hd_table_bufsize_max = n])]

\* The field of a representation: hd_inflate_commit_indexed, _indname, _newname.
Committed(I, repr) ==
  CASE repr.op = "indexed" -> LET e == hd_table_get(I.ctx, repr.index)
                              IN  [name |-> e.name, value |-> e.value]
    [] repr.op = "indname" -> [name |-> hd_table_get(I.ctx, repr.index).name,
                               value |-> repr.nv.value]
    [] repr.op = "newname" -> repr.nv

\* One representation; what it yields is appended to out.
InflateRepr(r, repr) ==
  LET I     == r.I
      valid == repr.index < I.ctx.hd_table.len + Len(Static)
      nv    == Committed(I, repr)
      added == IF repr.op # "indexed" /\ repr.mode = "with"
               THEN add_hd_table_incremental(I.ctx, nv, FALSE) ELSE I.ctx
  IN  CASE I.bad -> r
        [] ~I.bad /\ repr.op = "size" -> [r EXCEPT !.I = ReadTableSize(I, repr.size)]
        [] ~I.bad /\ repr.op # "size" ->
             IF I.state = "EXPECT_TABLE_SIZE" \/ ~valid
             THEN [r EXCEPT !.I.bad = TRUE]
             ELSE [I |-> [I EXCEPT !.state = "OPCODE", !.ctx = added],
                   out |-> Append(r.out, nv)]

\* A whole block, its end included.
nghttp2_hd_inflate_hd_nv(I, block) ==
  LET done[n \in 0..Len(block)] ==
        IF n = 0 THEN [I |-> I, out |-> <<>>] ELSE InflateRepr(done[n - 1], block[n])
      r == done[Len(block)]
  IN  IF r.I.bad \/ r.I.state = "EXPECT_TABLE_SIZE"
      THEN [r EXCEPT !.I.bad = TRUE] ELSE [r EXCEPT !.I.state = "START"]

-------------------------------------------------------------------------------
Init ==
  /\ deflater \in {nghttp2_hd_deflate_init2(max) : max \in DeflateMaxes}
  /\ inflater = nghttp2_hd_inflate_init
  /\ fwd = <<>> /\ back = <<>> /\ acks = 0 /\ inflight = <<>>
  /\ settings = 0 /\ blocks = 0

\* Of several values of one SETTINGS frame both sides use the least, if the
\* last is not the least, and the last.
Lowered(vs) == Min(Range(vs)) < Last(vs)

DeflaterResized(D, vs) ==
  nghttp2_hd_deflate_change_table_size(
    IF Lowered(vs) THEN nghttp2_hd_deflate_change_table_size(D, Min(Range(vs))) ELSE D,
    Last(vs))

InflaterResized(I, vs) ==
  nghttp2_hd_inflate_change_table_size(
    IF Lowered(vs) THEN nghttp2_hd_inflate_change_table_size(I, Min(Range(vs))) ELSE I,
    Last(vs))

\* session_prep_frame deflates the block when the frame's turn has come, after
\* every acknowledgement in ob_urgent; the frame is then sent.
SendHeaders(nva) ==
  LET r == nghttp2_hd_deflate_hd_bufs(deflater, nva)
  IN  /\ acks = 0 /\ blocks < MaxBlocks /\ blocks' = blocks + 1
      /\ deflater' = r.D
      /\ fwd' = Append(fwd, [type |-> "HEADERS", block |-> r.block, fields |-> nva])
      /\ UNCHANGED <<inflater, back, acks, inflight, settings>>

SentAck ==
  /\ acks > 0 /\ acks' = acks - 1
  /\ fwd' = Append(fwd, [type |-> "ACK"])
  /\ UNCHANGED <<deflater, inflater, back, inflight, settings, blocks>>

\* nghttp2_session_on_settings_received.
RecvSettings ==
  /\ back # <<>> /\ back' = Tail(back)
  /\ deflater' = DeflaterResized(deflater, Head(back))
  /\ acks' = acks + 1
  /\ UNCHANGED <<inflater, fwd, inflight, settings, blocks>>

\* nghttp2_session_add_settings.
SendSettings(vs) ==
  /\ settings < MaxSettings /\ settings' = settings + 1
  /\ inflight' = Append(inflight, vs)
  /\ back' = Append(back, vs)
  /\ UNCHANGED <<deflater, inflater, fwd, acks, blocks>>

\* nghttp2_session_update_local_settings, on the acknowledgement.
RecvAck ==
  /\ fwd # <<>> /\ Head(fwd).type = "ACK" /\ fwd' = Tail(fwd)
  /\ inflater' = InflaterResized(inflater, Head(inflight))
  /\ inflight' = Tail(inflight)
  /\ UNCHANGED <<deflater, back, acks, settings, blocks>>

\* Fault: the block of a stream that is gone is skipped.
RecvHeadersSkips ==
  /\ fwd # <<>> /\ Head(fwd).type = "HEADERS" /\ fwd' = Tail(fwd)
  /\ inflater' \in {inflater, nghttp2_hd_inflate_hd_nv(inflater, Head(fwd).block).I}
  /\ UNCHANGED <<deflater, back, acks, inflight, settings, blocks>>

\* NGHTTP2_IB_READ_HEADER_BLOCK, and NGHTTP2_IB_IGN_HEADER_BLOCK, which
\* inflates a block nobody wants all the same.
RecvHeaders ==
  /\ fwd # <<>> /\ Head(fwd).type = "HEADERS" /\ fwd' = Tail(fwd)
  /\ inflater' = nghttp2_hd_inflate_hd_nv(inflater, Head(fwd).block).I
  /\ UNCHANGED <<deflater, back, acks, inflight, settings, blocks>>

Next == /\ ~inflater.bad
        /\ \/ \E nva \in Blocks : SendHeaders(nva)
           \/ SentAck \/ RecvSettings \/ RecvAck \/ RecvHeaders
           \/ \E vs \in SettingsFrames : SendSettings(vs)

Spec == Init /\ [][Next]_vars

\* before_frame_send_callback returns NGHTTP2_ERR_CANCEL, after the block has
\* been deflated: the frame is dropped and its stream closed.
CancelHeaders(nva) ==
  /\ ~inflater.bad /\ acks = 0 /\ blocks < MaxBlocks /\ blocks' = blocks + 1
  /\ deflater' = nghttp2_hd_deflate_hd_bufs(deflater, nva).D
  /\ UNCHANGED <<inflater, fwd, back, acks, inflight, settings>>

SpecCancel == Init /\ [][Next \/ \E nva \in Blocks : CancelHeaders(nva)]_vars

-------------------------------------------------------------------------------
TableOf(ctx) == LET e == Entries(ctx.hd_table) IN [i \in DOMAIN e |-> Blank(e[i])]

\* The ring has room for its entries, all live and in the order of their seq, so
\* that an index computed from next_seq names the entry meant; hd_table_bufsize
\* is their size and within the limit (nghttp2_hd.c:593-672, 1100-1243).
RingIsSound(ctx) ==
  LET ents == Entries(ctx.hd_table)
  IN  /\ ctx.hd_table.len \in 0..Size(ctx.hd_table)
      /\ \A i \in DOMAIN ents : /\ ents[i] # Freed
                                /\ IndexOf(ctx, ents[i]) = Len(Static) + i - 1
      /\ ctx.hd_table_bufsize = SumOf([i \in DOMAIN ents |-> RoomOf(ents[i])])
      /\ ctx.hd_table_bufsize <= ctx.hd_table_bufsize_max

\* The map chains exactly the ring's entries, the newest first
\* (nghttp2_hd.c:533-591).
MapIsSound(ctx) ==
  \A b \in Buckets :
    /\ Range(ctx.map[b]) = {e \in Range(Entries(ctx.hd_table)) : Hash[e.name] = b}
    /\ \A i, j \in DOMAIN ctx.map[b] :
         i < j => IndexOf(ctx, ctx.map[b][i]) < IndexOf(ctx, ctx.map[b][j])

\* The three views of a dynamic table (ring, seq numbers, the deflater's map)
\* agree, whatever has been added, evicted and resized (nghttp2_hd.c:533-672,
\* 1100-1243).
TablesAreSound ==
  /\ RingIsSound(deflater.ctx) /\ MapIsSound(deflater.ctx)
  /\ RingIsSound(inflater.ctx)

\* What has been encoded is decoded to the same fields and never refused,
\* although both sides change the size of their table at different times, and
\* blocks encoded before and after are on the way (nghttp2_hd.c:1245-1295,
\* 1440-1489, 1869-2236; nghttp2_session.c:4721-4737, 4835, 4966).
DecodedAsEncoded ==
  fwd # <<>> /\ Head(fwd).type = "HEADERS" =>
    LET r == nghttp2_hd_inflate_hd_nv(inflater, Head(fwd).block)
    IN  ~r.I.bad /\ r.out = Head(fwd).fields

\* With no block on the way the inflater knows every entry the deflater may
\* refer to, under the same index; and once the sizes have been announced the
\* two tables are the same.  Blocks of streams that are gone take part in this
\* (nghttp2_session.c:6722-6765).
TablesAgree ==
  (\A i \in DOMAIN fwd : fwd[i].type = "ACK") =>
    /\ IsPrefix(TableOf(deflater.ctx), TableOf(inflater.ctx))
    /\ inflight = <<>> /\ ~deflater.notify =>
         /\ TableOf(deflater.ctx) = TableOf(inflater.ctx)
         /\ deflater.ctx.hd_table_bufsize_max = inflater.ctx.hd_table_bufsize_max

\* includes/nghttp2/nghttp2.h:1526-1528: before_frame_send_callback "can also
\* return NGHTTP2_ERR_CANCEL to cancel the transmission of the given frame", so
\* the frames after it arrive as they were sent.  Violated: the block of the
\* canceled frame has already changed the deflater's table.
CancelIsSafe == DecodedAsEncoded
===============================================================================
