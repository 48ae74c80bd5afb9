----------------------------- MODULE TiffWriter -----------------------------
(***************************************************************************)
(* The write side of the TIFF backend: plan_tiff_write and                 *)
(* plan_tiff_write_multi lay a file out, serialize_model(_list) writes the *)
(* header and the chain of IFDs, and one TiffImageSink at a time writes    *)
(* the tiles of an image and back-patches the slots of its IFD.            *)
(*                                                                         *)
(* The output is the buffer of a MemoryBinaryWriter, one cell per word: a  *)
(* word is the width of one offset-typed value (4 bytes in classic TIFF, 8 *)
(* in BigTIFF), which is also what fits in an entry's inline value area in *)
(* either container. Sizes and addresses count words. An IFD is reduced to *)
(* four entries, in tag order: BitsPerSample (which may spill out of line, *)
(* like every lower tag), the data offsets, the byte counts, and           *)
(* SampleFormat (for every higher tag).                                    *)
(***************************************************************************)
EXTENDS Integers, Sequences

CONSTANTS
  HeaderSize,   \* words of the file header; its last one is the first-IFD offset
  CountField,   \* words of an IFD's entry-count field
  EntrySize,    \* words of one entry record
  ValueAt,      \* where the inline value area starts within a record
  NextField,    \* words of the next-IFD field
  SlotMax,      \* the largest value a slot can hold (u32::MAX in classic TIFF)
  Payloads,     \* what one tile may contain
  EncLen,       \* the size of each payload once encoded
  Files,        \* the lists of images a caller may ask for
  MaxFaults,    \* bound: how many tile writes may fail halfway
  Unknown,      \* the content of a tile nothing is promised about
  Garbled       \* what a reader gets when the bytes are not those of a payload

Image == [tiled: BOOLEAN, wide: BOOLEAN, compressed: BOOLEAN,
          tiles: Nat \ {0}, raw: Nat \ {0}, samples: Nat \ {0}]

ASSUME ContainerAssumption ==
  /\ HeaderSize \in Nat \ {0} /\ CountField \in Nat \ {0} /\ NextField \in Nat \ {0}
  /\ EntrySize \in Nat /\ ValueAt \in Nat /\ ValueAt < EntrySize
  /\ SlotMax \in Nat /\ MaxFaults \in Nat

ASSUME CallerAssumption ==
  /\ EncLen \in [Payloads -> Nat \ {0}]
  /\ Unknown \notin Payloads /\ Garbled \notin Payloads /\ Unknown # Garbled
  /\ Files \subseteq Seq(Image) \ {<< >>}
  /\ \A f \in Files : \A i \in 1 .. Len(f) : ~f[i].tiled => f[i].tiles = 1

VARIABLES
  images,   \* the caller's image list
  viaList,  \* planned by plan_tiff_write_multi (TRUE) or plan_tiff_write (FALSE)
  phase,    \* "ifds", "data", "chain", "pixels" or "rejected"
  ifdAt,    \* planned address of each IFD
  dataAt,   \* planned address of each image's data region
  cursor,   \* the planner's running offset
  written,  \* IFDs serialized so far
  buf,      \* the words written
  size,     \* extent of the buffer
  sink,     \* the open sink: image (0: none), next tile and write offset
  acked,    \* the payload last written to each tile with Ok, or Unknown
  faults    \* tile writes that failed halfway so far

plan == <<images, viaList, ifdAt, dataAt, cursor, written>>
vars == <<plan, phase, buf, size, sink, acked, faults>>

------------------------------------------------------------------------------
(* Layout of one image.                                                    *)

Count == Len(images)
Tiles(m) == 0 .. m.tiles - 1

(* Planners with a bug: one that pads each region, one that reserves a     *)
(* single tile.                                                            *)
SpanPadded(m) == m.tiles * m.raw + 1
SpanOfOneTile(m) == m.raw
Span(m) == m.tiles * m.raw

(* A value array longer than one word does not fit inline and is written   *)
(* after the fixed part of the IFD.                                        *)
Spill(n) == IF n > 1 THEN n ELSE 0

NextRel == CountField + 4 * EntrySize
FixedSize == NextRel + NextField

(* tiff_ifd_byte_size *)
IfdSize(m) == FixedSize + Spill(m.samples) + 2 * Spill(m.tiles)

(* value_slot_offsets_relative: the address, from the IFD's first word, of *)
(* the first data offset ("offset") or byte count ("count").               *)
SlotBase(m, which) ==
  IF m.tiles = 1
  THEN CountField + (IF which = "offset" THEN 1 ELSE 2) * EntrySize + ValueAt
  ELSE FixedSize + Spill(m.samples) + (IF which = "offset" THEN 0 ELSE m.tiles)

(* The planner rejects tiled and compressed images of a list, by the tile  *)
(* width: a tile as wide as the image passes for a strip.                  *)
Rejects(m) == m.compressed /\ m.tiled /\ ~m.wide

------------------------------------------------------------------------------
(* The words of the file.                                                  *)

Num(v) == <<"num", v, 0>>
Block(kind, p, n) == [k \in 0 .. n - 1 |-> <<kind, p, k>>]

(* MemoryBinaryWriter::write of n words at an address within the buffer.   *)
Extent(at, n) == IF at + n > size THEN at + n ELSE size

(* A writer with a bug: it overwrites but never grows the buffer. *)
PutInPlace(b, at, block, n) ==
  [a \in 0 .. size - 1 |-> IF at <= a /\ a < at + n THEN block[a - at] ELSE b[a]]
PutIn(b, at, block, n) ==
  [a \in 0 .. Extent(at, n) - 1 |->
     IF at <= a /\ a < at + n THEN block[a - at] ELSE b[a]]
Put(at, block, n) == PutIn(buf, at, block, n)

(* patch_value_at, on the buffer b *)
Patch(b, a, v) == [b EXCEPT ![a] = Num(v)]

(* write_tiff_ifd: the r-th word of image i's IFD. A compressed strip's    *)
(* byte count is a placeholder until the sink patches it.                  *)
IfdWord(i, r) ==
  LET m == images[i]
      entry(which) == r - SlotBase(m, which)
  IN  IF r = NextRel
        THEN Num(IF i < Count THEN ifdAt[i + 1] ELSE 0)
      ELSE IF entry("offset") \in Tiles(m)
        THEN Num(dataAt[i] + entry("offset") * m.raw)
      ELSE IF entry("count") \in Tiles(m)
        THEN Num(IF m.compressed /\ ~m.tiled THEN 0 ELSE m.raw)
      ELSE <<"ifd", i, r>>

(* What a reader sees of tile t: it takes offset and count from image i's  *)
(* own IFD and decodes the words found there.                              *)
Slot(i, which, t) == ifdAt[i] + SlotBase(images[i], which) + t
Holds(at, kind, p, n) ==
  at + n <= size /\ \A k \in 0 .. n - 1 : buf[at + k] = <<kind, p, k>>
Stored(i, t, p) ==
  LET m == images[i]
      kind == IF m.compressed THEN "enc" ELSE "raw"
      n == IF m.compressed THEN EncLen[p] ELSE m.raw
      offset == buf[Slot(i, "offset", t)]
  IN  /\ offset[1] = "num" /\ Holds(offset[2], kind, p, n)
      /\ buf[Slot(i, "count", t)] = Num(n)
ReadTile(i, t) ==
  IF \E p \in Payloads : Stored(i, t, p)
  THEN CHOOSE p \in Payloads : Stored(i, t, p)
  ELSE Garbled

------------------------------------------------------------------------------
Closed == [image |-> 0, next |-> 0, at |-> 0]

Init ==
  /\ images \in Files
  /\ viaList \in IF Len(images) = 1 THEN BOOLEAN ELSE {TRUE}
  /\ phase = "ifds"
  /\ ifdAt = << >> /\ dataAt = << >> /\ cursor = HeaderSize /\ written = 0
  /\ buf = [a \in {} |-> Num(0)] /\ size = 0
  /\ sink = Closed
  /\ acked = [i \in 1 .. Len(images) |-> [t \in Tiles(images[i]) |-> Unknown]]
  /\ faults = 0

(* Planning: every IFD after the header, then every data region after the  *)
(* last IFD, each of the size of the raw pixels.                           *)
PlanIfd ==
  /\ phase = "ifds"
  /\ IF viaList /\ \E i \in 1 .. Count : Rejects(images[i])
     THEN phase' = "rejected" /\ UNCHANGED <<ifdAt, cursor>>
     ELSE LET i == Len(ifdAt) + 1
          IN  /\ ifdAt' = Append(ifdAt, cursor)
              /\ cursor' = cursor + IfdSize(images[i])
              /\ phase' = IF i = Count THEN "data" ELSE "ifds"
  /\ UNCHANGED <<images, viaList, dataAt, written, buf, size, sink, acked, faults>>

PlanData ==
  /\ phase = "data"
  /\ LET i == Len(dataAt) + 1
         m == images[i]
     IN  IF cursor + (m.tiles - 1) * m.raw > SlotMax \/ m.raw > SlotMax
         THEN phase' = "rejected" /\ UNCHANGED <<dataAt, cursor>>
         ELSE /\ dataAt' = Append(dataAt, cursor)
              /\ cursor' = cursor + Span(m)
              /\ phase' = IF i = Count THEN "chain" ELSE "data"
  /\ UNCHANGED <<images, viaList, ifdAt, written, buf, size, sink, acked, faults>>

(* serialize_model(_list): the header with the first IFD, then one IFD     *)
(* after the other at the writer's position.                               *)
Serialize ==
  /\ phase = "chain"
  /\ LET i == written + 1
         head == IF written = 0 THEN HeaderSize ELSE 0
         n == head + IfdSize(images[i])
     IN  /\ buf' = Put(size, [k \in 0 .. n - 1 |->
                                IF k >= head THEN IfdWord(i, k - head)
                                ELSE IF k = HeaderSize - 1 THEN Num(ifdAt[1])
                                ELSE <<"header", 0, k>>], n)
         /\ size' = size + n
         /\ written' = i
         /\ phase' = IF i = Count THEN "pixels" ELSE "chain"
  /\ UNCHANGED <<images, viaList, ifdAt, dataAt, cursor, sink, acked, faults>>

------------------------------------------------------------------------------
(* One image at a time through a TiffImageSink.                            *)

(* open_image_sink(_at): re-plans, seeks to the image's data region and    *)
(* starts over at its first tile. A seek beyond the buffer fails.          *)
OpenSink(i) ==
  /\ phase = "pixels" /\ sink = Closed
  /\ dataAt[i] <= size
  /\ sink' = [image |-> i, next |-> 0, at |-> dataAt[i]]
  /\ UNCHANGED <<plan, phase, buf, size, acked, faults>>

DropSink ==
  /\ sink # Closed
  /\ sink' = Closed
  /\ UNCHANGED <<plan, phase, buf, size, acked, faults>>

(* A write of the open sink's tile t ends with Ok: the caller may rely on  *)
(* it. In a packed image a later tile of an earlier sink may be overwritten*)
(* by this one, so nothing is promised of it any more.                     *)
Packed(m) == m.tiled /\ m.compressed
Promise(t, p) ==
  acked' = [acked EXCEPT ![sink.image] =
              [u \in DOMAIN @ |-> IF u = t THEN p
                                  ELSE IF u > t /\ Packed(images[sink.image]) THEN Unknown
                                  ELSE @[u]]]

Fault == faults < MaxFaults /\ faults' = faults + 1

(* Uncompressed: the tile goes to its planned place, in any order, as long *)
(* as that is not beyond what was written.                                 *)
WriteRaw(t, p) ==
  LET m == images[sink.image]
      at == dataAt[sink.image] + t * m.raw
  IN  /\ sink # Closed /\ ~m.compressed /\ t \in Tiles(m)
      /\ at <= size
      /\ \/ /\ buf' = Put(at, Block("raw", p, m.raw), m.raw)
            /\ size' = Extent(at, m.raw)
            /\ Promise(t, p)
            /\ UNCHANGED faults
         \/ /\ Fault
            /\ \E h \in 0 .. m.raw - 1 :
                 /\ buf' = Put(at, Block("raw", p, h), h)
                 /\ size' = Extent(at, h)
            /\ Promise(t, Unknown)
      /\ UNCHANGED <<plan, phase, sink>>

(* Compressed strip: the byte count is patched into the IFD, then the      *)
(* encoded strip is written at its planned place.                          *)
WriteStrip(p) ==
  LET i == sink.image
      m == images[i]
      slot == ifdAt[i] + SlotBase(m, "count")
      patched == Patch(buf, slot, EncLen[p])
  IN  /\ sink # Closed /\ m.compressed /\ ~m.tiled
      /\ EncLen[p] <= SlotMax
      /\ slot < size /\ dataAt[i] <= size
      /\ \/ /\ buf' = PutIn(patched, dataAt[i], Block("enc", p, EncLen[p]), EncLen[p])
            /\ size' = Extent(dataAt[i], EncLen[p])
            /\ Promise(0, p)
            /\ UNCHANGED faults
         \/ /\ Fault
            /\ \E h \in 0 .. EncLen[p] - 1 :
                 /\ buf' = PutIn(patched, dataAt[i], Block("enc", p, h), h)
                 /\ size' = Extent(dataAt[i], h)
            /\ Promise(0, Unknown)
      /\ UNCHANGED <<plan, phase, sink>>

(* A planner with a bug: it overlooks the lower tags' values out of line.  *)
TileSlotInline(m, which, t) == HeaderSize + SlotBase(m, which) + t - Spill(m.samples)

(* The planner computes the slots of tiles for an IFD right after the      *)
(* header, and plan_tiff_write_multi does not rebase them.                 *)
TileSlot(m, which, t) == HeaderSize + SlotBase(m, which) + t

(* Sinks with a bug: one advances to where the next tile is planned, one   *)
(* to the last word of this tile.                                          *)
AdvanceByPlan(n) == [sink EXCEPT !.at = dataAt[sink.image] + (sink.next + 1)]
AdvanceShort(n) == [sink EXCEPT !.at = @ + n - 1]
Advance(n) == [sink EXCEPT !.at = @ + n]

(* write_pre_encoded_compressed_tile: the next tile in order is packed at  *)
(* the running offset, which advances at once; then its offset and byte    *)
(* count are patched, and only then the next tile is expected.             *)
WriteTile(p) ==
  LET m == images[sink.image]
      t == sink.next
      n == EncLen[p]
      stored == Put(sink.at, Block("enc", p, n), n)
  IN  /\ sink # Closed /\ Packed(m) /\ t \in Tiles(m)
      /\ n <= SlotMax /\ sink.at <= SlotMax
      /\ sink.at <= size
      /\ buf' = Patch(Patch(stored, TileSlot(m, "offset", t), sink.at),
                      TileSlot(m, "count", t), n)
      /\ size' = Extent(sink.at, n)
      /\ sink' = [Advance(n) EXCEPT !.next = t + 1]
      /\ Promise(t, p)
      /\ UNCHANGED <<plan, phase, faults>>

(* The steps of WriteTile one by one until one fails: "data" writes h      *)
(* words of the tile, "offset" fails to patch the offset (as it must when  *)
(* that does not fit the slot), "count" the byte count, "seek" the last    *)
(* seek. Only the first leaves the running offset where it was.            *)
WriteTileFails(p, step) ==
  LET m == images[sink.image]
      t == sink.next
      n == EncLen[p]
      stored == Put(sink.at, Block("enc", p, n), n)
      offsetPatched == Patch(stored, TileSlot(m, "offset", t), sink.at)
  IN  /\ sink # Closed /\ Packed(m) /\ t \in Tiles(m)
      /\ n <= SlotMax /\ (step \in {"count", "seek"} => sink.at <= SlotMax)
      /\ sink.at <= size
      /\ Fault
      /\ \/ /\ step = "data"
            /\ \E h \in 0 .. n - 1 :
                 /\ buf' = Put(sink.at, Block("enc", p, h), h)
                 /\ size' = Extent(sink.at, h)
            /\ UNCHANGED sink
         \/ /\ step # "data"
            /\ buf' = CASE step = "offset" -> stored
                        [] step = "count"  -> offsetPatched
                        [] step = "seek"   ->
                             Patch(offsetPatched, TileSlot(m, "count", t), n)
            /\ size' = Extent(sink.at, n)
            /\ sink' = Advance(n)
      /\ Promise(t, Unknown)
      /\ UNCHANGED <<plan, phase>>

Next ==
  \/ PlanIfd
  \/ PlanData
  \/ Serialize
  \/ \E i \in 1 .. Count : OpenSink(i)
  \/ DropSink
  \/ \E p \in Payloads :
       \/ \E i \in 1 .. Count : \E t \in Tiles(images[i]) : sink.image = i /\ WriteRaw(t, p)
       \/ WriteStrip(p)
       \/ WriteTile(p)
       \/ \E step \in {"data", "offset", "count", "seek"} : WriteTileFails(p, step)

Spec == Init /\ [][Next]_vars

------------------------------------------------------------------------------
(* Properties.                                                             *)

Word == {"header", "ifd", "num", "raw", "enc"} \X (Nat \union Payloads) \X Nat

(* Every variable stays in its range; in particular the extent of the      *)
(* buffer and the running offset of a sink are those of the words written. *)
TypeOK ==
  /\ images \in Files /\ viaList \in BOOLEAN
  /\ phase \in {"ifds", "data", "chain", "pixels", "rejected"}
  /\ ifdAt \in Seq(Nat) /\ dataAt \in Seq(Nat)
  /\ cursor \in Nat /\ written \in 0 .. Count
  /\ size \in Nat /\ buf \in [0 .. size - 1 -> Word]
  /\ sink \in [image: 0 .. Count, next: Nat, at: Nat]
  /\ DOMAIN acked = 1 .. Count
  /\ \A i \in 1 .. Count : acked[i] \in [Tiles(images[i]) -> Payloads \union {Unknown}]
  /\ faults \in 0 .. MaxFaults

Acked(i, t) == acked[i][t] # Unknown

(* A tile whose write_tile returned Ok reads back, through the offset and  *)
(* byte count of its own IFD, as exactly what was written, whatever was    *)
(* written to or failed on other tiles and images since.                   *)
RoundTrip ==
  \A i \in 1 .. Count : \A t \in Tiles(images[i]) :
    Acked(i, t) => ReadTile(i, t) = acked[i][t]

IsSlot(m, r) ==
  \E which \in {"offset", "count"} : r - SlotBase(m, which) \in Tiles(m)
Patched(m, r) ==
  m.compressed /\ IF m.tiled THEN IsSlot(m, r) ELSE r = SlotBase(m, "count")

(* No tile write damages the header or any image's IFD: the chain of IFDs  *)
(* and every entry stay as serialized, but for the slots the sink of that  *)
(* very image patches.                                                     *)
ChainIntact ==
  phase = "pixels" =>
    /\ buf[HeaderSize - 1] = Num(ifdAt[1])
    /\ \A i \in 1 .. Count : \A r \in 0 .. IfdSize(images[i]) - 1 :
         ~Patched(images[i], r) => buf[ifdAt[i] + r] = IfdWord(i, r)

OffsetOf(i, t) == buf[Slot(i, "offset", t)][2]

(* The tiles of a tiled and compressed image the current sink wrote lie    *)
(* one after the other without overlap between the image's data offset and *)
(* the sink's running offset, even when a failed tile was written again.   *)
PackedTiles ==
  \A i \in 1 .. Count :
    Packed(images[i]) /\ sink.image = i =>
      \A t \in 0 .. sink.next - 1 :
        /\ Acked(i, t)
        /\ IF t = 0 THEN OffsetOf(i, t) >= dataAt[i]
           ELSE OffsetOf(i, t) >= OffsetOf(i, t - 1) + EncLen[acked[i][t - 1]]
        /\ OffsetOf(i, t) + EncLen[acked[i][t]] <= sink.at
        /\ sink.at <= size

(* Every tile of image i was written, and none is smaller in the file than *)
(* the raw pixels that the planner reserves for it.                        *)
Complete(i) == \A t \in Tiles(images[i]) : Acked(i, t)
FillsRegion(i) ==
  LET m == images[i]
  IN  /\ Complete(i)
      /\ m.compressed => ~m.tiled /\ EncLen[acked[i][0]] >= m.raw

(* A caller that writes images and tiles in order is not refused because a *)
(* seek would leave a gap, as long as no image before was compressed to    *)
(* less than its raw size: the place of the next image, and of its next    *)
(* uncompressed tile, is then within the buffer.                           *)
InOrderReachable ==
  phase = "pixels" =>
    \A i \in 1 .. Count :
      (\A j \in 1 .. i - 1 : FillsRegion(j)) =>
        /\ dataAt[i] <= size
        /\ \A t \in Tiles(images[i]) :
             ~images[i].compressed /\ (\A u \in 0 .. t - 1 : Acked(i, u)) =>
               dataAt[i] + t * images[i].raw <= size

(* What to_bytes_with_pixels says: rasters are taken in file order, and no *)
(* error is named for a scene that can be planned. So once every image     *)
(* before was written, a sink opens on the next one.                       *)
FileOrderAccepted ==
  phase = "pixels" =>
    \A i \in 1 .. Count : (\A j \in 1 .. i - 1 : Complete(j)) => dataAt[i] <= size

(* The writer implements the tile store: the content of a tile is what its *)
(* IFD leads a reader to.                                                  *)
ShapeOf(f) ==
  [i \in 1 .. Len(f) |-> [tiles |-> f[i].tiles, packed |-> Packed(f[i])]]
Store == INSTANCE TileStore WITH
  Shapes <- {ShapeOf(f) : f \in Files},
  shape  <- ShapeOf(images),
  store  <- [i \in 1 .. Count |-> [t \in Tiles(images[i]) |->
               IF Acked(i, t) THEN ReadTile(i, t) ELSE Unknown]]
ImplementsTileStore == Store!Spec
=============================================================================
