---------------------------- MODULE RasterBackends ---------------------------
(***************************************************************************)
(* The StorageBackend trait (io/storage_backend.rs) as the Memory, PDS4,   *)
(* ISIS, Zarr and OpenEXR backends implement it: a document is written     *)
(* through a MemoryBinaryWriter, header first, then tiles through an image *)
(* sink, and is read back through a reader over the same bytes. A call     *)
(* that returns an error before it changes anything is a stuttering step.  *)
(* The backends do not keep a caller from putting a second document in a   *)
(* writer: which callers do not is a parameter.                            *)
(***************************************************************************)
EXTENDS BackendFormats

CONSTANTS
  Backends,     \* the backends of the instance
  ModelLists,   \* the images a document may have
  PayloadsOf,   \* for each backend, the payloads its callers write
  Careful,      \* the backends whose callers put one document in a writer
  MaxFaults,    \* how many tile writes the transport may cut short
  Unknown       \* the content of a tile nothing is promised about

PixelTypes ==
  {"UInt8", "UInt16", "UInt32", "Int16", "Int32", "Float32", "Float64"}
Model == [tiles: Nat, spp: Nat \ {0}, type: PixelTypes, compression: STRING,
          extent: BOOLEAN, tiled: BOOLEAN]

(* An image that is not tiled has no tiles to write. A tiled image carries *)
(* its tile width and height; one that is not carries zeros or nothing.    *)
ASSUME DocumentsAssumption ==
  /\ Backends \subseteq {"memory", "pds4", "isis", "zarr", "openexr"}
  /\ \A ms \in ModelLists :
       /\ ms # <<>> /\ ms \in Seq(Model)
       /\ \A i \in DOMAIN ms : IF ms[i].tiled THEN ms[i].extent ELSE ms[i].tiles = 0
  /\ PayloadsOf \in [Backends -> SUBSET Payloads] /\ Unknown \notin Payloads
  /\ Careful \subseteq {"zarr", "openexr"} /\ MaxFaults \in Nat

VARIABLES
  backend, models,
  form,      \* which header call was made: none, object or array
  bytes,     \* the writer's buffer, later what the reader reads
  wpos,      \* the writer's cursor
  sink,      \* the open image sink: its image and where its pixels start
  acked,     \* per image and tile, the last payload write_tile accepted
  faults,
  rpos,      \* the reader's cursor, or NoReader while the document is written
  source,    \* the open image source: its image and where the pixels start
  got        \* the tile the last read_tile returned

writing == <<form, bytes, wpos, sink, acked, faults>>
reading == <<rpos, source, got>>
vars == <<backend, models, writing, reading>>

NoReader == -1
NoSink == [image |-> 0, start |-> 0]
Unwound == [image |-> 0, start |-> -1]   \* a sink whose write_tile has panicked
NoSource == [image |-> <<>>, start |-> 0]

Tier == {"memory", "pds4", "isis"}   \* the backends that share the pixel tier

Init ==
  /\ backend \in Backends /\ models \in ModelLists
  /\ form = "none" /\ bytes = <<>> /\ wpos = 0 /\ sink = NoSink
  /\ acked = [i \in DOMAIN models |-> [t \in Tiles(models[i]) |-> Unknown]]
  /\ faults = 0
  /\ rpos = NoReader /\ source = NoSource /\ got = Unknown

------------------------------------------------------------------------------
(* Writing.                                                                *)

CanWrite == rpos = NoReader /\ sink = NoSink

(* Where a run leaves the cursor: at its end, or, as OpenEXR fills in its  *)
(* chunk table last, after that table, which follows the header.           *)
CursorAfter(end) == {end} \union IF backend = "openexr" THEN {1} ELSE {}

Write(run) ==
  /\ bytes' = Overwrite(bytes, wpos, run)
  /\ wpos' \in CursorAfter(wpos + Len(run))

(* What a careful caller sees to before it opens a Zarr sink or writes an  *)
(* OpenEXR tile: each puts a whole header where the cursor is.             *)
WriterIsFresh == backend \in Careful => bytes = <<>>

(* serialize_model. A caller serializes a document once, before its pixels.*)
SerializeModel ==
  /\ CanWrite /\ form = "none" /\ bytes = <<>>
  /\ HeaderOk(backend, models)
  /\ Write(Header(backend, models))
  /\ form' = "object"
  /\ UNCHANGED <<backend, models, sink, acked, faults, reading>>

(* serialize_model_list: only the memory backend has it.                   *)
SerializeModelList ==
  /\ CanWrite /\ form = "none" /\ bytes = <<>>
  /\ backend = "memory"
  /\ Write(ModelJson("array", models))
  /\ form' = "array"
  /\ UNCHANGED <<backend, models, sink, acked, faults, reading>>

(* open_image_sink: Zarr writes the header at the cursor, whether or not   *)
(* it was written before, and the others only move the cursor to where the *)
(* pixels start, which must lie within the extent. OpenEXR leaves the      *)
(* cursor alone.                                                           *)
OpenSink ==
  LET start == SinkStart(backend, models) IN
  /\ CanWrite /\ form # "array"
  /\ SinkOk(backend, models)
  /\ backend = "zarr" => WriterIsFresh
  /\ bytes' = IF backend = "zarr" THEN Overwrite(bytes, wpos, Header(backend, models))
              ELSE bytes
  /\ SeekOk(bytes', start)
  /\ wpos' = IF backend = "openexr" THEN wpos ELSE start
  /\ sink' = [image |-> 1, start |-> start]
  /\ form' = "object"
  /\ UNCHANGED <<backend, models, acked, faults, reading>>

(* MemoryBackend::open_image_sink_at: every image must have a layout, also *)
(* those after the one that is opened.                                     *)
OpenSinkAt(i) ==
  LET start == ImagePixelOffset(models, i, JsonLen("array", models)) IN
  /\ CanWrite /\ form = "array"
  /\ \A j \in DOMAIN models : ImageInfoOk(models[j])
  /\ SeekOk(bytes, start)
  /\ wpos' = start
  /\ sink' = [image |-> i, start |-> start]
  /\ UNCHANGED <<backend, models, form, bytes, acked, faults, reading>>

(* Where write_tile seeks to, and the cells it then writes.                *)
TileAt(m, t) ==
  CASE backend \in Tier -> TileOffset(m, sink.start, t)
    [] backend = "zarr" -> SlotOffset(m, sink.start, t)
    [] backend = "openexr" -> wpos

TileCells(m, p) ==
  CASE backend \in Tier -> TileRun(p, TileBytes(m))
    [] backend = "zarr" -> Slot(m, Compressed(m, p))
    [] backend = "openexr" -> ExrDocument(m, TileRun(p, m.spp))

(* A tile of an accepted size at an index of the layout. A compressed      *)
(* chunk must fit its slot. OpenEXR encodes a whole document at the cursor.*)
Writable(m, t, p) ==
  /\ t \in Tiles(m) /\ p \in PayloadsOf[backend]
  /\ backend = "zarr" => 1 + Len(Compressed(m, p)) <= SlotSize(m)
  /\ backend = "openexr" => WriterIsFresh
  /\ SeekOk(bytes, TileAt(m, t))

(* ImageSink::write_tile.                                                  *)
WriteTile(t, p) ==
  LET m == models[sink.image] IN
  /\ sink.image # 0 /\ Writable(m, t, p)
  /\ bytes' = Overwrite(bytes, TileAt(m, t), TileCells(m, p))
  /\ wpos' \in CursorAfter(TileAt(m, t) + Len(TileCells(m, p)))
  /\ acked' = [acked EXCEPT ![sink.image][t] = p]
  /\ UNCHANGED <<backend, models, form, sink, faults, reading>>

(* The transport accepts fewer cells than asked for: write_tile returns an *)
(* error and leaves what was written. If it is a chunk of an OpenEXR       *)
(* document that cannot be written, write_tile panics instead: only what   *)
(* goes wrong with the header, the table or the last flush is an error.    *)
WriteTileFails(t, p) ==
  LET m == models[sink.image]
      run == TileCells(m, p)
  IN
  /\ sink.image # 0 /\ Writable(m, t, p) /\ faults < MaxFaults
  /\ \E n \in 0 .. Len(run) - 1 :
       /\ bytes' = Overwrite(bytes, TileAt(m, t), SubSeq(run, 1, n))
       /\ wpos' = TileAt(m, t) + n
  /\ acked' = [acked EXCEPT ![sink.image][t] = Unknown]
  /\ faults' = faults + 1
  /\ sink' \in {sink} \union IF backend = "openexr" THEN {Unwound} ELSE {}
  /\ UNCHANGED <<backend, models, form, reading>>

(* Unwinding drops a sink, too.                                            *)
DropSink ==
  /\ sink # NoSink /\ sink' = NoSink
  /\ UNCHANGED <<backend, models, form, bytes, wpos, acked, faults, reading>>

------------------------------------------------------------------------------
(* Reading.                                                                *)

(* take_buffer, and a reader over the bytes; or a new reader over them.    *)
NewReader ==
  /\ sink = NoSink /\ form # "none"
  /\ rpos' = 0 /\ source' = NoSource /\ got' = Unknown
  /\ UNCHANGED <<backend, models, writing>>

CanOpen == rpos # NoReader /\ source = NoSource

(* deserialize_model: moves the reader, whatever it finds.                 *)
DeserializeModel ==
  /\ CanOpen
  /\ rpos' = Document(backend, bytes, rpos).cursor
  /\ UNCHANGED <<backend, models, writing, source, got>>

(* Where an image's pixels start in a document opened by image index.      *)
ListStart(list, i) == ImagePixelOffset(list.images, i, list.start)

(* open_image_source: the first image of an object document. The memory    *)
(* pixel tier gives it a layout only if it is tiled and uncompressed.      *)
OpenSource ==
  LET doc == Document(backend, bytes, rpos) IN
  /\ CanOpen
  /\ rpos' = doc.cursor
  /\ source' = IF doc.ok /\ (backend \in Tier =>
                    \A j \in DOMAIN doc.images : ImageInfoOk(doc.images[j]))
                 THEN [image |-> <<doc.images[1]>>, start |-> doc.start] ELSE NoSource
  /\ UNCHANGED <<backend, models, writing, got>>

(* MemoryBackend::open_image_source_at.                                    *)
OpenSourceAt(i) ==
  LET doc == ReadJson(bytes, rpos, "array") IN
  /\ CanOpen /\ backend = "memory"
  /\ rpos' = doc.cursor
  /\ source' = IF /\ doc.ok /\ i \in DOMAIN doc.images
                  /\ \A j \in DOMAIN doc.images : ImageInfoOk(doc.images[j])
                 THEN [image |-> <<doc.images[i]>>, start |-> ListStart(doc, i)]
               ELSE NoSource
  /\ UNCHANGED <<backend, models, writing, got>>

(* ImageSource::read_tile. The pixel tier leaves the cursor after the tile;*)
(* the place is not kept for Zarr and OpenEXR, which rewind to open again. *)
ReadTile(t) ==
  /\ source # NoSource
  /\ got' = SourceTile(backend, bytes, source.image[1], source.start, t)
  /\ rpos' = IF got' = Refused \/ backend \notin Tier THEN rpos
             ELSE TileOffset(source.image[1], source.start, t) + TileBytes(source.image[1])
  /\ UNCHANGED <<backend, models, writing, source>>

DropSource ==
  /\ source # NoSource /\ source' = NoSource
  /\ UNCHANGED <<backend, models, writing, rpos, got>>

Next ==
  \/ SerializeModel \/ SerializeModelList
  \/ OpenSink \/ DropSink
  \/ \E i \in DOMAIN models : OpenSinkAt(i) \/ OpenSourceAt(i)
  \/ \E t \in UNION {Tiles(m) : m \in {models[i] : i \in DOMAIN models}} :
       \/ \E p \in Payloads : sink.image # 0 /\ (WriteTile(t, p) \/ WriteTileFails(t, p))
       \/ ReadTile(t)
  \/ NewReader \/ DeserializeModel \/ OpenSource \/ DropSource

Spec == Init /\ [][Next]_vars

------------------------------------------------------------------------------
(* Properties.                                                             *)

Contents == Payloads \union {Unknown, Garbled, Refused, Blank}

(* Every variable stays in its range; the cursors stay within the extent.  *)
TypeOK ==
  /\ backend \in Backends /\ models \in ModelLists
  /\ form \in {"none", "object", "array"}
  /\ wpos \in 0 .. Len(bytes)
  /\ \/ sink = Unwound
     \/ sink.image \in {0} \union DOMAIN models /\ sink.start \in 0 .. Len(bytes)
  /\ \A i \in DOMAIN models :
       acked[i] \in [Tiles(models[i]) -> PayloadsOf[backend] \union {Unknown}]
  /\ faults \in 0 .. MaxFaults
  /\ rpos \in {NoReader} \union 0 .. Len(bytes)
  /\ Len(source.image) <= 1 /\ source.start \in Nat
  /\ got \in Contents

(* What a tile reads as through a source a new reader opens on the bytes:  *)
(* any image of a list, the first of an object document.                   *)
FreshRead(i, t) ==
  LET doc == IF form = "array" THEN ReadJson(bytes, 0, "array")
             ELSE Document(backend, bytes, 0)
      start == IF form = "array" THEN ListStart(doc, i) ELSE doc.start
  IN  IF doc.ok /\ i \in (IF form = "array" THEN DOMAIN doc.images ELSE {1})
        THEN SourceTile(backend, bytes, doc.images[i], start, t)
      ELSE Refused

Acked(i, t) == acked[i][t] # Unknown

(* A tile whose write_tile returned Ok reads back as exactly what was      *)
(* written, whatever was written to or failed on other tiles since: the    *)
(* place the sink works out from the model is the place the source works   *)
(* out from the bytes.                                                     *)
RoundTrip ==
  \A i \in DOMAIN models : \A t \in Tiles(models[i]) :
    Acked(i, t) => FreshRead(i, t) = acked[i][t]

(* Writing a tile results in Ok or an error, whatever the transport does.  *)
WriteReturns == sink # Unwound

(* As long as no write failed, a tile that was never written is refused,   *)
(* not read out of a header, padding or another image; OpenEXR, whose      *)
(* header call writes a whole image, reads zeros.                          *)
NothingInvented ==
  faults = 0 =>
    \A i \in DOMAIN models : \A t \in Tiles(models[i]) :
      ~Acked(i, t) => FreshRead(i, t) \in {Refused} \union
                        IF backend = "openexr" THEN {Blank} ELSE {}

(* A source that opened on a reader that was used before reads what a      *)
(* source on a new reader reads: opening from a cursor anywhere either     *)
(* fails or finds the same pixels.                                         *)
SourceAligned ==
  source # NoSource =>
    \E i \in DOMAIN models : \A t \in Tiles(models[i]) :
      SourceTile(backend, bytes, source.image[1], source.start, t) = FreshRead(i, t)
=============================================================================
