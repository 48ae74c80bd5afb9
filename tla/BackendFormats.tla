---------------------------- MODULE BackendFormats ---------------------------
(***************************************************************************)
(* What the Memory, PDS4, ISIS, Zarr and OpenEXR backends put in front of  *)
(* an image's pixels, which images each accepts, and how each finds the    *)
(* pixels again when it opens a document. An image is a flat StorageModel: *)
(* its tiles, samples per pixel, pixel type and compression, whether it    *)
(* carries a tile width and height, and whether they make it tiled, that   *)
(* is, are not zero. Headers, labels and JSON texts are runs of cells that *)
(* carry the images they describe.                                         *)
(***************************************************************************)
EXTENDS PixelTier

CONSTANTS
  Text,      \* the payloads whose bytes are valid UTF-8
  Ending,    \* of those, the payloads that contain the line End
  CompLen,   \* the cells a payload takes when compressed
  ShapeLens, \* the cells of a Zarr array header, by the rank of its shape
  Slack,     \* how far a compressed chunk may exceed the raw one
  Scan       \* how many cells ISIS scans for the end of its label

ASSUME ChunksAssumption == CompLen \in [Payloads -> Nat \ {0}] /\ Slack \in Nat
ASSUME ShapeAssumption == ShapeLens \in [{2, 3} -> Nat \ {0}]

TextRun(kind, ms, n) == [k \in 1 .. n |-> <<kind, ms, k>>]
LengthWord(n) == <<"len", n, 0>>

(* The images a text describes, when n whole pieces of it, at least one,   *)
(* are at a place; otherwise none: the text does not parse.                *)
ParsedText(bytes, at, kind, n) ==
  IF at + n > Len(bytes) \/ n = 0 THEN <<>>
  ELSE LET run == ReadAt(bytes, at, n)
       IN  IF run[1][1] = kind /\ run = TextRun(kind, run[1][2], n) THEN run[1][2] ELSE <<>>

(* The image a single-image call is about: the first child of a root model.*)
First(ms) == ms[1]

(* Opening a document results in the images, where the pixels start and    *)
(* where the call leaves the reader's cursor.                              *)
Opened(ms, start, cursor) == [ok |-> ms # <<>>, images |-> ms, start |-> start, cursor |-> cursor]
NotOpened(cursor) == Opened(<<>>, 0, cursor)

------------------------------------------------------------------------------
(* Memory: a JSON object for serialize_model, a JSON array for             *)
(* serialize_model_list, of different lengths.                             *)

JsonLen(form, ms) == (IF form = "object" THEN 2 ELSE 1) + Len(ms)
ModelJson(form, ms) == TextRun(form, ms, JsonLen(form, ms))

(* Mutant: the document is read from its start, the prefix counted from    *)
(* the cursor.                                                             *)
ReadJsonAdrift(bytes, cursor, form) ==
  LET ms == IF bytes # <<>> THEN bytes[1][2] ELSE <<>>
      found == bytes # <<>> /\ bytes[1][1] = form
  IN  IF found THEN Opened(ParsedText(bytes, 0, form, JsonLen(form, ms)),
                           cursor + JsonLen(form, ms), Len(bytes))
      ELSE NotOpened(Len(bytes))

(* The text from the cursor to the end, of which the first JSON value is   *)
(* decoded. The pixels start the length of that value, encoded again, from *)
(* the start of the document, wherever the cursor was.                     *)
ReadJson(bytes, cursor, form) ==
  IF cursor >= Len(bytes) \/ bytes[cursor + 1][1] # form THEN NotOpened(Len(bytes))
  ELSE LET n == JsonLen(form, bytes[cursor + 1][2])
       IN  Opened(ParsedText(bytes, cursor, form, n), n, Len(bytes))

------------------------------------------------------------------------------
(* PDS4: a length word and an XML label of one piece of text and its       *)
(* closing tags.                                                           *)

LabelLen == 2
Pds4Label(m) == TextRun("label", <<m>>, LabelLen)
ParsedPds4Label(bytes, at, n) == ParsedText(bytes, at, "label", n)

Pds4Header(m) == <<LengthWord(Len(Pds4Label(m)))>> \o Pds4Label(m)

ReadPds4(bytes) ==
  IF bytes = <<>> \/ bytes[1][1] # "len" THEN NotOpened(0)
  ELSE LET n == bytes[1][2] IN Opened(ParsedPds4Label(bytes, 1, n), 1 + n, 1 + n)

------------------------------------------------------------------------------
(* ISIS: a text label that ends in the line End, without a length.         *)

(* A label is within what is scanned. *)
ASSUME ScanAssumption == Scan \in Nat /\ Scan >= LabelLen

UnsignedOrReal == {"UInt8", "UInt16", "UInt32", "Float32", "Float64"}

IsisLabelOk(m) == m.type \in UnsignedOrReal
IsisLabel(m) == TextRun("label", <<m>>, LabelLen)
ParsedIsisLabel(bytes, n) == ParsedText(bytes, 0, "label", n)

IsText(cell) == cell[1] = "label" \/ (cell[1] = "pix" /\ cell[2] \in Text)
EndsHere(cell) ==
  (cell[1] = "label" /\ cell[3] = LabelLen) \/ (cell[1] = "pix" /\ cell[2] \in Ending)

(* Rewinds and scans the front of the document, all of which must be text; *)
(* the last End line found is taken for the end of the label. Parsing skips*)
(* the lines after the label's own End.                                    *)
ReadIsis(bytes) ==
  LET n == IF Len(bytes) < Scan THEN Len(bytes) ELSE Scan
      ends == {c \in 1 .. n : EndsHere(bytes[c])}
  IN  IF ends = {} \/ \E c \in 1 .. n : ~IsText(bytes[c]) THEN NotOpened(n)
      ELSE LET last == CHOOSE c \in ends : \A d \in ends : d <= c
           IN  Opened(ParsedIsisLabel(bytes, LabelLen), last, n)

------------------------------------------------------------------------------
(* Zarr: a length word and a JSON array header, then one slot per chunk: a *)
(* length word and room for the longest chunk.                             *)

(* The shape has one dimension more when there is more than one sample per *)
(* pixel. A header may be as long as a raw chunk: that of an 8x8 UInt8     *)
(* array is, 64 bytes.                                                     *)
ShapeLen(m) == ShapeLens[IF m.spp = 1 THEN 2 ELSE 3]

Compressors == {"None", "zstd", "zlib"}

(* build_layout asks for a tile width and height and takes zeros.          *)
ZarrLayoutOk(m) == m.extent /\ m.type \in UnsignedOrReal /\ m.compression \in Compressors
ZarrShape(m) == TextRun("shape", <<m>>, ShapeLen(m))
ParsedShape(bytes, at, n) == ParsedText(bytes, at, "shape", n)

ZarrHeader(m) == <<LengthWord(Len(ZarrShape(m)))>> \o ZarrShape(m)

ReadZarr(bytes) ==
  IF bytes = <<>> \/ bytes[1][1] # "len" THEN NotOpened(0)
  ELSE LET n == bytes[1][2] IN Opened(ParsedShape(bytes, 1, n), 1 + n, 1 + n)

PayloadBound(m) == TileBytes(m) + IF m.compression = "None" THEN 0 ELSE Slack
SlotSize(m) == 1 + PayloadBound(m)
SlotOffset(m, start, t) == start + t * SlotSize(m)

Compressed(m, p) ==
  IF m.compression = "None" THEN TileRun(p, TileBytes(m))
  ELSE [k \in 1 .. CompLen[p] |-> <<"enc", p, k>>]

Decompressed(m, run) ==
  IF m.compression = "None"
    THEN IF Len(run) = TileBytes(m) THEN ContentOf(run) ELSE Refused
  ELSE IF \E p \in Payloads : run = Compressed(m, p)
    THEN CHOOSE p \in Payloads : run = Compressed(m, p)
  ELSE Refused

(* ZarrImageSink::write_tile: the length, the chunk, and zeros to the end. *)
Slot(m, run) ==
  <<LengthWord(Len(run))>> \o run \o [k \in 1 .. SlotSize(m) - 1 - Len(run) |-> <<"pad", 0, 0>>]

(* ZarrImageSource::read_tile: the slot must lie within the reader and the *)
(* length within the slot.                                                 *)
ZarrTile(bytes, m, start, t) ==
  LET at == SlotOffset(m, start, t) IN
  IF t \notin Tiles(m) \/ at + SlotSize(m) > Len(bytes) THEN Refused
  ELSE LET word == bytes[at + 1] IN
       IF word[1] # "len" \/ word[2] \notin 1 .. SlotSize(m) - 1 THEN Refused
       ELSE Decompressed(m, ReadAt(bytes, at + 1, word[2]))

------------------------------------------------------------------------------
(* OpenEXR: one document, whole at once; an image is one tile.             *)

ExrInfoOk(m) ==
  /\ m.spp \in {1, 3, 4} /\ m.type \in {"Float32", "UInt32"}
  /\ m.extent => m.tiled /\ m.tiles = 1
  /\ m.compression = "None"

(* The stored channels are in the order of their names: slot[c] is the     *)
(* sample that channel c holds.                                            *)
ChannelSlots(spp) ==
  CASE spp = 1 -> <<1>> [] spp = 3 -> <<3, 2, 1>> [] spp = 4 -> <<4, 3, 2, 1>>
ChannelNames(spp) ==
  CASE spp = 1 -> {"Y"} [] spp = 3 -> {"B", "G", "R"} [] spp = 4 -> {"A", "B", "G", "R"}

ExrHeader(m) == <<"exr", ChannelNames(m.spp), m.type>>
ExrDocument(m, samples) ==
  <<ExrHeader(m)>> \o [c \in 1 .. m.spp |-> samples[ChannelSlots(m.spp)[c]]]

(* write_header_only stores zeros.                                         *)
Blank == <<"zero", 0, 0>>
ExrHeaderOnly(m) == ExrDocument(m, [k \in 1 .. m.spp |-> Blank])

(* The samples per pixel follow from the channel names.                    *)
ExrSamples(names) ==
  IF "Y" \in names /\ "R" \notin names THEN 1 ELSE IF "A" \in names THEN 4 ELSE 3
ReadExr(bytes) ==
  IF bytes = <<>> \/ bytes[1][1] # "exr" THEN NotOpened(0)
  ELSE Opened(<<[tiles |-> 1, spp |-> ExrSamples(bytes[1][2]), type |-> bytes[1][3],
                 compression |-> "None", extent |-> FALSE, tiled |-> FALSE]>>, 1, 1)

(* decode_image puts every channel back in its slot.                       *)
ExrPixel(m, stored) ==
  LET slots == ChannelSlots(m.spp)
  IN  [k \in 1 .. m.spp |-> stored[CHOOSE c \in 1 .. m.spp : slots[c] = k]]

ExrTile(bytes, m, t) ==
  IF t \notin Tiles(m) \/ 1 + m.spp > Len(bytes) THEN Refused
  ELSE LET pixel == ExrPixel(m, ReadAt(bytes, 1, m.spp))
       IN  IF \A k \in 1 .. m.spp : pixel[k] = Blank THEN Blank ELSE ContentOf(pixel)

------------------------------------------------------------------------------
(* What the five have in common.                                           *)

(* serialize_model accepts the images.                                     *)
HeaderOk(backend, ms) ==
  CASE backend \in {"memory", "pds4"} -> TRUE
    [] backend = "isis" -> IsisLabelOk(First(ms))
    [] backend = "zarr" -> ZarrLayoutOk(First(ms))
    [] backend = "openexr" -> ExrInfoOk(First(ms))

(* open_image_sink accepts them.                                           *)
SinkOk(backend, ms) ==
  CASE backend \in {"memory", "pds4"} -> ImageInfoOk(First(ms))
    [] backend = "isis" -> ImageInfoOk(First(ms)) /\ IsisLabelOk(First(ms))
    [] backend = "zarr" -> ZarrLayoutOk(First(ms))
    [] backend = "openexr" -> ExrInfoOk(First(ms))

(* What serialize_model writes.                                            *)
Header(backend, ms) ==
  CASE backend = "memory" -> ModelJson("object", ms)
    [] backend = "pds4" -> Pds4Header(First(ms))
    [] backend = "isis" -> IsisLabel(First(ms))
    [] backend = "zarr" -> ZarrHeader(First(ms))
    [] backend = "openexr" -> ExrHeaderOnly(First(ms))

(* Mutant: the Memory sink counts the JSON of a list.                      *)
SinkStartOfList(backend, ms) ==
  IF backend = "memory" THEN JsonLen("array", ms)
  ELSE IF backend = "openexr" THEN 0 ELSE Len(Header(backend, ms))

(* Where open_image_sink puts the pixels: worked out from the model alone. *)
SinkStart(backend, ms) == IF backend = "openexr" THEN 0 ELSE Len(Header(backend, ms))

(* open_image_source and deserialize_model.                                *)
Document(backend, bytes, cursor) ==
  CASE backend = "memory" -> ReadJson(bytes, cursor, "object")
    [] backend = "pds4" -> ReadPds4(bytes)
    [] backend = "isis" -> ReadIsis(bytes)
    [] backend = "zarr" -> ReadZarr(bytes)
    [] backend = "openexr" -> ReadExr(bytes)

(* A tile, read through an image source.                                   *)
SourceTile(backend, bytes, m, start, t) ==
  CASE backend \in {"memory", "pds4", "isis"} -> BlockTile(bytes, m, start, t)
    [] backend = "zarr" -> ZarrTile(bytes, m, start, t)
    [] backend = "openexr" -> ExrTile(bytes, m, t)
=============================================================================
