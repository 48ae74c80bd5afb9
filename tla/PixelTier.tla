------------------------------ MODULE PixelTier ------------------------------
(***************************************************************************)
(* The pixel block shared by the Memory, PDS4 and ISIS backends            *)
(* (io/backend/memory_layout.rs, memory_image_source.rs,                   *)
(* memory_image_sink.rs) over the in-memory transports                     *)
(* (io/memory_binary_writer.rs, memory_binary_reader.rs): the tiles of an  *)
(* image lie one after another, uncompressed, from the place its pixels    *)
(* start. A document is a sequence of cells. A cell stands for a run of    *)
(* bytes that is written and read as a whole: a length word, a piece of a  *)
(* header, one sample of a tile.                                           *)
(***************************************************************************)
EXTENDS Integers, Sequences

CONSTANTS
  Payloads,  \* what a tile may contain
  Garbled,   \* a tile read from cells that are not those of one payload
  Refused    \* the result of a call that returned an error

(* MemoryBinaryWriter::write at a place within the extent.                 *)
Overwrite(bytes, at, run) ==
  [c \in 1 .. IF at + Len(run) > Len(bytes) THEN at + Len(run) ELSE Len(bytes) |->
     IF c \in at + 1 .. at + Len(run) THEN run[c - at] ELSE bytes[c]]

(* Mutant: a seek beyond the extent is accepted.                           *)
SeekAnywhere(bytes, at) == at >= 0

(* MemoryBinaryWriter::seek and MemoryBinaryReader::seek.                  *)
SeekOk(bytes, at) == at <= Len(bytes)

(* MemoryBinaryReader::read of n cells: fewer at the end.                  *)
ReadAt(bytes, at, n) ==
  SubSeq(bytes, at + 1, IF at + n > Len(bytes) THEN Len(bytes) ELSE at + n)

(* image_info_from_model: only tiled and uncompressed images have a layout.*)
ImageInfoOk(m) == m.tiled /\ m.compression = "None"

(* A tile of the instances is one pixel: one cell per sample.              *)
TileBytes(m) == m.spp
Tiles(m) == 0 .. m.tiles - 1

ImagePixelBytes(m) == m.tiles * TileBytes(m)

(* image_pixel_offset: past the pixels of the images before it.            *)
ImagePixelOffset(ms, i, prefix) ==
  LET past[k \in 0 .. Len(ms)] ==
        IF k = 0 THEN prefix ELSE past[k - 1] + ImagePixelBytes(ms[k])
  IN  past[i - 1]

TileRun(p, n) == [k \in 1 .. n |-> <<"pix", p, k>>]

ContentOf(run) ==
  IF \E p \in Payloads : run = TileRun(p, Len(run))
    THEN CHOOSE p \in Payloads : run = TileRun(p, Len(run))
  ELSE Garbled

(* MemoryImageSink::write_tile: where tile t goes.                         *)
TileOffset(m, start, t) == start + t * TileBytes(m)

(* Mutant: read_tile does not compare the tile's end with the reader's size.*)
BlockTileUnchecked(bytes, m, start, t) ==
  IF t \notin Tiles(m) THEN Refused
  ELSE ContentOf(ReadAt(bytes, TileOffset(m, start, t), TileBytes(m)))

(* MemoryImageSource::read_tile: the tile must lie within the reader.      *)
BlockTile(bytes, m, start, t) ==
  LET at == TileOffset(m, start, t) IN
  IF t \notin Tiles(m) \/ at + TileBytes(m) > Len(bytes) THEN Refused
  ELSE ContentOf(ReadAt(bytes, at, TileBytes(m)))
=============================================================================
