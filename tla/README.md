# Verification of PTIFF

TLA+ models of the Rust core of PTIFF (`crates/ptiff-core`, with the facade
`crates/ptiff-rust`), the TLC configurations that check them on small
instances, and TLAPS proofs of what they promise for every value of their
constants. Paths below are relative to `src/crates/`; `core` stands for
`ptiff-core/src` and `tiff` for `ptiff-core/src/io/backend/tiff`.

## 1. The system

PTIFF stores planetary images, with cameras, geometry and semantic links, in
TIFF files and a few other formats.

| Component | State | Operations | Hard behaviour |
| --- | --- | --- | --- |
| TIFF write planner, serializer (`tiff/directory_writer.rs`, `ifd_writer.rs`, `tiff_backend.rs`) | planned addresses of IFDs, data regions and patch slots; the output buffer | `plan_tiff_write(_multi)`, `serialize_model(_list)`, `open_image_sink(_at)` | addresses are computed before anything is written and used much later |
| TIFF image sink (`tiff/image_sink.rs`) | write offset, next tile, and the buffer it shares with the IFDs | `write_tile`, `write_compressed_tiles_parallel` | three writes per tile that may each fail; retries; reopened sinks; out-of-order tiles |
| HTTP range reader (`core/io/http_range_binary_reader.rs`) | size learned at open, cursor, read-ahead buffer | `open`, `read`, `seek` | the remote object changes, servers answer 200/206/416/404 or not at all |
| Scene (`core/scene.rs`, `semantic.rs`) | seven Vecs, seven counters, links | `add_*`, `attach_external_id`, `add_relationship`, `add_provenance_relation`, lookups | ids are counters and lookups index a Vec; links by position; three ways to save and load |
| Backend factory (`core/io/backend_factory.rs`) | `OnceLock`, `Mutex<HashMap>` | `instance`, `register`, `create`, `registered_backends` | threads; a caller's builder runs under the lock and may panic or call back |
| TIFF reader (`tiff/ifd.rs`, `directory.rs`, `image_source.rs`, `tiff_backend.rs`) | per call: reader position, parsed directories, tiles; the opened file | `from_bytes`, `read_image_pixels`, `read_tile`, `read_all_tiles_parallel` | untrusted next-IFD offsets, counts and tables; two walks with different checks; a thread pool |
| Codecs (`tiff/compression/`) | code tables | PackBits, LZW, Deflate, JPEG, predictor | inverses of each other at every length; code widths that change early; foreign streams |
| Memory, Zarr, PDS4, ISIS and OpenEXR backends (`core/io/backend/`) | a document in a buffer, a cursor, an open sink or source | `serialize_model(_list)`, `open_image_sink(_at)`, `write_tile`, `deserialize_model`, `open_image_source(_at)`, `read_tile` | sink and source work out on their own where pixels are; torn writes; a reader whose cursor is anywhere |
| PTIFF fields (`core/geometry/marshal.rs`, `tiff/ptiff_metadata.rs`) | the fields of an image, by domain | tags to fields to camera and reference system, and back | incomplete domains, an older schema, unknown names, payloads of later versions |
| C API (`ptiff-c`) | handles of sources, sinks, strings and field arrays | open, read, write, close, free | the file is written at close; a disk that cuts writes; who frees what |
| Manifests, canonical JSON (`core/mf01.rs` to `mf03b.rs`, `jcs.rs`) | none; a text | `from_scene`, `from_manifest`, `to_canonical_json` | integers a double does not hold, layouts of doubles, escapes, order of names |
| Facades (`ptiff-rust/src/tiff.rs`, `remote_tiff.rs`) | none, or the URL | compositions of the above | several reads of one object that may change in between |
| Command line (`ptiff-cli`) | none | `copy`, and commands that print | a copy is made of a scene, not of a file |
| Geometry, logging, Python | value types | conversions | none a model checker reaches |

The components meet as follows. A `Scene` is serialized to a storage model, one
child per image, camera and geometry. The TIFF backend plans all children as
one file, writes header and IFDs into a `BinaryWriter`, and opens one
`TiffImageSink` per image on the same writer; sinks write tiles and go back to
patch slots of IFDs that are already there. A reader parses IFDs through a
`BinaryReader` (memory or HTTP), and takes tiles from the offsets and byte
counts it finds in them. `PROJECT.json` lists every component, with the
hazards each is exposed to at their lines; the properties below are for those.

## 2. The modules

### TIFF writer: `TiffWriter`, `TileStore`, `MCTiffWriter`, `TiffWriterProofs`

`TiffWriter` has the whole write path in one state machine. `PlanIfd` and
`PlanData` are the two loops of `plan_tiff_write_multi` (`viaList` FALSE is
`plan_tiff_write` for one image, which has no check of its own for tiled and
compressed images); `Serialize` writes the header and an IFD at a time;
`OpenSink` and `DropSink` are the life of a sink; `WriteRaw`, `WriteStrip`,
`WriteTile` are the three paths of `write_tile`, and their `Fault` branches and
`WriteTileFails` stop each path after every one of its writes.

The file is a function from addresses to *words*: the width of an offset-typed
value (4 bytes in classic TIFF, 8 in BigTIFF) is also the width of an entry's
inline value area in both containers, so one unit serves for slots, inline
values and spilled arrays. An IFD keeps four entries in tag order:
BitsPerSample (which can spill, like every lower tag, and so shift the slots
behind it), offsets, byte counts, and SampleFormat for the tags above, of which
only the space counts. A written word says what it is (a number, word *k* of
payload *p* raw or encoded, word *r* of IFD *i*), which is all the properties
tell apart; an encoder is its output's size, `EncLen`, and may expand.

A reader is `ReadTile`: take offset and byte count from the slots in the image's
own IFD and look whether the words there are a payload's.

`TileStore` is the promise to the caller of `ImageSink::write_tile`: a store in
which a tile reads as what was last written with Ok, no other image is ever
disturbed, and nothing is promised of a tile that was never written or whose
last write failed. A write to a packed (tiled and compressed) image gives up
the tiles after it, since a reopened sink packs from the start again.
`ImplementsTileStore` is the refinement, with the file read back through
`ReadTile`.

`InOrderReachable` has a condition: a caller that goes in file
order is not refused for a gap as long as no image before was compressed to less
than its raw size, which is what the planner reserves. Without the condition it
is `FileOrderAccepted`, which does not hold (section 5).

### HTTP range reader: `HttpRangeReader`, `ByteCursor`, `MCHttpRangeReader`, `HttpRangeProofs`

The object has a history of versions, each a length; `Replace` appends one at
any time. `Responses` is what `perform_ranged_get` may bring for a range of the
current version: 206 with what the object has of it, 416 from its end on, 404,
a failure of the transport, and, where `KeepsRange` is FALSE, 200 with the
whole object although the probe was answered with a range. `Open` learns the
size, `ReadHit` and `ReadMiss` are the two halves of `read`, with the oversized
fetch that bypasses the buffer. A run of bytes is a version, a first offset and
a length, so a byte of the wrong version or the wrong place is seen.

`ByteCursor` is the `BinaryReader` contract over an object that may change: a
read delivers the bytes at the cursor, of one version the object had since
open, as many as asked for unless the input or that version ends; a failed call
moves nothing.

### Scene: `Scene`, `SceneProofs`

One action per operation that changes a scene (`Add` for `add_camera` and
`add_geometry`, `AddOther`, `AddImage`, `AttachExternalId`,
`AddRelationship`, `AddProvenance`), and three round trips: `SerdeRoundTrip`
(counters of all families, Vecs of images only), `StorageRoundTrip` (a new
scene from the model's children) and `ToBytes` (a TIFF, which may be refused).
`given` remembers the ids handed out and the entities they were for, which is
what the id properties compare lookups with. Calls that return an error change
nothing and are left out.

### Backend factory: `BackendFactory`, `BackendRegistry`, `BackendFactoryProofs`

Each thread runs `instance()`, takes the lock, and does one of the three calls;
`BeginFill` and `Fill` are the `OnceLock` initialization that others block on,
`LookUp` and `Build` the two steps of `create` between which the lock stays
held. A builder is `Sound`, `Panicking` (unwinds through the guard and poisons
the lock) or `Reentrant` (calls the factory: `std::sync::Mutex` then either
deadlocks or panics, and both are possible steps). `BackendRegistry` is an
atomic map with the built-in names from the start; `Linearizable` says that the
factory implements it, and a listing or a `NotFound` that no instant of the
call justifies would break it.

### TIFF reader: `TiffReader`, `ImageFile`, `MCTiffReader`, `TiffReaderProofs`

A file is its size, the header's link and, for every address, the IFD that
starts there: entries (type known or not, count, element width, address of a
long value), next-IFD field, grid, byte-range table. What `interpret_tiff_ifd`
and the scene deserializer think of the tags is a verdict each (`sound`,
`scenic`), and what a tile decodes to is a payload or `Bad`. Sums and products
of the file's numbers are compared with `WordMax`, as the checked arithmetic does.

A call of `Tiff` opens its own reader over the same bytes, so calls of several
threads share nothing and the model serves one at a time. `ReadHeader`,
`ReadCount`, `ReadEntry` and the next-IFD field in `FollowChain` or
`FollowDirect` are the reads of a walk in their order. `FollowChain` is
`read_directory_chain`, which interprets every IFD, refuses a link that does
not ascend and stops silently at `MaxDirectories`; `FollowDirect` is
`directory_at`, which interprets only the image asked for and checks no link.
`ReadTile` is the loop of `read_image_pixels`, or the one tile of `read_tile`;
`FetchTile`, `Dispatch`, `Decode` and `Collect` are `read_all_tiles_parallel`:
the bytes of every tile of the table, then decoding one by one or by a pool
whose threads take tiles in any order and which ends at the first failure.
`reads` is what the last step read of the file.

`ImageFile` is the promise: a file is accepted or refused once and is then a
list of images, each a grid over a table; an answer is made of all the tiles a
call needs or is an error. What a call needs (`Needed`) is what the docs say:
the grid, of a parallel call too. The code's parallel call goes by the table, so
it keeps the promise only where the two are equally long (`Fitting`). Which images these are is said in `TiffReader`
without walking (`Legible`, `Link`, `Images`), so `ImplementsImageFile` also
says which files are accepted.

### Other backends: `PixelTier`, `BackendFormats`, `RasterBackends`, `MCRasterBackends`, `RasterBackendsProofs`

`RasterBackends` is the `StorageBackend` trait with its sinks and sources, for
five backends over the in-memory transports. A document is a sequence of
*cells*: a length word, a piece of a label or of a JSON text, one sample of a
tile. `PixelTier` has the block of uncompressed tiles that Memory, PDS4 and ISIS
share, `BackendFormats` what each backend writes in front of it (`Header`) and
how each finds the pixels again (`ReadJson`, `ReadPds4`, `ReadIsis`, the slots
of Zarr, the document of OpenEXR). The two are separate code in the source and
stay separate here: `SinkStart` is worked out from the model, `Document` from
the bytes. `WriteTile` may be cut at every cell (`WriteTileFails`), which also
stops the three writes of a Zarr chunk between each other; `NewReader`,
`DeserializeModel`, `OpenSource(At)`, `ReadTile` and `DropSource` move the cursor
that the next call starts from. Three things a caller does are constants, since
what is read back depends on them. `PayloadsOf` is which payloads are written to
which backend. `Careful` are the backends whose callers put one document in a
writer: an OpenEXR tile is a whole document, and `open_image_sink` of Zarr writes
the header, both wherever the cursor is, so a second one is behind the first or
over its chunks; no code refuses it. The tests of the repository do it with Zarr:
`serialize_model` and then `open_image_sink` write the header twice. `ShapeLens`
are the lengths of an array header, which may be those of a raw chunk. A failed
write among the blocks of an OpenEXR document unwinds (`Unwound`).

### Extension fields and the callers: `PtiffFields`, `Facade`, `MCFacade`, `FacadeProofs`

`PtiffFields` is pure: private tags to fields (`FieldsOfTags`) and back
(`TagsOfFields`), fields to camera and reference system (`CameraFromModel`,
`CrsFromModel`, with the older schema of the latter) and back, and what is left
over as metadata. `Facade` has the programs that keep or move files: a C caller
with one handle per `ptiff_source_open` and `ptiff_sink_create(_camera)`, a list
of fields and a string, and the copy command, over one disk. `SinkWriteTile`
fills a raster in memory, `SinkClose` makes the file and swallows errors;
`WriteFile` is `std::fs::write`, which may fail at once or leave the file cut
in its directory or in its last tile (`Cuts`); `CutAt` says which tiles are left.
`heap` is what the library has allocated, by kind and string; strings that hold a
NUL (`WithNul`) are freed with another length than they were allocated with, and
stay. `expected` remembers for each path what was promised: for a closed sink all
that it accepted, made or not, and the camera as the C caller gave it, which is
compared with what `ptiff_open_path_camera` gives back (`Calibration`: a group
whose flag is 0 is absent, on both sides). A file that a fault cut is still
expected to have no other tile than those. `Retained` are the bytes a source
reads from.

### Codecs: `Codecs`, `MCCodecs`, `CodecsProofs`

One tile's way through `encode_tile_bytes` and `decode_tile_bytes`, a column or
a code at a time. `ApplyColumn` and `UndoColumn` are the predictor; `LzwByte`
and `LzwEnd` are `encode_lzw`, `WriterAfter` the count of `write_codes_to_bits`,
which derives the width of each code on its own, and `Decode` a turn of
`decode_lzw`. A code on the wire is the code and the width it was written with:
one that is read with another width is not the code, and fails. `PackRun` and
`PackLiteral` are `encode_pack_bits`, `Unpack` `decode_pack_bits`. A foreign
stream (`ForeignCode`, `ForeignControl`, `ForeignEnd`) is any codes.

### Manifests: `Manifest`, `Jcs`, `MCManifest`, `SceneProofs`

`Manifest` extends `Scene`, adds the axes of data objects, and encodes the scene:
`ManifestToJson` is the JSON value that the typed serialization and
`manifest_to_json` make. A word of the vocabulary (a member name, a token) is
one character, given by `CharOf`, all different. `Jcs` is the writer of canonical
JSON, character by character, over `Value`: values that nest no deeper than
`MaxDepth` (a manifest needs 5), with integers up to `MaxInteger` (2^64 - 1 in
the code). Its reference is a reader of JSON, a state machine that takes a
character at a time (`Advanced`) and knows nothing of the writer; `Meaning` is
what it must get from a value's text. `RefOf`, `AxesOf` and `GraphOf` are a reader
of manifests whose numbers are doubles: integers beyond `MaxExact` (2^53 in the
code) are rounded, so one that was not written as a string is lost.

All recursion is by recursive functions over depth, length or size, which is
what lets the proofs reach it.

## 3. The runs

| Run | Bounds | What it shows |
| --- | --- | --- |
| `tiff_writer` | seven files of one or two images: every kind of strip and tile alone, two raw strips with a spilling BitsPerSample, raw tiles before a compressed strip, tiles as wide as the image, a strip too large for a slot; two payloads of which one expands; two failures | `RoundTrip`, `ChainIntact`, `PackedTiles`, `InOrderReachable`, `ImplementsTileStore` |
| `tiff_overlap` | a compressed strip, then a raw one | violation of `RoundTrip`: see finding 1 |
| `http_range` | buffer of 2, objects of 0, 2 and 5, three versions, reads up to 4 | `RightPlace`, `OnlyIfShrank`, `HeaderKept`, `ImplementsByteCursor` |
| `scene` | three entities over seven families, two links of each kind, any saves and loads | `KeptIdsExact`, `LinksCoherent` |
| `backend_factory` | three threads, a built-in and a new name, three builders, three calls | `Linearizable`, `EveryCallReturns` |
| `tiff_reader` | files of up to 14 words with IFDs at 2, 6 and 10 of which one varies over wrong entries and all links, up to the largest word, 16; every size at which a field is cut; images whose tables are as long as their grids, with tiles that lie outside or do not decode; a pool from 3 tiles on | `WithinFile`, `Ascends`, `ImplementsImageFile`, `CallsReturn` |
| `raster_backends` | documents of up to two images of one or two tiles, one to four samples, every pixel type a backend refuses; payloads that shrink below, keep and exceed a Zarr slot; array headers as long as a raw chunk of one sample and of four; one document per writer for Zarr and OpenEXR; one failure, at any cell; a cursor anywhere | `RoundTrip`, `NothingInvented`, `SourceAligned` |
| `raster_isis` | ISIS alone, payloads that are not text or hold a line End | violation of `RoundTrip`: finding 2 |
| `facade` | two paths, one sink and one source, two held things, two files made, two tiles written, one fault; grids of one and four tiles in layouts the writer supports, a camera with a pose and one without; five foreign files with fields of every kind, a NUL among them (892,687 distinct states, about two minutes) | `ReadsBack`, `SameCalibration`, `SourceAnswers`, `HeapOwned`, `Settled` |
| `cli_copy` | the same | violation of `CopyKeepsMetadata`: finding 3 |
| `codecs` | bytes of two values, LZW widths 3 and 4 with 9 the last code, PackBits runs up to 3; all tiles of 12 bytes in one row, of 8 bytes in two rows of two-byte samples of both byte orders and of two samples; foreign streams of 5 codes | `Decoded`, `InStep`, `DecoderSafe` |
| `manifest` | three entities, one link of each kind, two axes, extents 0 and 5 and version 5, the first integer a double does not hold; integers to 1000, five levels; all 900 external ids of one and two characters; doubles with powers from -8 to 23; names on both sides of the surrogates | `DocumentLossless`, `TextReadsBack`, `OrderFree` |

Why the bounds are enough. A layout mistake shows between two neighbours
(IFD and data, image and image, tile and tile), so two images and three tiles
have every pair; three packed tiles have a first, a middle and a last, and one
of the two payload sizes differs from the planned one in each direction. Two
failures allow a failed retry. The reader's three boundaries (start and end of
the buffer, end of the object) are all crossed with an object of five blocks,
and three versions let size, buffer and response be of three different ones.
Three threads are one that holds, one that waits for the lock and one for the
`OnceLock`. Three IFDs have a first, a middle and a last, and a link can stay,
go back by one or two, skip one, end, or leave the file; `MaxDirectories` is
reached by the third. The largest word is a little above the largest file, so
sums can lie within the file, beyond it, and beyond the words. Four tiles are
more than the pool's threshold, two fewer. In a document of another backend the
places that can be confused are the header's end, a tile's end and the next
image's start, and two images of two tiles have each. Twelve bytes fill a
dictionary of ten codes and clear it, change the width and change it back, and
8 bytes have two rows of everything the predictor keeps apart. Two copies show
whether the second changes more than the first; a cut disk and two handles on
one path show what a stale handle reads. Every layout of a double is reached on
both sides of its limits. One link of each kind leaves the order among links to the
theorems `OrderIrrelevant` and `ManifestLossless`. Doubles and member names that
are not ASCII are what canonical JSON is specified for; today only unit tests
build any, manifests have neither. For the modules with proofs, the proofs remove
the bounds.

Each passing run has the inputs for which its properties hold, and says which in
the comment of the property. The inputs left out, and what happens with them, are
kept as configurations of their own; section 5 lists them with what TLC finds.

`CHECK_DEADLOCK FALSE` is set where the system really stops: a rejected plan
ends the life of a file, a file that was refused cannot be read, and the
factory has only `MaxCalls` calls.

Every property has a mutant of the code in `PROJECT.json` that breaks it. The
operators named for a bug (`SpanPadded`, `AdvanceShort`, `UnwindHolding`, ...)
are those mutants and are used nowhere else.

### Fairness

`BackendFactory` and `TiffReader` have a liveness property each. In
`BackendFactory`, `FairSpec` has weak fairness of
each thread's steps: the operating system runs every thread, and the calls are
bounded, so a lock that is released is eventually free and taken; no fairness
of the lock itself is assumed (`std::sync::Mutex` promises none) and no caller
is obliged to call. `EveryCallReturns` is conditional on no builder having
deadlocked: a builder that calls the factory may hang, which the code cannot
prevent. In `TiffReader`, `FairSpec` has weak fairness of `Step`: a call that
has begun runs on, in its own thread or in the pool's, and reads of memory
return. `CallsReturn` then says that no file makes a walk go on forever and that
the pool's caller does not wait for tiles given up after a failure. No thread of
the pool is favoured, and nobody is obliged to call.

## 4. What is proved

All proofs are checked by TLAPS from nothing, with the constants' named
assumptions (`ContainerAssumption`, `CallerAssumption`, `ReaderAssumption`,
`SceneAssumption`, `FactoryAssumption`, `CallAssumption`, `FormatAssumption`,
`FilesAssumption`, `CallsAssumption`, `CodecAssumption`, `TilesAssumption`,
`ContentAssumption`, `HandleAssumption`, `JobsAssumption`, `ForeignAssumption`,
`ValuesAssumption`, `NoneAssumption`, `ChunksAssumption`, `ShapeAssumption`, `ScanAssumption`,
`DocumentsAssumption`, `JcsAssumption`, `ManifestAssumption`), which TLC evaluates in the runs. Eight modules hold the
theorems `PROJECT.json` lists.

*`TiffWriterProofs`.* `TypeCorrect` and `InOrderHolds` hold for every file. The others assume
`FilesSafe`: in every file of `Files` a compressed image is the last, and one
that is tiled too is the only one; finding 1 and the wide tiles of section 5 are what happens otherwise.
The inductive invariant is `Inv == IInv /\ Behind /\ Tight`, with
`IInv == TypeInv /\ Planned /\ Serialized /\ Kept /\ SinkPlace`. `Planned`: the
regions handed out follow one another without overlap. `Serialized`: every word
of an IFD but the patched slots is as written. `Kept`: every acknowledged tile
is somewhere in its image's region, its slots say where, and in a packed image
it ends below the running offset; that is the strengthening `RoundTrip` needs,
since only the running offset separates old tiles from the next write.
`SinkPlace`: the running offset is within the buffer. `Behind`: tiles of a
packed image are in order. `InOrderHolds` has an induction of its own: `Tight`, no
gaps between regions, and `Grown`: the buffer reaches to the end of the IFDs and
of every acknowledged tile, whatever was written over it since. `Refinement` maps every step to a write of the tile
store or a stutter.

*`HttpRangeProofs`.* If `KeepsRange`, the buffer is a run of bytes of one
version since open that starts where `buffer_start` says; from that follow
`RightPlace`, `OnlyIfShrank`, `HeaderKept` and the refinement of `ByteCursor`,
for every buffer size and history.

*`SceneProofs`.* `Inv == TypeOK /\ Counted /\ KeptIdsExact`, where `Counted` ties
each counter to the length of its Vec for families that no serde round trip
dropped; `LinksCoherent` has its own induction on top of it.

The same module goes on to `Jcs` and `Manifest`, for any integers, depth, vocabulary,
external ids and samples. TLAPS cannot take induction over data as a theorem of
its library, so each recursion is unfolded by hand: that the function exists is
shown from its finite stages, the least counterexample (`LeastElement`) takes the
place of induction, and the lemma `...Unfolds` is what the rest cites. On top of
that there are four steps.

- *Numbers.* The shortest digits and the power of a double survive ryu's layout,
  the taking apart of it and any of the four layouts of ECMAScript, each read
  back by `NumberOf` (`DoubleReads`); integers are read back by their figures.
- *Reading.* `ReadsAs` says that a text, read where a value is expected and at
  any depth of nesting, delivers a meaning there and is then done; a number is
  done only with the character behind it. Scalars have it (`ScalarReads`), and
  arrays and objects have it if their parts have it (`ArrayReads`, `ObjectReads`,
  both from `BracketsRead`), so all values have it by depth (`AllValues`, `AllReadable`).
  `ValuesReadBack` is that at the root.
- *Order.* `Less` is a strict total order of names, that of `Rank` and no other
  (`LessOrder`, `RanksLess`). A member's place is then the number of lesser
  names, which does not depend on where the member was put in (`AllCanonical`).
- *Manifests.* The parts of a manifest are `Plain`: JSON values of a bounded depth
  without a number that is not finite, so that their text is read. For each part
  there is a lemma that a reader finds in it what was put in (`RefRight`,
  `AxisRight`, `RelationshipRight`, ..., `ManifestRight`).

`ManifestInv == Inv /\ LinksCoherent /\ Serials /\ Drafts /\ DocumentRight` is
inductive. `DocumentRight` ties the text to its value, and the value of a manifest
to the scene as it is now: this is why every call that changes the scene must
give up the document. `Drafts` has the axes typed and of different kinds,
`Serials` says that a data object's serial has axes at all. That both ends of a
link are in the document needs `LinksCoherent` of the scene and, since the text
names an entity by its place, that the document lists the entities of each
family in the order of their ids.

*`BackendFactoryProofs`.* `Inv == TypeOK /\ OneHolder /\ InCall`, where `InCall`
ties a thread's place to the call it is in; `Refinement` gives each action its
linearization point: `Register`, `LookUp` of an unknown name, `Build` and
`List` take effect when they happen, everything else stutters.

*`TiffReaderProofs`.* For every set of files and calls. `TypeInv` is `TypeOK`
and `Placed`, which says for each place of a call what is known there: in the
middle of an IFD its address and table are inside the file and the entries read
so far are no more than it has; among the tiles, the image asked for is in the
chain and no more tiles were taken than it needs; in the pool a decoded tile
that failed was noted.
`ReadsStayInside` follows step by step from the bounds checks, with
`start + length <= file.size` derived where the code compares
`length > file.size - start`. `WalksAscend` needs more, since `directory_at` checks
nothing: `WalkInv` says that once a file is open a complete ascending path of
links from the header exists (`Paths`), the one the opening call walked, and
that the walk of a later call is a prefix of it (`AlignedTo`), because both
follow the same links from the same start.

`RefinesImageFile` is the refinement of `ImageFile`, action by action
(`Simulated`): the step that ends a call is the step of `ImageFile` that answers
it, the one that begins it the step that asks, every other is a stutter. The
strengthening is `Faithful`: a file is open only if `Legible`; a walk that has
passed `n` directories has passed the first `n` addresses of `Link`, and those it
passed all interpret (`OnChain`); the tiles collected so far are the first of
those wanted, and a pool that noted a failure noted a tile that does not decode
(`Fetched`). `Link` is a recursive function, chosen by its equation; that there
is a function with this equation (`LinksExist`) is shown by the least argument
at which there would be none, and `LinkUnfolds` gives what the steps need. The
theorem assumes `Reachable`, that parallel calls ask for image numbers up to
`MaxDirectories`: beyond it the code answers with an image that opening never
looked at (section 5). It also assumes `Fitting`, that where parallel calls are made
the tables of the files are as long as their grids; where none are made it is about
all files. The model value for "none" must be no address, answer or list of images
(`NoneAssumption`), and the value area of an entry must fit in a word, as 4 and 8
bytes do (`FormatAssumption`).

*`RasterBackendsProofs`.* For any models, number of tiles, payloads, sizes of
compressed chunks, cut writes and places of the reader's cursor. The inductive
invariant is
`Inv == Types /\ AckedOpen /\ Blocks /\ Whole /\ SinkPlaced /\ Reads`. `Blocks`
says where every cell of the document comes from: the header is in front
(`Headed`), an acknowledged tile is whole in its place (`Kept`), behind the header
of the pixel tier is nothing but pixels (`Pixels`), and while no write has failed
every cell there is of an acknowledged tile (`Covered`). `Whole` is the
like for OpenEXR, whose document is written by one tile. `SinkPlaced` and `Reads`
tie the place a sink works out from the model to the place a source finds in the
bytes; each way of finding the pixels is a lemma of its own (`JsonDoc`, `ListDoc`,
`LabelDoc`, `ZarrDoc`, `ExrOpens` and `IsisDoc`, the hardest, since its window may
end among pixels). That no two tiles share a place, within an image or across
images, is `TilesApart`. All four theorems assume `CarefulCallers`, that Zarr and
OpenEXR callers put one document in a writer; section 5 has what happens with two.
`RasterTypes` and `Aligned` assume nothing more. `WrittenReadsBack` and
`UnwrittenRefused` assume `PlainIsis`, that what is written to ISIS is text
without an End line: otherwise finding 2. Headers and chunks have any lengths, the
same ones included.

*`CodecsProofs`.* For any byte size, code widths, end of the
dictionary and run length with which the clear code fits
(`CodecAssumption`), and any tiles of whole rows of whole samples
(`TilesAssumption`). The inductive invariant `Inv` has one part per half of the
way. `Predicted`: `data` is the tile with exactly the columns of `Differenced`
differenced (`Mix(S)` for a set `S` of columns, row by row, sample by sample);
going forward they grow from the left, going back they shrink from the left,
and the first lemmas show that adding up the differences with wrap-around, in
the sample's byte order, is the inverse of taking them. `LzwInv`: the bytes
written, the phrase that waits and the codes on the wire make up the bytes read
(`Collecting`, `Cleared`, `Sent`, `Ending` are the moments between two codes),
and the encoder's dictionary is the decoder's plus the one entry that waits for
the next code (`Agrees`): this is what makes the code the decoder has no phrase
for yet, `next_code` itself, mean the same on both sides. `PackInv` is the like
for PackBits. From `Inv` follow `Decoded`, `InStep` (with `WidthFits`: a code
fits in the width of its turn) and, for foreign streams as well, `DecoderSafe`.

*`FacadeProofs`.* For any paths, files of other programs, sinks, descriptors and
faults. The theorems assume `Apart`, that the model values for "none" (`Null`,
`NoFile`, `Absent`, `Malformed`, `Unknown`) are no records; `SettledHolds` and
`HeapOwnedHolds` assume no more. `ReadsBackHolds` assumes `Writable`, that sinks are
given layouts the writer supports, `CalibrationHolds` also `Outspoken`, that a
camera has intrinsics, says that it has a pose exactly if it is not the identity,
and has a lens of a known kind if any, and `SourceAnswersHolds` also `AllBuilt`,
that the build has the codecs of all files; section 5 has what happens otherwise.
First the extension fields: `TagsKeep`, that
the tags of a list of fields hold these fields; `CameraBack` and `CrsBack`, that a
camera or reference system read once is written and read the same from then on
(a frame nobody knows has become the one that follows from the body); together
`ExtensionsKept`. Then `Inv`: what is promised of a path is fulfilled by the file
there and by the source opened on it (`Fulfilled`: its tiles, its camera, and tags
that a copy leaves alone), a sink's raster holds at each place what was accepted
for its cell (`GoodSink`; that cells have places of their own is `PlacesApart`),
and the heap is what handles and held fields account for. `ReadsBack`, `SameCalibration`,
`Settled`, `SourceAnswers` and `HeapOwned` are parts of it.

Every invariant and every action property a run checks is a theorem. Only
model-checked: `EveryCallReturns` and `CallsReturn` (liveness under fairness is beyond the
prover); and the violations, which are counterexamples.

## 5. Findings

Three runs expect a violation of what the documentation says:

1. A compressed strip that its encoder expands is overwritten by the next image
   of the file: the planner reserves the raw size
   (`tiff/directory_writer.rs:618`; run `tiff_overlap`).
2. An ISIS document whose first 4 MiB hold bytes that are not UTF-8, pixels
   included, cannot be opened, and one whose pixels hold a line End is read from
   the wrong place (`core/io/backend/isis/document.rs:40`; run `raster_isis`).
3. A copy keeps an image's camera and reference system and drops its other
   fields (`ptiff-cli/src/main.rs:337`; run `cli_copy`).

Twelve more disagreements have a configuration of their own beside the runs. In
each, TLC finds the property violated by
`tlc -config <Configuration>.cfg <Module>`; the module is `MCTiffWriter`,
`MCTiffReader`, `MCRasterBackends` or `MCFacade`, after the configuration's name.
The properties are what the documentation says without the condition that the
passing runs and the theorems have.

| Configuration, property | The documentation | The code |
| --- | --- | --- |
| `TiffWriterGap`, `FileOrderAccepted` | `to_bytes_with_pixels` "additionally fills each image's data region with the caller-supplied raster, so the returned bytes round-trip" (`ptiff-rust/src/tiff.rs:543-547`); its errors (`:561-565`) are rasters that do not match and scenes that "cannot be represented" | A compressed strip that shrinks leaves the buffer short of the next image's place, which was reserved at raw size (`tiff/directory_writer.rs:618`); the next sink's seek fails (`core/io/memory_binary_writer.rs:100`), and the file cannot be made |
| `TiffReaderTable`, `ParallelLikeReadTile` | "The output is **byte-identical** to calling [`Tiff::read_tile`] for every grid cell in order" (`ptiff-rust/src/tiff.rs:184-185`; `:209-210` and `tiff/image_source.rs:228-231` say the like) | `read_all_tiles_parallel` goes by the byte-range table (`tiff/image_source.rs:251`), which nothing compares with the grid: one that is longer gives tiles no cell has, or an error where `read_tile` has none; one that is shorter gives Ok and fewer tiles |
| `TiffReaderFirst`, `FirstFailure` | "The first failing tile (by input order) short-circuits the pool" (`tiff/parallel.rs:69`; `tiff/image_source.rs:231-232`, `ptiff-rust/src/tiff.rs:195-196`) | A parallel collect of Results keeps the error of the job that fails first in time (`tiff/parallel.rs:57`). Besides, all tiles are fetched before any is decoded, so a tile that cannot be read goes before an earlier one that cannot be decoded |
| `RasterExr`, `RoundTrip` | "a single `write_tile` writes the complete `.exr` document" (`core/io/backend/openexr/image_sink.rs:5-6`), for a caller who "can read or write any format without knowing its byte layout" (`core/io/storage_backend.rs:15-16`) | The document is written where the cursor is (`openexr/image_sink.rs:60`) and read from byte 0. After `serialize_model`, itself a document of zeros, every tile reads as zeros; a second `write_tile` is never seen |
| `RasterReopened`, `RoundTrip` | `write_header` returns "the absolute byte offset where the chunk block begins" (`core/io/backend/zarr/mod.rs:43-45`), and "Tiles may be written in any order" (`zarr/image_sink.rs:7-8`) | `open_image_sink` writes the header at the cursor (`zarr/mod.rs:98`), which a dropped sink has left behind its last tile: it lies over chunks that were acknowledged |
| `RasterHeader`, `NothingInvented` | "each `read_tile` seeks to that chunk's fixed slot, reads its 4-byte length prefix + payload" (`zarr/image_source.rs:5-7`) | After `serialize_model` the second header lies in the first slots. Where it is as long as a raw chunk (both are 64 bytes for one tile of 8 by 8 bytes), its text is the pixels of a tile nobody wrote; elsewhere that tile is an error |
| `RasterPanic`, `WriteReturns` | "Returns [`crate::ErrorCode::InvalidArgument`] if `pixels` has the wrong length or the OpenEXR write fails." (`openexr/document.rs:305-306`) | The result of writing the blocks is unwrapped with `expect` (`:337`): a writer that fails there makes `write_tile` panic |
| `FacadeClose`, `ReadsBack` | "`channel_count` must be 1 or 3; both are rejected with `PTIFF_ERROR_INVALID_ARGUMENT` otherwise" (`ptiff-c/src/pixel_bridge.rs:348-350`), and close makes "the file complete and readable" (`:502`) | `ptiff_sink_create` does not look at the layout beyond that it is tiled; the writer refuses it at close, where the error is dropped (`:528`), after all tiles were accepted with 0 |
| `FacadeCamera`, `SameCalibration` | "so a later [`crate::camera::ptiff_open_path_camera`] on the file returns the same calibration" (`pixel_bridge.rs:397-398`); "`has_intrinsics` / `has_extrinsics` are `0` when the corresponding field group is absent" (`ptiff-c/src/camera.rs:27-28`) | `camera_from_c` never looks at `has_extrinsics` (`camera.rs:207`): a camera without a pose, its struct zeroed, gets one with a rotation of zeros |
| `FacadeCodes`, `FailuresNegative` | "Every fallible C-ABI operation returns a negative value on failure" (`ptiff-c/src/error.rs:5-7`), "On failure returns a negative error code" (`pixel_bridge.rs:209-210`) | `NotImplemented` is 0, and so is its negation (`error.rs:47`): a tile whose codec is not built is answered with the code of success |
| `FacadeNul`, `FreesAreSymmetric` | Strings are "allocated with `Vec` capacity `len + 1` by `alloc_c_string`. The three `from_raw_parts`/`drop` reconstructions are the symmetric frees." (`ptiff-c/src/metadata.rs:218-220`) | `ptiff_fields_free` takes the length up to the first NUL (`:231`), and names and values of a file may hold one (`tiff/ptiff_metadata.rs:183`, `:198`): the block is given back with another layout than its own |
| `FacadeHalf`, `EmittedWhole` | "on a write failure we swallow the error (the file is simply not emitted)" (`pixel_bridge.rs:524-525`) | `fs::write` empties the file before it writes and leaves what it wrote (`:529`): there is part of a file, and what was there before is gone |

`TiffReaderMisfit` passes: with the same files as `TiffReaderTable` and every call
but the parallel one, answers are those of the grid (`ImplementsImageFile`).

Other disagreements between the code and its documentation, met while modelling.
The models do what the code does, and no property is about these.

- *TIFF writer.* A compressed image of tiles as wide as the image passes the
  check for tiled images of a list (`tiff/directory_writer.rs:585`) and its
  slots are never rebased: it patches the first image's IFD. This is why the
  proofs assume `FilesSafe`. A strip with a predictor and no compression is
  planned (`:258-265`) and written raw, and read through the predictor all the
  same; `SceneSerializer` never writes one.
- *TIFF reader.*
  `read_image_pixels` concatenates padded tiles in grid order, where its doc
  (`ptiff-rust/src/tiff.rs:143-147`) speaks of rows without padding; the
  command line's thumbnails of tiled images are made of that. Opening stops
  silently after `K_MAX_DIRECTORIES` (`tiff_backend.rs:59`), `directory_at` does not
  (`ptiff-rust/src/tiff.rs:235-262`): in a longer chain `read_all_tiles_parallel`
  returns tiles of an image that `image_count` does not count, where its doc
  (`:194-196`) promises NotFound.
- *Codecs.* "Decoding stops the instant exactly `expected_size` bytes have been
  produced" (`tiff/compression/lzw.rs:90-91`); the code, and the model, read on to
  the end-of-information code, and another code that adds bytes is an error.
- *HTTP reader.* A 200 in answer to a later range request is taken for the range
  (`core/io/http_range_binary_reader.rs:250`); the model has it when `KeepsRange`
  is FALSE.
- *Scene.* After a serde round trip the ids of the families whose Vecs are
  skipped are off (`core/scene.rs:92`); `KeptIdsExact` speaks of the others. A
  scene with a camera or a geometry cannot be written as a TIFF
  (`core/io/scene_serializer.rs:132`), where the docs say these are dropped.
- *Other backends.* A Memory document opened by image index is read from where
  the cursor is but its pixels are counted from the start (`memory_backend.rs:125`),
  so `SourceAligned` allows that an open fails. Tiles "may be written in any
  order" only within the extent of the writer.
- *C API.* The doc of `ptiff_sink_create` (`pixel_bridge.rs:342-343`) says that
  header and directory are written at once; nothing is written before close.
- *Extension fields.* A camera with half of its pose, or a lens parameter that is
  no number, is accepted (`core/geometry/marshal.rs:146-147`, `:188-190` say
  otherwise); names nobody knows are dropped from a complete domain, an unknown
  frame becomes UNSPECIFIED, and payloads of later versions are lost by copying.

## 6. What is not modelled

Short writes to slots (`MemoryBinaryWriter`, the only writer there is, never
makes one); the values of IFD entries no property is about; the syntax of
labels and headers; which error a refused call returns, except where callers
see it in a property; the tags an IFD may have, beyond the verdict of
`interpret_tiff_ifd`; levels of a pyramid above 0, which no TIFF image has; HTTP
redirects and authentication. Deflate, Zstd, JPEG and `ryu` are libraries: the
first three are only a size per payload, the last is an external definition.
Quaternions, camera models and projections are floating-point arithmetic without
state. `RemoteTiff` is not modelled yet. Logging keeps one atomic level nothing
depends on. The commands other than `copy`, Python and the other bindings call
the facade and print. Sums of 32-bit sizes that only reserve memory
(`tiff/image_source.rs:246`), and the second check of 32-bit offsets behind the
planner's (`tiff/directory_writer.rs:434`), change no answer and are left out.

## 7. Plan

Done: the TIFF writer, HTTP reader, scene, backend factory, TIFF reader, other
backends, codecs, extension fields, C API, copy command, canonical JSON and
manifests, all with their proofs. Left:

1. `RemoteTiff` on top of `HttpRangeReader`, where calls read an object that
   changes between them.
