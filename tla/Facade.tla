------------------------------- MODULE Facade -------------------------------
(***************************************************************************)
(* The callers of the ptiff crate that keep or move files: the C API       *)
(* (crates/ptiff-c: source, sink, image and field handles) in one process, *)
(* the copy command (crates/ptiff-cli) in another, over the same disk. A   *)
(* call that fails before it changes anything is a stuttering step; the    *)
(* code it returns is kept for ptiff_source_read_tile alone.               *)
(***************************************************************************)
EXTENDS PtiffFields, Sequences

CONSTANTS
  Paths,        \* the files the programs use
  Contents,     \* what a tile may hold
  Zero,         \* a tile of zeros, one of Contents
  Jobs,         \* the descriptors and cameras a caller passes to a sink
  ForeignFiles, \* the files other programs leave on the disk
  Built,        \* the compressions whose codec this build has
  Sinks,        \* names for the sink handles a caller may hold
  WithNul,      \* the names and values of fields that hold a NUL
  NoFile, Null, \* no file at a path, no handle
  Unknown,      \* no promise about a file, no tile
  MaxWrites,    \* bound: how many tiles a sink is given
  MaxHeld,      \* bound: how many things of the library a caller holds at a time
  MaxFiles,     \* bound: how many sinks are created and copies made
  MaxFaults     \* bound: how many writes of the disk go wrong

ASSUME ContentAssumption == Zero \in Contents /\ Unknown \notin Contents

ASSUME HandleAssumption ==
  /\ IsFiniteSet(Sinks)
  /\ MaxWrites \in Nat /\ MaxHeld \in Nat /\ MaxFiles \in Nat /\ MaxFaults \in Nat

(* A caller's numbers are numbers and its lens parameters are known ones.  *)
ASSUME JobsAssumption ==
  \A j \in Jobs :
    /\ {"columns", "rows", "compression"} \subseteq DOMAIN j.desc
    /\ j.desc.columns \in Nat /\ j.desc.rows \in Nat
    /\ j.camera # Absent =>
         /\ {j.camera.focal, j.camera.principal, j.camera.rotation, j.camera.position} \subseteq Numbers
         /\ \E K \in SUBSET {"lens.k1", "lens.k2"} : j.camera.params \in [K -> Numbers]

(* A foreign file has no more tiles than it claims, and tags of PTIFF.     *)
ASSUME ForeignAssumption ==
  \A f \in ForeignFiles :
    /\ {"columns", "rows", "compression"} \subseteq DOMAIN f.desc
    /\ f.desc.columns \in Nat /\ f.desc.rows \in Nat
    /\ f.tiles \in Seq(Contents) /\ f.have \in Int /\ f.have <= Len(f.tiles)
    /\ DOMAIN f.tags \subseteq TagDomains

VARIABLES
  disk,      \* per path, the file there
  sinks,     \* per name, the PtiffSink or Null
  source,    \* the PtiffSource or Null
  held,      \* what else the caller holds: names, field arrays
  heap,      \* the blocks of memory the library handed out and not yet freed
  got,       \* what the last ptiff_source_read_tile returned
  expected,  \* per path, what a reader of the file must find
  files,     \* how many sinks were created and copies made
  faults

vars == <<disk, sinks, source, held, heap, got, expected, files, faults>>
storage == <<disk, expected, faults>>

------------------------------------------------------------------------------
(* Results and error codes (error.rs). A core error is its name.           *)

Code == [NotImplemented |-> 0, InvalidArgument |-> 1, OutOfRange |-> 2, NotFound |-> 3]
ToCError(e) == -Code[e]

------------------------------------------------------------------------------
(* Files, as Tiff::open, read_tile and to_bytes_with_pixels see them.      *)

Size(d) == d.columns * d.rows
Cells(d) == (0 .. d.columns - 1) \X (0 .. d.rows - 1)

(* The place of tile (column, row) in the grid-ordered raster.             *)
Place(d, t) == t[2] * d.columns + t[1] + 1

(* PtiffSink::write_tile: where the tile goes in the sink's raster.        *)
RasterPlace(d, t) == Place(d, t)

(* A file cut within its directory has no tiles to speak of; one cut later *)
(* has the first of them, and what it has not is zeros here, never read.   *)
Opens(f) == f.have >= 0 /\ Readable(f.tags)

(* Mutant: a file that ends within its directory is opened.                *)
OpenErrorUncut(f) ==
  IF f = NoFile THEN "NotFound" ELSE IF ~Readable(f.tags) THEN "InvalidArgument" ELSE "None"

OpenError(f) ==
  IF f = NoFile THEN "NotFound" ELSE IF ~Opens(f) THEN "InvalidArgument" ELSE "None"

(* Mutant: a tile that begins within the file is read beyond its end.      *)
ReadErrorUncut(f, t) ==
  IF t \notin Cells(f.desc) THEN "OutOfRange"
  ELSE IF Place(f.desc, t) > f.have + 1 THEN "InvalidArgument"
  ELSE IF f.desc.compression \notin Built THEN "NotImplemented"
  ELSE "None"

ReadError(f, t) ==
  IF t \notin Cells(f.desc) THEN "OutOfRange"
  ELSE IF Place(f.desc, t) > f.have THEN "InvalidArgument"
  ELSE IF f.desc.compression \notin Built THEN "NotImplemented"
  ELSE "None"

TileOf(f, t) == f.tiles[Place(f.desc, t)]

(* SceneSerializer::serialize, plan_tiff_write and the sink's codec.       *)
CanWrite(d) ==
  d.channels \in {1, 3} /\ (d.tiled => d.sixteen) /\ d.compression \in Built

ToBytes(d, raster, tags) ==
  [desc |-> d, tiles |-> raster, have |-> Len(raster), tags |-> tags]

(* std::fs::write: it may fail at once, or after it emptied the file, with *)
(* the directory (-1) or the last tile incomplete.                         *)
CutAt(f, n) ==
  [f EXCEPT !.have = n, !.tiles = [i \in DOMAIN f.tiles |-> IF i <= n THEN f.tiles[i] ELSE Zero]]
Cuts(old, f) == {old, CutAt(f, -1), CutAt(f, f.have - 1)}

------------------------------------------------------------------------------
(* Cameras on the C side (camera.rs).                                      *)

(* camera_from_c: intrinsics and pose are taken whatever their flags say.  *)
CameraFromC(c) ==
  [model |-> "pinhole", timestamp |-> c.timestamp,
   focal |-> c.focal, principal |-> c.principal,
   rotation |-> c.rotation, position |-> c.position,
   lens_kind |-> IF c.has_lens THEN LensKindFromStr(c.lens_kind) ELSE "pinhole",
   params |-> c.params]

(* Mutant: a pose is reported whatever it is.                              *)
CameraToCPosed(c) ==
  [has_intrinsics |-> TRUE, has_extrinsics |-> TRUE, has_lens |-> TRUE,
   timestamp |-> c.timestamp, focal |-> c.focal, principal |-> c.principal,
   rotation |-> c.rotation, position |-> c.position, lens_kind |-> c.lens_kind,
   params |-> c.params]

(* camera_to_c.                                                            *)
CameraToC(c) ==
  [has_intrinsics |-> TRUE, has_extrinsics |-> ~(c.rotation = Identity /\ c.position = Identity),
   has_lens |-> TRUE, timestamp |-> c.timestamp, focal |-> c.focal, principal |-> c.principal,
   rotation |-> c.rotation, position |-> c.position, lens_kind |-> c.lens_kind,
   params |-> c.params]

(* ptiff_open_path_camera; Absent stands for the struct of zeros.          *)
CameraView(camera) == IF camera = Absent THEN Absent ELSE CameraToC(camera)
CameraOf(f) == CameraView(ReadExtensions(f.tags).camera)

------------------------------------------------------------------------------
(* Memory. A block is what it is for and what it is sized for. A string is *)
(* allocated with its length, and freed with the length CStr finds in it:  *)
(* the same only if it has no NUL. A free of the wrong size is undefined;  *)
(* here it leaves the block allocated.                                     *)

FieldStrings(f) ==
  {<<"key", k, k[2]>> : k \in DOMAIN f} \cup {<<"value", k, f[k]>> : k \in DOMAIN f}
FieldArray(f) == <<"array", "fields", Cardinality(DOMAIN f)>>

(* ptiff_open_path_fields: an empty list allocates nothing.                *)
Allocated(f) == IF DOMAIN f = {} THEN {} ELSE FieldStrings(f) \cup {FieldArray(f)}

(* Mutant: only the keys and the array are freed.                          *)
ReleasedKeys(f) ==
  {b \in FieldStrings(f) : b[1] = "key" /\ b[3] \notin WithNul} \cup {FieldArray(f)}

(* ptiff_fields_free.                                                      *)
Released(f) ==
  IF DOMAIN f = {} THEN {}
  ELSE {b \in FieldStrings(f) : b[3] \notin WithNul} \cup {FieldArray(f)}

SinkBlock(s) == <<"sink", s, 1>>
SourceBlock == <<"source", "", 1>>
NamesBlock == <<"names", "", 1>>

------------------------------------------------------------------------------
(* How many things of the library the caller holds.                        *)
Holds ==
  Cardinality({s \in Sinks : sinks[s] # Null})
  + Cardinality({x \in {"source", "names", "fields"} :
      \/ x = "source" /\ source # Null
      \/ x = "names" /\ held.names
      \/ x = "fields" /\ held.fields # Null})

(* One file of another program is on the disk.                             *)
Init ==
  /\ \E p \in Paths, f \in ForeignFiles : disk = [x \in Paths |-> IF x = p THEN f ELSE NoFile]
  /\ sinks = [s \in Sinks |-> Null] /\ source = Null
  /\ held = [names |-> FALSE, fields |-> Null]
  /\ heap = {}
  /\ got = Unknown
  /\ expected = [p \in Paths |-> Unknown]
  /\ files = 0 /\ faults = 0

(* What a reader must find at a path after a write; the camera as C has it.*)
Promise(tiles, camera, metadata, copied) ==
  [whole |-> TRUE, tiles |-> tiles, camera |-> camera, metadata |-> metadata, copied |-> copied]

(* A write that was cut keeps no tile it promised, but invents none.       *)
Halved(promise) == [promise EXCEPT !.whole = FALSE]

(* std::fs::write of f to path p.                                          *)
WriteFile(p, f, promise) ==
  \/ /\ disk' = [disk EXCEPT ![p] = f]
     /\ expected' = [expected EXCEPT ![p] = promise]
     /\ UNCHANGED faults
  \/ \E cut \in Cuts(disk[p], f) :
       /\ faults < MaxFaults /\ faults' = faults + 1
       /\ disk' = [disk EXCEPT ![p] = cut]
       /\ expected' = IF cut = disk[p] THEN expected ELSE [expected EXCEPT ![p] = Halved(promise)]

------------------------------------------------------------------------------
(* Reading through a source handle.                                        *)

(* ptiff_source_open: the handle keeps the bytes of the file.              *)
SourceOpen(p) ==
  /\ source = Null /\ Holds < MaxHeld
  /\ OpenError(disk[p]) = "None"
  /\ source' = [path |-> p, file |-> disk[p], promised |-> expected[p]]
  /\ heap' = heap \cup {SourceBlock}
  /\ got' = Unknown
  /\ UNCHANGED <<storage, files, sinks, held>>

SourceClose ==
  /\ source # Null
  /\ source' = Null /\ heap' = heap \ {SourceBlock}
  /\ got' = Unknown
  /\ UNCHANGED <<storage, files, sinks, held>>

(* Mutant: the file is read again from the path of the source.             *)
ReadAgain == disk[source.path]

(* The bytes a read opens: those the handle kept.                          *)
Retained == source.file

(* ptiff_source_read_tile into a buffer that fits the tile or is too small.*)
SourceReadTile(t, fits) ==
  LET e == IF fits THEN ReadError(Retained, t) ELSE "InvalidArgument" IN
  /\ source # Null
  /\ got' = [cell |-> t, fits |-> fits, rc |-> IF e = "None" THEN 0 ELSE ToCError(e),
             tile |-> IF e = "None" THEN TileOf(Retained, t) ELSE Unknown]
  /\ UNCHANGED <<storage, files, sinks, source, held, heap>>

------------------------------------------------------------------------------
(* Writing through a sink handle.                                          *)

(* ptiff_sink_create and ptiff_sink_create_camera.                         *)
SinkCreate(s, p, job) ==
  /\ sinks[s] = Null /\ Holds < MaxHeld
  /\ files < MaxFiles /\ files' = files + 1
  /\ job.desc.tiled /\ job.desc.columns > 0 /\ job.desc.rows > 0
  /\ sinks' = [sinks EXCEPT ![s] =
       [path |-> p, desc |-> job.desc,
        camera |-> IF job.camera = Absent THEN Absent ELSE CameraFromC(job.camera),
        given |-> job.camera,
        raster |-> [i \in 1 .. Size(job.desc) |-> Zero],
        accepted |-> [t \in Cells(job.desc) |-> Zero], written |-> 0]]
  /\ heap' = heap \cup {SinkBlock(s)}
  /\ got' = Unknown
  /\ UNCHANGED <<storage, source, held>>

(* ptiff_sink_write_tile of a buffer of the size of a tile.                *)
SinkWriteTile(s, t, c) ==
  /\ sinks[s] # Null
  /\ t \in Cells(sinks[s].desc) /\ sinks[s].written < MaxWrites
  /\ sinks' = [sinks EXCEPT ![s].raster[RasterPlace(sinks[s].desc, t)] = c,
                            ![s].accepted[t] = c, ![s].written = @ + 1]
  /\ got' = Unknown
  /\ UNCHANGED <<storage, files, source, held, heap>>

(* ptiff_sink_close: the file is made here, and errors are swallowed. What *)
(* the sink accepted is promised by its documentation, made or not.        *)
SinkClose(s) ==
  LET k == sinks[s]
      promise == Promise(k.accepted, k.given, NoFields, FALSE)
      f == ToBytes(k.desc, k.raster,
             WriteExtensions([camera |-> k.camera, crs |-> Absent, metadata |-> NoFields])) IN
  /\ k # Null
  /\ sinks' = [sinks EXCEPT ![s] = Null]
  /\ heap' = heap \ {SinkBlock(s)}
  /\ IF CanWrite(k.desc)
       THEN WriteFile(k.path, f, promise)
     ELSE /\ expected' = [expected EXCEPT ![k.path] = promise]
          /\ UNCHANGED <<disk, faults>>
  /\ got' = Unknown
  /\ UNCHANGED <<source, held, files>>
------------------------------------------------------------------------------
(* The other things a C caller holds: ptiff_open_path_fields and           *)
(* ptiff_fields_free, ptiff_backend_names and ptiff_free_string.           *)

(* The fields are those of the tags, whether or not a scene can be made.   *)
OpenPathFields(p) ==
  LET f == FieldsOfTags(disk[p].tags) IN
  /\ held.fields = Null /\ Holds < MaxHeld
  /\ disk[p] # NoFile /\ disk[p].have >= 0
  /\ held' = [held EXCEPT !.fields = f]
  /\ heap' = heap \cup Allocated(f)
  /\ got' = Unknown
  /\ UNCHANGED <<storage, files, sinks, source>>

FieldsFree ==
  /\ held.fields # Null
  /\ heap' = heap \ Released(held.fields)
  /\ held' = [held EXCEPT !.fields = Null]
  /\ got' = Unknown
  /\ UNCHANGED <<storage, files, sinks, source>>

(* The factory always lists a backend, so the string is never null.        *)
BackendNames ==
  /\ ~held.names /\ Holds < MaxHeld
  /\ held' = [held EXCEPT !.names = TRUE] /\ heap' = heap \cup {NamesBlock}
  /\ got' = Unknown
  /\ UNCHANGED <<storage, files, sinks, source>>

FreeString ==
  /\ held.names
  /\ held' = [held EXCEPT !.names = FALSE] /\ heap' = heap \ {NamesBlock}
  /\ got' = Unknown
  /\ UNCHANGED <<storage, files, sinks, source>>

------------------------------------------------------------------------------
(* ptiff copy.                                                             *)

(* descriptor_of: a tile that is exactly the image is written as a strip;  *)
(* strips that are less than the image become tiles.                       *)
DescriptorOf(d) == [d EXCEPT !.tiled = ~d.spans]

(* descriptor_of: camera and reference system, and no other field.         *)
ExtensionsOf(tags) == [ReadExtensions(tags) EXCEPT !.metadata = NoFields]

Copied(f) == ToBytes(DescriptorOf(f.desc), f.tiles, WriteExtensions(ExtensionsOf(f.tags)))

(* run_copy: all of the source is read before the copy is written.         *)
CliCopy(p, q) ==
  LET f == disk[p]
      read == ReadExtensions(f.tags)
      tiles == [t \in Cells(f.desc) |-> TileOf(f, t)] IN
  /\ files < MaxFiles /\ files' = files + 1
  /\ OpenError(f) = "None"
  /\ \A t \in Cells(f.desc) : ReadError(f, t) = "None"
  /\ CanWrite(DescriptorOf(f.desc))
  /\ WriteFile(q, Copied(f), Promise(tiles, CameraOf(f), read.metadata, TRUE))
  /\ got' = Unknown
  /\ UNCHANGED <<sinks, source, held, heap>>

------------------------------------------------------------------------------
CApi ==
  \/ \E p \in Paths : SourceOpen(p) \/ OpenPathFields(p)
  \/ SourceClose
  \/ \E t \in {<<0, 0>>, <<0, 1>>, <<1, 0>>}, fits \in BOOLEAN : SourceReadTile(t, fits)
  \/ \E s \in Sinks :
       \/ \E p \in Paths, job \in Jobs : SinkCreate(s, p, job)
       \/ \E t \in {0, 1} \X {0, 1}, c \in Contents : SinkWriteTile(s, t, c)
       \/ SinkClose(s)
  \/ FieldsFree
  \/ BackendNames \/ FreeString

Next == CApi \/ \E p \in Paths, q \in Paths : CliCopy(p, q)

Spec == Init /\ [][Next]_vars

------------------------------------------------------------------------------
(* A handle has the shape its calls rely on, and the fields a caller holds *)
(* are fields of tags.                                                     *)
TypeOK ==
  /\ \A s \in Sinks : sinks[s] # Null =>
       /\ sinks[s].path \in Paths
       /\ sinks[s].raster \in [1 .. Size(sinks[s].desc) -> Contents]
       /\ DOMAIN sinks[s].accepted = Cells(sinks[s].desc)
  /\ source # Null => source.file.have >= 0
  /\ held.fields # Null => \A k \in DOMAIN held.fields : k[1] \in TagDomains
  /\ files \in 0 .. MaxFiles /\ faults \in 0 .. MaxFaults /\ Holds <= MaxHeld

(* The tiles a reader of f finds: all of those promised, or, of a file     *)
(* whose write was cut, no other.                                          *)
Found(f, promise) ==
  /\ promise.whole => OpenError(f) = "None"
  /\ OpenError(f) = "None" =>
       \A t \in DOMAIN promise.tiles :
         IF ReadError(f, t) = "None" THEN TileOf(f, t) = promise.tiles[t] ELSE ~promise.whole

(* The file of a sink that was closed, or of a copy, has at each tile what *)
(* ptiff_sink_write_tile accepted for it last and zeros where nothing was  *)
(* written, through any number of copies; where the disk failed during the *)
(* write, the file does not open, or a tile of it is that or an error. It  *)
(* holds of sinks whose layout the writer supports (Facade.cfg); others    *)
(* lose what they accepted (FacadeClose.cfg).                              *)
ReadsBack == \A p \in Paths : expected[p] # Unknown => Found(disk[p], expected[p])

(* What a camera says to a C program: a group of numbers whose flag is 0   *)
(* is absent, and so is a lens, which is then a pinhole.                   *)
Calibration(c) ==
  IF c = Absent THEN Absent
  ELSE [intrinsics |-> IF c.has_intrinsics THEN <<c.focal, c.principal>> ELSE Absent,
        extrinsics |-> IF c.has_extrinsics THEN <<c.rotation, c.position>> ELSE Absent,
        lens_kind |-> IF c.has_lens THEN c.lens_kind ELSE "pinhole",
        params |-> c.params, timestamp |-> c.timestamp]

(* "so a later ptiff_open_path_camera on the file returns the same         *)
(* calibration": the one given to ptiff_sink_create_camera, with the groups*)
(* that were absent absent, and through any number of copies. It holds of  *)
(* cameras whose flags and numbers agree (Facade.cfg, FacadeCamera.cfg).   *)
SameCalibration ==
  \A p \in Paths :
    expected[p] # Unknown /\ OpenError(disk[p]) = "None" =>
      Calibration(CameraOf(disk[p])) = Calibration(expected[p].camera)

(* ptiff_source_read_tile returns 0 exactly when it delivered a tile. The  *)
(* tile is the one promised of the file when the source was opened, and    *)
(* every such tile of a whole file is delivered into a buffer that fits,   *)
(* whatever sinks and copies have since written to its path. It holds of   *)
(* builds with every codec the files have (Facade.cfg); the failure of one *)
(* that is missing is code 0 (FailuresNegative, FacadeCodes.cfg).          *)
SourceAnswers ==
  got # Unknown =>
    /\ got.rc = 0 <=> got.tile # Unknown
    /\ source.promised # Unknown =>
         /\ got.tile # Unknown => got.tile = source.promised.tiles[got.cell]
         /\ source.promised.whole /\ got.fits /\ got.cell \in DOMAIN source.promised.tiles =>
              got.tile # Unknown

(* "On failure returns a negative error code": the code that reads fail    *)
(* with is below 0.                                                        *)
FailuresNegative == got # Unknown /\ got.tile = Unknown => got.rc < 0

(* "on a write failure we swallow the error (the file is simply not        *)
(* emitted)": what a sink that was closed has left is no part of a file.   *)
EmittedWhole ==
  \A p \in Paths :
    expected[p] # Unknown /\ ~expected[p].copied => disk[p].have = Len(disk[p].tiles)

(* What the caller holds.                                                  *)
Owned ==
  {SinkBlock(s) : s \in {x \in Sinks : sinks[x] # Null}}
    \cup (IF source = Null THEN {} ELSE {SourceBlock})
    \cup (IF held.names THEN {NamesBlock} ELSE {})
    \cup (IF held.fields = Null THEN {} ELSE Allocated(held.fields))

(* Nothing is freed while its caller holds it, and all that stays behind   *)
(* of what was handed back are field names and values that hold a NUL.     *)
HeapOwned == Owned \subseteq heap /\ \A b \in heap \ Owned : b[3] \in WithNul

(* "allocated with Vec capacity len + 1 [...] the three reconstructions    *)
(* are the symmetric frees": what was handed back is freed, all of it.     *)
FreesAreSymmetric == heap = Owned

(* A copy of a copy has the extension tags of the copy: what the first     *)
(* copy changes (unknown frames, the legacy reference system, a camera     *)
(* without a pose) it changes for good.                                    *)
Settled ==
  \A p \in Paths :
    expected[p] # Unknown /\ expected[p].copied /\ OpenError(disk[p]) = "None" =>
      Copied(disk[p]).tags = disk[p].tags

(* "so a copy preserves the full metadata surface (extension domains       *)
(* included)": the fields that are neither camera nor reference system are *)
(* in the copy.                                                            *)
CopyKeepsMetadata ==
  \A p \in Paths :
    expected[p] # Unknown /\ OpenError(disk[p]) = "None" =>
      ReadExtensions(disk[p].tags).metadata = expected[p].metadata
=============================================================================
