----------------------------- MODULE TiffReader ------------------------------
(***************************************************************************)
(* The read side of the TIFF backend, over a file nobody vouches for: the  *)
(* walk of the chain of IFDs by read_directory_chain, which every call of  *)
(* Tiff repeats, and the two ways to a whole image: tile by tile through   *)
(* read_tile, and through read_all_tiles_parallel, which finds the IFD by  *)
(* a walk of its own (directory_at), reads all tiles and hands them to a   *)
(* pool of threads to be decoded.                                          *)
(*                                                                         *)
(* A file says of every address what an IFD that starts there would hold.  *)
(* Sums and products of numbers from the file are 64-bit; WordMax is the   *)
(* largest.                                                                *)
(***************************************************************************)
EXTENDS Integers, Sequences

CONSTANTS
  HeaderSize, CountField, EntrySize, ValueArea, NextField,
  WordMax,         \* u64::MAX
  MaxTagCount,     \* K_MAX_TAG_COUNT
  MaxDirectories,  \* K_MAX_DIRECTORIES
  MinParallel,     \* MIN_TILES_FOR_PARALLEL
  Payloads,        \* what a tile may decode to
  Bad,             \* in place of the payload of a tile that does not decode
  Files,           \* what the file may be
  Asked,           \* the calls callers make
  None

Entry == [known: BOOLEAN, count: Nat, width: Nat \ {0}, offset: Nat]
Range == [offset: Nat, count: Nat, payload: Payloads \union {Bad}]
Ifd == [entries: Seq(Entry), next: 0 .. WordMax,
        sound: BOOLEAN,   \* whether interpret_tiff_ifd accepts it
        scenic: BOOLEAN,  \* whether SceneDeserializer then accepts what it says
        width: Nat, height: Nat, tile_width: Nat, tile_height: Nat,
        table: Seq(Range)]

ASSUME FormatAssumption ==
  /\ HeaderSize \in Nat /\ CountField \in Nat \ {0} /\ EntrySize \in Nat \ {0}
  /\ ValueArea \in Nat /\ NextField \in Nat \ {0}
  /\ WordMax \in Nat /\ ValueArea <= WordMax /\ MaxTagCount \in Nat /\ MinParallel \in Nat
  /\ MaxDirectories \in Nat \ {0}
  /\ Bad \notin Payloads

ASSUME FilesAssumption ==
  \A f \in Files :
    /\ f.size \in 0 .. WordMax /\ f.first \in 0 .. WordMax
    /\ f.ifd \in [0 .. f.size -> Ifd]

Calls == [op: {"open"}, image: {1}, column: {0}, row: {0}]
         \union [op: {"pixels", "parallel"}, image: Nat \ {0}, column: {0}, row: {0}]
         \union [op: {"tile"}, image: Nat \ {0}, column: Nat, row: Nat]

ASSUME CallsAssumption == Asked \subseteq Calls /\ None \notin Asked

VARIABLES
  file,
  status,  \* "closed", "open" or "refused"
  call,    \* the call being served, or None
  pc,      \* "idle", "header", "count", "entries", "tiles", "fetch" or "pool"
  at,      \* address of the IFD being parsed
  entry,   \* how many of its entries were read
  chain,   \* addresses of the IFDs parsed by this call
  tiles,   \* tiles of the image read by this call
  decoded, \* which of them the pool has decoded
  failed,  \* the first tile seen to fail, 0 before
  reads,   \* the regions the last step read: [from, length]
  answer   \* the last answer, or None

progress == <<at, entry, chain, tiles, decoded, failed>>
vars == <<file, status, call, pc, progress, reads, answer>>

------------------------------------------------------------------------------
(* Tiles of an image.                                                      *)

CeilDiv(a, b) == (a + b - 1) \div b
Columns(m) == IF m.tile_width = 0 THEN 0 ELSE CeilDiv(m.width, m.tile_width)
Rows(m) == IF m.tile_height = 0 THEN 0 ELSE CeilDiv(m.height, m.tile_height)

(* A reader with a bug: column-major. *)
LinearByColumn(m, column, row) == column * Rows(m) + row
Linear(m, column, row) == row * Columns(m) + column

(* offset > file_size || byte_count > file_size - offset *)
Outside(offset, length) == offset > file.size \/ length > file.size - offset

(* read_tile: the payload of a tile of the grid, or Bad for an error.      *)
TileAt(m, column, row) ==
  LET k == Linear(m, column, row) + 1
  IN  IF column >= Columns(m) \/ row >= Rows(m) \/ k > Len(m.table) THEN Bad
      ELSE IF Outside(m.table[k].offset, m.table[k].count) THEN Bad
      ELSE m.table[k].payload

------------------------------------------------------------------------------
(* Calls.                                                                  *)

Init ==
  /\ file \in Files
  /\ status = "closed" /\ call = None /\ pc = "idle"
  /\ at = 0 /\ entry = 0 /\ chain = << >>
  /\ tiles = << >> /\ decoded = {} /\ failed = 0
  /\ reads = {} /\ answer = None

(* A call opens a reader of its own over the bytes and starts from their   *)
(* beginning.                                                              *)
Begin(c) ==
  /\ call = None
  /\ status = IF c.op = "open" THEN "closed" ELSE "open"
  /\ call' = c /\ pc' = "header" /\ reads' = {}
  /\ UNCHANGED <<file, status, progress, answer>>

Ok(s) == [ok |-> TRUE, tiles |-> s, failed |-> 0]
Error == [ok |-> FALSE, tiles |-> << >>, failed |-> 0]
TileError(k) == [ok |-> FALSE, tiles |-> << >>, failed |-> k]

Return(result) ==
  /\ answer' = result
  /\ status' = IF call.op # "open" THEN status
               ELSE IF result.ok THEN "open" ELSE "refused"
  /\ call' = None /\ pc' = "idle"
  /\ at' = 0 /\ entry' = 0 /\ chain' = << >>
  /\ tiles' = << >> /\ decoded' = {} /\ failed' = 0

------------------------------------------------------------------------------
(* The walk.                                                               *)

Region(from, length) == [from |-> from, length |-> length]

M == file.ifd[at]
TableAt == at + CountField
TableEnd == TableAt + Len(M.entries) * EntrySize

(* checked_add_u64 and a comparison with the file's size. *)
EndsBeyond(start, length) ==
  start + length > WordMax \/ start + length > file.size

(* checked_mul_u64 too, of the entries; one with a bug: the sum wraps. *)
TableBeyondWrapped == (TableAt + Len(M.entries) * EntrySize) % (WordMax + 1) > file.size
TableBeyond == EndsBeyond(TableAt, Len(M.entries) * EntrySize)

(* read_tiff_header *)
ReadHeader ==
  /\ pc = "header"
  /\ IF file.size < HeaderSize
     THEN Return(Error) /\ reads' = {}
     ELSE /\ at' = file.first /\ pc' = "count" /\ reads' = {Region(0, HeaderSize)}
          /\ UNCHANGED <<status, call, entry, chain, tiles, decoded, failed, answer>>
  /\ UNCHANGED file

(* The bounds check of read_directory_chain and the entry count of         *)
(* read_tiff_ifd; directory_at leaves the former to the latter's seek and  *)
(* read, which then fail.                                                  *)
ReadCount ==
  /\ pc = "count"
  /\ IF EndsBeyond(at, CountField) \/ TableBeyond
     THEN Return(Error) /\ reads' = {}
     ELSE /\ pc' = "entries" /\ reads' = {Region(at, CountField)}
          /\ UNCHANGED <<status, call, progress, answer>>
  /\ UNCHANGED file

(* read_raw_entry and resolve_entry: an entry of an unknown type is        *)
(* skipped, a short value is in the entry, a long one elsewhere.           *)
ReadEntry ==
  /\ pc = "entries" /\ entry < Len(M.entries)
  /\ LET e == M.entries[entry + 1]
         bytes == e.count * e.width
         long == bytes > ValueArea
         wild == bytes > WordMax \/ (long /\ Outside(e.offset, bytes))
     IN  /\ IF e.known /\ (wild \/ e.count > MaxTagCount)
            THEN Return(Error)
            ELSE /\ entry' = entry + 1
                 /\ UNCHANGED <<status, call, pc, at, chain, tiles, decoded, failed, answer>>
         /\ reads' = {Region(TableAt + entry * EntrySize, EntrySize)}
                       \union IF e.known /\ long /\ ~wild THEN {Region(e.offset, bytes)} ELSE {}
  /\ UNCHANGED file

Parsed == pc = "entries" /\ entry = Len(M.entries)
NextMissing == TableEnd + NextField > file.size

(* The next-IFD field is read before anything is made of the IFD.          *)
ReadNext == reads' = IF NextMissing THEN {} ELSE {Region(TableEnd, NextField)}

GoOn ==
  /\ chain' = Append(chain, at)
  /\ at' = M.next /\ pc' = "count" /\ entry' = 0
  /\ UNCHANGED <<status, call, tiles, decoded, failed, answer>>

ToTiles ==
  /\ chain' = Append(chain, at)
  /\ pc' = IF call.op = "parallel" THEN "fetch" ELSE "tiles"
  /\ UNCHANGED <<status, call, at, entry, tiles, decoded, failed, answer>>

(* A chain must ascend; one with a bug: it must not stay. *)
TurnsBackInPlace == M.next = at
TurnsBack == M.next <= at

(* The walk stops at the end, and silently at MaxDirectories. *)
IsLast == M.next = 0 \/ Len(chain) + 1 = MaxDirectories

(* Whether from_bytes can make a scene of the IFDs of the walk. *)
Scenic == M.scenic /\ \A k \in DOMAIN chain : file.ifd[chain[k]].scenic

(* read_directory_chain, after an IFD: the whole chain is walked and every *)
(* IFD interpreted, whichever image is asked for.                          *)
FollowChain ==
  /\ Parsed /\ call.op # "parallel"
  /\ IF NextMissing \/ ~M.sound \/ (M.next # 0 /\ TurnsBack) THEN Return(Error)
     ELSE IF ~IsLast THEN GoOn
     ELSE IF call.op = "open" THEN Return(IF Scenic THEN Ok(<< >>) ELSE Error)
     ELSE IF call.image > Len(chain) + 1 THEN Return(Error)
     ELSE ToTiles
  /\ ReadNext
  /\ UNCHANGED file

(* directory_at, after an IFD: only the image asked for is interpreted,    *)
(* and nothing asks whether the chain ascends.                             *)
FollowDirect ==
  /\ Parsed /\ call.op = "parallel"
  /\ LET found == Len(chain) + 1 = call.image
     IN  IF NextMissing \/ (IF found THEN ~M.sound ELSE M.next = 0) THEN Return(Error)
         ELSE IF found THEN ToTiles
         ELSE GoOn
  /\ ReadNext
  /\ UNCHANGED file

------------------------------------------------------------------------------
(* The pixels of image call.image.                                         *)

Directory == file.ifd[chain[call.image]]
Take(range) ==
  /\ tiles' = Append(tiles, range.payload)
  /\ reads' = {Region(range.offset, range.count)}
  /\ UNCHANGED <<status, call, pc, at, entry, chain, decoded, failed, answer>>

(* read_image_pixels takes the tiles row by row; Tiff::read_tile takes one.*)
ReadTile ==
  /\ pc = "tiles"
  /\ LET m == Directory
         k == Len(tiles)
         single == call.op = "tile"
         column == IF single THEN call.column ELSE k % Columns(m)
         row == IF single THEN call.row ELSE k \div Columns(m)
     IN  IF k = (IF single THEN 1 ELSE Columns(m) * Rows(m))
         THEN Return(Ok(tiles)) /\ reads' = {}
         ELSE IF TileAt(m, column, row) = Bad
         THEN Return(TileError(k + 1)) /\ reads' = {}
         ELSE Take(m.table[Linear(m, column, row) + 1])
  /\ UNCHANGED file

(* read_all_tiles_parallel: first the bytes of every tile of the table,    *)
(* whatever the grid. A tile that will not decode is read like any other.  *)
FetchTile ==
  /\ pc = "fetch" /\ Len(tiles) < Len(Directory.table)
  /\ LET range == Directory.table[Len(tiles) + 1]
     IN  IF Outside(range.offset, range.count)
         THEN Return(TileError(Len(tiles) + 1)) /\ reads' = {}
         ELSE Take(range)
  /\ UNCHANGED file

(* Few tiles are decoded one by one, many by the pool.                     *)
IsFirstBad(k) == tiles[k] = Bad /\ \A j \in 1 .. k - 1 : tiles[j] # Bad
AnyBad == \E k \in DOMAIN tiles : tiles[k] = Bad

Dispatch ==
  /\ pc = "fetch" /\ Len(tiles) = Len(Directory.table)
  /\ IF Len(tiles) < MinParallel
     THEN IF AnyBad
          THEN \E k \in DOMAIN tiles : IsFirstBad(k) /\ Return(TileError(k))
          ELSE Return(Ok(tiles))
     ELSE pc' = "pool" /\ UNCHANGED <<status, call, progress, answer>>
  /\ reads' = {}
  /\ UNCHANGED file

(* A thread of the pool has decoded tile k; the first to fail leaves its   *)
(* error.                                                                  *)
Decode(k) ==
  /\ pc = "pool" /\ k \in DOMAIN tiles \ decoded
  /\ decoded' = decoded \union {k}
  /\ failed' = IF tiles[k] = Bad /\ failed = 0 THEN k ELSE failed
  /\ reads' = {}
  /\ UNCHANGED <<file, status, call, pc, at, entry, chain, tiles, answer>>

(* Pools with a bug: one does not wait for the last tile, one waits for    *)
(* the output of every tile and a tile that failed has none.               *)
PoolIsDoneEarly == failed # 0 \/ DOMAIN tiles \ {Len(tiles)} \subseteq decoded
PoolIsDoneDecoding == decoded = DOMAIN tiles /\ ~AnyBad
PoolIsDone == failed # 0 \/ decoded = DOMAIN tiles

(* After a failure the pool gives up the tiles no thread has taken yet.    *)
Collect ==
  /\ pc = "pool" /\ PoolIsDone
  /\ Return(IF failed # 0 THEN TileError(failed) ELSE Ok(tiles))
  /\ reads' = {}
  /\ UNCHANGED file

Step ==
  \/ ReadHeader \/ ReadCount \/ ReadEntry \/ FollowChain \/ FollowDirect
  \/ ReadTile \/ FetchTile \/ Dispatch \/ Collect
  \/ \E k \in DOMAIN tiles : Decode(k)

Next == Step \/ \E c \in Asked : Begin(c)

Spec == Init /\ [][Next]_vars
FairSpec == Spec /\ WF_vars(Step)

------------------------------------------------------------------------------
(* What the file is, told without walking it.                              *)

(* Every entry of the IFD at address a can be had, and the next-IFD field. *)
Readable(a) ==
  /\ a + CountField <= file.size
  /\ LET m == file.ifd[a]
     IN  /\ a + CountField + Len(m.entries) * EntrySize + NextField <= file.size
         /\ \A k \in DOMAIN m.entries :
              LET e == m.entries[k]
              IN  ~e.known \/ /\ e.count <= MaxTagCount
                              /\ \/ e.count * e.width <= ValueArea
                                 \/ e.offset + e.count * e.width <= file.size

(* Address of the n-th IFD, or None if the chain ends or breaks before. *)
Link[n \in 1 .. MaxDirectories] ==
  IF n = 1 THEN file.first
  ELSE IF Link[n - 1] = None \/ ~Readable(Link[n - 1]) THEN None
  ELSE IF file.ifd[Link[n - 1]].next = 0 THEN None
  ELSE file.ifd[Link[n - 1]].next

Linked == {n \in 1 .. MaxDirectories : Link[n] # None}

Legible ==
  /\ file.size >= HeaderSize
  /\ \A n \in Linked :
       /\ Readable(Link[n])
       /\ LET m == file.ifd[Link[n]] IN m.sound /\ m.scenic /\ (m.next = 0 \/ m.next > Link[n])

(* The images of a legible file; a tile outside the file cannot be had.    *)
ImageAt(m) ==
  [columns |-> Columns(m), rows |-> Rows(m),
   table |-> [k \in DOMAIN m.table |->
                IF Outside(m.table[k].offset, m.table[k].count) THEN Bad ELSE m.table[k].payload]]

Images == [n \in Linked |-> ImageAt(file.ifd[Link[n]])]

------------------------------------------------------------------------------
(* Properties.                                                             *)

Answer == [ok: BOOLEAN, tiles: Seq(Payloads), failed: Nat]

(* Every variable stays in its set; a call that is being served has its    *)
(* place in the walk, in the tiles or in the pool.                         *)
TypeOK ==
  /\ file \in Files
  /\ status \in {"closed", "open", "refused"}
  /\ call \in Asked \union {None}
  /\ pc \in {"idle", "header", "count", "entries", "tiles", "fetch", "pool"}
  /\ pc = "idle" <=> call = None
  /\ at \in Nat /\ entry \in Nat
  /\ chain \in Seq(0 .. file.size)
  /\ tiles \in Seq(Payloads \union {Bad})
  /\ decoded \subseteq DOMAIN tiles
  /\ failed \in {0} \union decoded
  /\ answer \in Answer \union {None}

(* Whatever addresses, counts and sizes a file claims, no read reaches     *)
(* beyond its end: the bounds checks of the walk and of the tiles.         *)
WithinFile == \A r \in reads : r.from + r.length <= file.size

(* The walk of every call goes up, so no IFD is parsed twice, up to the    *)
(* MaxDirectories that read_directory_chain looks at. directory_at checks  *)
(* nothing, and relies on the call that opened the file.                   *)
Ascends ==
  /\ \A j \in DOMAIN chain : j <= MaxDirectories => \A i \in 1 .. j - 1 : chain[i] < chain[j]
  /\ pc = "count" /\ Len(chain) < MaxDirectories => \A i \in DOMAIN chain : chain[i] < at

(* The answers are those of a file of images, whatever is asked and in     *)
(* whichever order threads decode. So of parallel calls only where Fitting.*)
Promised == INSTANCE ImageFile WITH
  Calls <- Asked,
  images <- IF Legible THEN Images ELSE None,
  asked <- call,
  answer <- IF answer = None THEN None ELSE [ok |-> answer.ok, tiles |-> answer.tiles]
ImplementsImageFile == Promised!Spec

(* In every file that parallel calls read, a table is as long as its grid. *)
Fitting ==
  \A c \in Asked : c.op = "parallel" =>
    \A f \in Files : \A a \in 0 .. f.size :
      LET m == f.ifd[a] IN m.sound => Len(m.table) = Columns(m) * Rows(m)

(* A parallel call ends, with an answer.                                   *)
PoolReturns == pc \in {"fetch", "pool"} /\ call' = None

(* "The output is byte-identical to calling Tiff::read_tile for every grid *)
(* cell in order" (tiff.rs). Not so in a file whose table is longer or     *)
(* shorter than its grid: read_all_tiles_parallel goes by the table.       *)
ParallelLikeReadTile ==
  [][PoolReturns =>
       LET m == Directory
           grid == [k \in 1 .. Columns(m) * Rows(m) |->
                      TileAt(m, (k - 1) % Columns(m), (k - 1) \div Columns(m))]
       IN  IF \E k \in DOMAIN grid : grid[k] = Bad THEN ~answer'.ok
           ELSE answer'.ok /\ answer'.tiles = grid]_vars

(* "The first failing tile by input order is returned" (tiff.rs,           *)
(* image_source.rs, parallel.rs). Not so where two tiles fail: the error   *)
(* kept is that of the thread that was first, and a tile that cannot be    *)
(* read is reported before any is decoded.                                 *)
FirstFailure ==
  [][PoolReturns =>
       \A k \in 1 .. answer'.failed - 1 :
         LET range == Directory.table[k]
         IN  range.payload # Bad /\ ~Outside(range.offset, range.count)]_vars

(* None is no address, no answer and no list of images.                    *)
ASSUME NoneAssumption ==
  None \notin 0 .. WordMax /\ None \notin Answer /\ None \notin Seq(Promised!Image)

(* Every call returns, however the file is linked and whichever tile fails.*)
CallsReturn == (call # None) ~> (call = None)
=============================================================================
