-------------------------- MODULE TiffReaderProofs ---------------------------
(***************************************************************************)
(* Proofs about TiffReader, for every set of files and of calls: the types *)
(* of its variables, that no read leaves the file, that the walk of every  *)
(* call ascends, and that walks, tiles and pool implement ImageFile.       *)
(***************************************************************************)
EXTENDS TiffReader, WellFoundedInduction, TLAPS

------------------------------------------------------------------------------
(* Numbers.                                                                *)

LEMMA MultMonotone ==
  \A a, b, c \in Nat : a <= b => a * c <= b * c
<1> SUFFICES ASSUME NEW a \in Nat, NEW b \in Nat, NEW c \in Nat, a <= b
             PROVE  a * c <= b * c
  OBVIOUS
<1>1. PICK d \in Nat : b = a + d
  <2>1. b - a \in Nat /\ b = a + (b - a)
    OBVIOUS
  <2> QED BY <2>1
<1>2. b * c = a * c + d * c
  BY <1>1
<1>3. d * c \in Nat /\ a * c \in Nat
  OBVIOUS
<1> QED BY <1>2, <1>3

(* The n-th entry of a table ends where the table does, or before. *)
LEMMA EntryInTable ==
  ASSUME NEW n \in Nat, NEW k \in Nat, k < n
  PROVE  /\ k * EntrySize \in Nat /\ n * EntrySize \in Nat
         /\ k * EntrySize + EntrySize <= n * EntrySize
<1>1. EntrySize \in Nat
  BY FormatAssumption
<1>2. (k + 1) * EntrySize <= n * EntrySize
  BY <1>1, MultMonotone
<1>3. (k + 1) * EntrySize = k * EntrySize + EntrySize
  BY <1>1
<1> QED BY <1>1, <1>2, <1>3

LEMMA ElementIn ==
  ASSUME NEW S, NEW s \in Seq(S), NEW i \in DOMAIN s
  PROVE  s[i] \in S
OBVIOUS

LEMMA DivModNat ==
  ASSUME NEW a \in Nat, NEW b \in Nat, b # 0
  PROVE  a % b \in Nat /\ a \div b \in Nat
OBVIOUS

LEMMA Divide ==
  ASSUME NEW n \in Nat, NEW d \in Nat \ {0}
  PROVE  /\ n \div d \in Nat /\ n % d \in 0 .. d - 1
         /\ n = (n \div d) * d + (n % d)
OBVIOUS

LEMMA ProductGrows ==
  ASSUME NEW a \in Nat, NEW b \in Nat, NEW d \in Nat, a <= b
  PROVE  d * a \in Nat /\ b * d \in Nat /\ d * a <= b * d
OBVIOUS

(* The place of the n-th of c * r cells, counted row by row.               *)
LEMMA PlaceOf ==
  ASSUME NEW c \in Nat, NEW r \in Nat, NEW n \in Nat, n < c * r
  PROVE  /\ n % c \in Nat /\ n \div c \in Nat /\ n % c < c /\ n \div c < r
         /\ (n \div c) * c + (n % c) = n
<1>1. c \in Nat \ {0}
  OBVIOUS
<1>2. n \div c \in Nat /\ n % c \in 0 .. c - 1 /\ n = (n \div c) * c + (n % c)
  BY <1>1, Divide
<1> DEFINE d == n \div c
           e == n % c
<1>3. ASSUME r <= d PROVE FALSE
  <2>1. c * r \in Nat /\ d * c \in Nat /\ c * r <= d * c
    BY <1>2, <1>3, ProductGrows
  <2>2. d * c + e = n /\ e \in Nat
    BY <1>2
  <2> HIDE DEF d, e
  <2> QED BY <2>1, <2>2
<1>4. d \in Nat /\ e \in Nat /\ e < c /\ d * c + e = n
  BY <1>2
<1> HIDE DEF d, e
<1>5. d < r
  BY <1>3, <1>4
<1> QED BY <1>4, <1>5 DEF d, e

LEMMA CeilDivNat ==
  ASSUME NEW a \in Nat, NEW b \in Nat \ {0}
  PROVE  CeilDiv(a, b) \in Nat
BY DEF CeilDiv

LEMMA GridNat ==
  ASSUME NEW m \in Ifd
  PROVE  Columns(m) \in Nat /\ Rows(m) \in Nat /\ Columns(m) * Rows(m) \in Nat
<1>1. /\ m.width \in Nat /\ m.height \in Nat
      /\ m.tile_width \in Nat /\ m.tile_height \in Nat
  BY DEF Ifd
<1>2. Columns(m) \in Nat /\ Rows(m) \in Nat
  BY <1>1, CeilDivNat DEF Columns, Rows
<1> QED BY <1>2

------------------------------------------------------------------------------
(* Types of what a file and a call hold.                                   *)

LEMMA FileTypes ==
  ASSUME file \in Files
  PROVE  /\ file.size \in Nat /\ file.size <= WordMax /\ WordMax \in Nat
         /\ file.first \in Nat
         /\ \A a \in 0 .. file.size : file.ifd[a] \in Ifd
<1>1. file.size \in 0 .. WordMax /\ file.first \in 0 .. WordMax
  BY FilesAssumption
<1>2. file.ifd \in [0 .. file.size -> Ifd]
  BY FilesAssumption
<1> QED BY <1>1, <1>2, FormatAssumption

LEMMA IfdTypes ==
  ASSUME NEW m \in Ifd
  PROVE  /\ m.entries \in Seq(Entry) /\ Len(m.entries) \in Nat
         /\ m.next \in Nat
         /\ m.table \in Seq(Range) /\ Len(m.table) \in Nat
         /\ \A k \in 1 .. Len(m.entries) : m.entries[k] \in Entry
         /\ \A k \in 1 .. Len(m.table) :
              /\ m.table[k].offset \in Nat /\ m.table[k].count \in Nat
              /\ m.table[k].payload \in Payloads \union {Bad}
<1>1. m.entries \in Seq(Entry) /\ m.next \in 0 .. WordMax /\ m.table \in Seq(Range)
  BY DEF Ifd
<1>2. \A k \in 1 .. Len(m.entries) : m.entries[k] \in Entry
  BY <1>1
<1>3. \A k \in 1 .. Len(m.table) : m.table[k] \in Range
  BY <1>1
<1>4. m.next \in Nat
  BY <1>1, FormatAssumption
<1>5. Len(m.entries) \in Nat /\ Len(m.table) \in Nat
  BY <1>1
<1> QED BY <1>1, <1>2, <1>3, <1>4, <1>5 DEF Range

LEMMA CallTypes ==
  ASSUME NEW c \in Asked
  PROVE  /\ c # None
         /\ c.op \in {"open", "pixels", "parallel", "tile"}
         /\ c.image \in Nat \ {0} /\ c.column \in Nat /\ c.row \in Nat
<1>1. c \in Calls /\ c # None
  BY CallsAssumption
<1> QED BY <1>1 DEF Calls


------------------------------------------------------------------------------
(* Types.                                                                  *)

InTiles == pc \in {"tiles", "fetch", "pool"}

(* How many tiles ReadTile is to take. *)
Expected ==
  IF call.op = "tile" THEN 1 ELSE Columns(Directory) * Rows(Directory)

(* What each place of a call says of its progress: this makes TypeOK       *)
(* inductive.                                                              *)
Placed ==
  /\ call # None /\ call.op # "open" => status = "open"
  /\ pc \in {"idle", "header"} => chain = << >>
  /\ pc \in {"idle", "header", "count"} => entry = 0
  /\ ~InTiles => tiles = << >>
  /\ pc # "pool" => decoded = {} /\ failed = 0
  /\ pc = "entries" =>
       at + CountField <= file.size /\ TableEnd <= file.size /\ entry <= Len(M.entries)
  /\ InTiles => call.op # "open" /\ call.image \in DOMAIN chain
  /\ pc = "tiles" => call.op # "parallel" /\ tiles \in Seq(Payloads) /\ Len(tiles) <= Expected
  /\ pc \in {"fetch", "pool"} => call.op = "parallel"
  /\ pc = "pool" /\ failed = 0 => \A k \in decoded : tiles[k] # Bad

TypeInv == TypeOK /\ Placed

LEMMA AnswerTypes ==
  /\ Error \in Answer
  /\ \A k \in Nat : TileError(k) \in Answer
  /\ \A t \in Seq(Payloads) : Ok(t) \in Answer
BY DEF Answer, Error, TileError, Ok

LEMMA TypeInvInit == Init => TypeInv
<1> SUFFICES ASSUME Init PROVE TypeInv
  OBVIOUS
<1>1. TypeOK
  BY DEF Init, TypeOK
<1>2. Placed
  BY DEF Init, Placed, InTiles
<1> QED BY <1>1, <1>2 DEF TypeInv

(* Whatever is returned, the call is over. *)
LEMMA ReturnTypes ==
  ASSUME TypeOK, call # None, NEW result \in Answer, Return(result), UNCHANGED file
  PROVE  TypeInv'
<1>1. TypeOK'
  BY DEF TypeOK, Return, Answer
<1>2. Placed'
  BY DEF Placed, Return, InTiles
<1> QED BY <1>1, <1>2 DEF TypeInv

LEMMA BeginTypes ==
  ASSUME TypeInv, NEW c \in Asked, Begin(c)
  PROVE  TypeInv'
<1>1. pc = "idle" /\ c # None
  BY CallTypes DEF TypeInv, TypeOK, Begin
<1>2. TypeOK'
  BY <1>1 DEF TypeInv, TypeOK, Begin, progress
<1>3. Placed'
  BY <1>1 DEF TypeInv, Placed, Begin, progress, InTiles
<1> QED BY <1>2, <1>3 DEF TypeInv

LEMMA ReadHeaderTypes ==
  ASSUME TypeInv, ReadHeader
  PROVE  TypeInv'
<1>1. call # None /\ file \in Files /\ UNCHANGED file
  BY DEF TypeInv, TypeOK, ReadHeader
<1>2. CASE file.size < HeaderSize
  BY <1>1, <1>2, AnswerTypes, ReturnTypes DEF TypeInv, ReadHeader
<1>3. CASE ~(file.size < HeaderSize)
  <2>1. at' \in Nat
    BY <1>1, <1>3, FileTypes DEF ReadHeader
  <2>2. TypeOK'
    BY <1>3, <2>1 DEF TypeInv, TypeOK, ReadHeader
  <2>3. Placed'
    BY <1>3 DEF TypeInv, Placed, ReadHeader, InTiles
  <2> QED BY <2>2, <2>3 DEF TypeInv
<1> QED BY <1>2, <1>3

LEMMA ReadCountTypes ==
  ASSUME TypeInv, ReadCount
  PROVE  TypeInv'
<1>1. call # None /\ file \in Files /\ UNCHANGED file /\ at \in Nat
  BY DEF TypeInv, TypeOK, ReadCount
<1> DEFINE beyond == EndsBeyond(at, CountField) \/ TableBeyond
<1>2. CASE beyond
  BY <1>1, <1>2, AnswerTypes, ReturnTypes DEF TypeInv, ReadCount
<1>3. CASE ~beyond
  <2>1. /\ pc = "count" /\ pc' = "entries"
        /\ UNCHANGED <<file, status, call, at, entry, chain, tiles, decoded, failed, answer>>
    BY <1>3 DEF ReadCount, progress
  <2>2. TypeOK'
    BY <2>1, <1>1 DEF TypeInv, TypeOK
  <2>3. at + CountField <= file.size /\ TableEnd <= file.size
    <3>1. ~(at + CountField > file.size)
      BY <1>3 DEF EndsBeyond
    <3>2. ~(TableEnd > file.size)
      BY <1>3 DEF EndsBeyond, TableBeyond, TableEnd
    <3>3. at + CountField \in Nat /\ file.size \in Nat
      BY <1>1, FileTypes, FormatAssumption
    <3>4. TableEnd \in Nat
      <4>1. M \in Ifd
        BY <1>1, <3>1, <3>3, FileTypes, FormatAssumption DEF M
      <4>2. Len(M.entries) \in Nat
        BY <4>1, IfdTypes
      <4>3. Len(M.entries) * EntrySize \in Nat
        BY <4>2, FormatAssumption
      <4> QED BY <3>3, <4>3 DEF TableEnd, TableAt
    <3> QED BY <3>1, <3>2, <3>3, <3>4
  <2>4. Len(M.entries) \in Nat
    BY <2>3, <1>1, FileTypes, IfdTypes, FormatAssumption DEF M
  <2>5. entry = 0
    BY <2>1 DEF TypeInv, Placed
  <2>6. Placed'
    BY <2>1, <2>3, <2>4, <2>5 DEF TypeInv, Placed, InTiles, TableEnd, TableAt, M
  <2> QED BY <2>2, <2>6 DEF TypeInv
<1> QED BY <1>2, <1>3


LEMMA AtIfd ==
  ASSUME TypeInv, pc = "entries"
  PROVE  /\ M \in Ifd /\ at \in 0 .. file.size /\ file.size \in Nat
         /\ Len(M.entries) \in Nat /\ M.next \in Nat
         /\ TableAt = at + CountField /\ TableAt \in Nat
         /\ TableEnd = TableAt + Len(M.entries) * EntrySize /\ TableEnd \in Nat
         /\ TableEnd <= file.size
<1>1. file \in Files /\ at \in Nat /\ at + CountField <= file.size /\ TableEnd <= file.size
  BY DEF TypeInv, TypeOK, Placed
<1>2. file.size \in Nat /\ CountField \in Nat /\ EntrySize \in Nat
  BY <1>1, FileTypes, FormatAssumption
<1>3. at \in 0 .. file.size
  BY <1>1, <1>2
<1>4. M \in Ifd
  BY <1>1, <1>3, FileTypes DEF M
<1>5. Len(M.entries) \in Nat /\ M.next \in Nat
  BY <1>4, IfdTypes
<1>6. Len(M.entries) * EntrySize \in Nat
  BY <1>2, <1>5
<1>7. TableAt = at + CountField /\ TableAt \in Nat
  BY <1>1, <1>2 DEF TableAt
<1>8. TableEnd = TableAt + Len(M.entries) * EntrySize
  BY DEF TableEnd
<1>9. TableEnd \in Nat
  BY <1>6, <1>7, <1>8
<1> QED BY <1>1, <1>2, <1>3, <1>4, <1>5, <1>7, <1>8, <1>9

LEMMA ReadEntryTypes ==
  ASSUME TypeInv, ReadEntry
  PROVE  TypeInv'
<1>1. call # None /\ file \in Files /\ UNCHANGED file /\ pc = "entries" /\ entry < Len(M.entries)
  BY DEF TypeInv, TypeOK, ReadEntry
<1>2. CASE Return(Error)
  BY <1>1, <1>2, AnswerTypes, ReturnTypes DEF TypeInv
<1>3. CASE ~Return(Error)
  <2>1. /\ entry' = entry + 1
        /\ UNCHANGED <<file, status, call, pc, at, chain, tiles, decoded, failed, answer>>
    BY <1>3 DEF ReadEntry
  <2>2. entry \in Nat /\ Len(M.entries) \in Nat
    BY <1>1, AtIfd DEF TypeInv, TypeOK
  <2>3. TypeOK'
    BY <2>1, <2>2 DEF TypeInv, TypeOK
  <2>4. Placed'
    BY <1>1, <2>1, <2>2 DEF TypeInv, Placed, InTiles, TableEnd, TableAt, M
  <2> QED BY <2>3, <2>4 DEF TypeInv
<1> QED BY <1>2, <1>3

LEMMA GoOnTypes ==
  ASSUME TypeInv, pc = "entries", GoOn, UNCHANGED file
  PROVE  TypeInv'
<1>1. at \in 0 .. file.size /\ M.next \in Nat /\ chain \in Seq(0 .. file.size)
  BY AtIfd DEF TypeInv, TypeOK
<1>2. chain' \in Seq(0 .. file.size)
  BY <1>1 DEF GoOn
<1>3. TypeOK'
  BY <1>1, <1>2 DEF TypeInv, TypeOK, GoOn
<1>4. Placed'
  BY DEF TypeInv, Placed, GoOn, InTiles
<1> QED BY <1>3, <1>4 DEF TypeInv

LEMMA ToTilesTypes ==
  ASSUME TypeInv, pc = "entries", ToTiles, UNCHANGED file,
         call.op # "open", call.image <= Len(chain) + 1
  PROVE  TypeInv'
<1>1. at \in 0 .. file.size /\ chain \in Seq(0 .. file.size) /\ call \in Asked
  BY AtIfd DEF TypeInv, TypeOK
<1>2. call.image \in Nat \ {0}
  BY <1>1, CallTypes
<1>3. chain' \in Seq(0 .. file.size) /\ Len(chain') = Len(chain) + 1
  BY <1>1 DEF ToTiles
<1>4. TypeOK'
  BY <1>1, <1>3 DEF TypeInv, TypeOK, ToTiles
<1>5. call'.image \in DOMAIN chain'
  BY <1>1, <1>2, <1>3 DEF ToTiles
<1>6. /\ tiles' = << >> /\ failed' = 0 /\ decoded' = {} /\ call' = call /\ status' = status
      /\ pc' = IF call.op = "parallel" THEN "fetch" ELSE "tiles"
      /\ call # None /\ status = "open"
  BY <1>1, CallTypes DEF TypeInv, Placed, ToTiles, InTiles
<1>7. Expected' \in Nat
  <2>1. chain'[call'.image] \in 0 .. file.size
    BY <1>3, <1>5, ElementIn
  <2>2. Directory' \in Ifd
    BY <2>1, FileTypes DEF TypeInv, TypeOK, Directory
  <2>3. Columns(Directory') * Rows(Directory') \in Nat
    BY <2>2, GridNat
  <2> QED BY <2>3 DEF Expected, Columns, Rows
<1>8. Placed'
  BY <1>5, <1>6, <1>7 DEF Placed, InTiles
<1> QED BY <1>4, <1>8 DEF TypeInv

LEMMA FollowChainTypes ==
  ASSUME TypeInv, FollowChain
  PROVE  TypeInv'
<1>1. /\ call # None /\ file \in Files /\ UNCHANGED file /\ pc = "entries"
      /\ call \in Asked /\ chain \in Seq(0 .. file.size)
  BY DEF TypeInv, TypeOK, FollowChain, Parsed
<1>2. Error \in Answer /\ Ok(<< >>) \in Answer
  <2>1. << >> \in Seq(Payloads)
    OBVIOUS
  <2> QED BY <2>1, AnswerTypes
<1>3. CASE Return(Error)
  BY <1>1, <1>2, <1>3, ReturnTypes DEF TypeInv
<1>4. CASE Return(Ok(<< >>))
  BY <1>1, <1>2, <1>4, ReturnTypes DEF TypeInv
<1>5. CASE GoOn
  BY <1>1, <1>5, GoOnTypes
<1>6. CASE ToTiles /\ call.op # "open" /\ ~(call.image > Len(chain) + 1)
  <2>1. call.image <= Len(chain) + 1
    BY <1>1, <1>6, CallTypes
  <2> QED BY <1>1, <1>6, <2>1, ToTilesTypes
<1> QED BY <1>3, <1>4, <1>5, <1>6 DEF FollowChain

LEMMA FollowDirectTypes ==
  ASSUME TypeInv, FollowDirect
  PROVE  TypeInv'
<1>1. /\ call # None /\ file \in Files /\ UNCHANGED file /\ pc = "entries"
      /\ call \in Asked /\ chain \in Seq(0 .. file.size)
      /\ call.op = "parallel"
  BY DEF TypeInv, TypeOK, FollowDirect, Parsed
<1>2. CASE Return(Error)
  BY <1>1, <1>2, AnswerTypes, ReturnTypes DEF TypeInv
<1>3. CASE GoOn
  BY <1>1, <1>3, GoOnTypes
<1>4. CASE ToTiles /\ Len(chain) + 1 = call.image
  <2>1. call.image <= Len(chain) + 1
    BY <1>1, <1>4
  <2> QED BY <1>1, <1>4, <2>1, ToTilesTypes
<1> QED BY <1>2, <1>3, <1>4 DEF FollowDirect


LEMMA DirectoryIfd ==
  ASSUME TypeInv, InTiles
  PROVE  /\ Directory \in Ifd /\ call # None /\ call \in Asked /\ call.op # "open"
         /\ call.image \in DOMAIN chain /\ chain \in Seq(0 .. file.size)
         /\ file \in Files
<1>1. /\ call.image \in DOMAIN chain /\ chain \in Seq(0 .. file.size)
      /\ file \in Files /\ call.op # "open"
      /\ call # None /\ call \in Asked
  BY DEF TypeInv, TypeOK, Placed, InTiles
<1>2. chain[call.image] \in 0 .. file.size
  BY <1>1, ElementIn
<1>3. Directory \in Ifd
  BY <1>1, <1>2, FileTypes DEF Directory
<1> QED BY <1>1, <1>3

(* A tile that can be had is one of the table, and lies in the file. *)
LEMMA TileAtTypes ==
  ASSUME TypeInv, InTiles, NEW column \in Nat, NEW row \in Nat,
         TileAt(Directory, column, row) # Bad
  PROVE  LET k == Linear(Directory, column, row) + 1
         IN  /\ k \in 1 .. Len(Directory.table)
             /\ ~Outside(Directory.table[k].offset, Directory.table[k].count)
             /\ Directory.table[k].payload = TileAt(Directory, column, row)
             /\ Directory.table[k].payload \in Payloads
<1> DEFINE m == Directory
           k == Linear(m, column, row) + 1
<1>1. m \in Ifd
  BY DirectoryIfd
<1>2. Len(m.table) \in Nat /\ Columns(m) \in Nat
  BY <1>1, IfdTypes, GridNat
<1>3. k \in Nat /\ k >= 1
  <2>1. row * Columns(m) \in Nat
    BY <1>2
  <2> QED BY <2>1 DEF Linear
<1>4. /\ ~(k > Len(m.table))
      /\ ~Outside(m.table[k].offset, m.table[k].count)
      /\ m.table[k].payload = TileAt(m, column, row)
  BY DEF TileAt
<1>5. k \in 1 .. Len(m.table)
  BY <1>2, <1>3, <1>4
<1>6. m.table[k].payload \in Payloads
  BY <1>1, <1>4, <1>5, IfdTypes
<1> QED BY <1>4, <1>5, <1>6

(* While there are tiles to take, the next one has a place. *)
LEMMA NextCell ==
  ASSUME TypeInv, pc = "tiles", NEW m, m = Directory,
         Len(tiles) # (IF call.op = "tile" THEN 1 ELSE Columns(m) * Rows(m))
  PROVE  /\ Len(tiles) \in Nat /\ Len(tiles) < Expected /\ Expected \in Nat
         /\ (IF call.op = "tile" THEN call.column ELSE Len(tiles) % Columns(m)) \in Nat
         /\ (IF call.op = "tile" THEN call.row ELSE Len(tiles) \div Columns(m)) \in Nat
<1>1. /\ tiles \in Seq(Payloads) /\ Len(tiles) <= Expected
      /\ m \in Ifd /\ call \in Asked
  BY DirectoryIfd DEF TypeInv, Placed, InTiles
<1>2. Len(tiles) \in Nat
  BY <1>1
<1>3. Columns(m) \in Nat /\ Rows(m) \in Nat /\ Columns(m) * Rows(m) \in Nat
  BY <1>1, GridNat
<1>4. Expected = IF call.op = "tile" THEN 1 ELSE Columns(m) * Rows(m)
  BY DEF Expected
<1>5. Expected \in Nat /\ Len(tiles) < Expected
  <2>1. Expected \in Nat
    BY <1>3, <1>4
  <2>2. Len(tiles) # Expected
    BY <1>4
  <2> QED BY <1>1, <1>2, <2>1, <2>2
<1>6. CASE call.op = "tile"
  BY <1>1, <1>2, <1>5, <1>6, CallTypes
<1>7. CASE call.op # "tile"
  <2>1. Columns(m) # 0
    <3>1. SUFFICES ASSUME Columns(m) = 0 PROVE FALSE
      OBVIOUS
    <3>2. Expected = 0
      BY <1>3, <1>4, <1>7, <3>1
    <3> QED BY <1>2, <1>5, <3>2
  <2>2. Len(tiles) % Columns(m) \in Nat /\ Len(tiles) \div Columns(m) \in Nat
    BY <1>2, <1>3, <2>1, DivModNat
  <2> QED BY <1>2, <1>5, <1>7, <2>2
<1> QED BY <1>6, <1>7

LEMMA ReadTileTypes ==
  ASSUME TypeInv, ReadTile
  PROVE  TypeInv'
<1> DEFINE m == Directory
           k == Len(tiles)
           single == call.op = "tile"
           column == IF single THEN call.column ELSE k % Columns(m)
           row == IF single THEN call.row ELSE k \div Columns(m)
           all == IF single THEN 1 ELSE Columns(m) * Rows(m)
           range == m.table[Linear(m, column, row) + 1]
<1>1. /\ pc = "tiles" /\ InTiles /\ call # None /\ UNCHANGED file
      /\ tiles \in Seq(Payloads) /\ call.op # "parallel" /\ k \in Nat
  BY DEF TypeInv, TypeOK, Placed, ReadTile, InTiles
<1>2. \/ k = all /\ Return(Ok(tiles))
      \/ k # all /\ Return(TileError(k + 1))
      \/ k # all /\ TileAt(m, column, row) # Bad /\ Take(range)
  BY DEF ReadTile
<1>3. CASE Return(Ok(tiles))
  BY <1>1, <1>3, AnswerTypes, ReturnTypes DEF TypeInv
<1>4. CASE Return(TileError(k + 1))
  <2>1. TileError(k + 1) \in Answer
    BY <1>1, AnswerTypes
  <2> QED BY <1>1, <1>4, <2>1, ReturnTypes DEF TypeInv
<1>5. CASE k # all /\ TileAt(m, column, row) # Bad /\ Take(range)
  <2>1. k < Expected /\ Expected \in Nat /\ column \in Nat /\ row \in Nat
    BY <1>1, <1>5, NextCell
  <2>2. range.payload \in Payloads
    BY <1>1, <1>5, <2>1, TileAtTypes
  <2>3. tiles' = Append(tiles, range.payload) /\ pc' = pc /\ chain' = chain /\ call' = call
        /\ UNCHANGED <<status, at, entry, decoded, failed, answer>>
    BY <1>5 DEF Take
  <2>4. tiles' \in Seq(Payloads) /\ Len(tiles') = k + 1
    BY <1>1, <2>2, <2>3
  <2>5. tiles' \in Seq(Payloads \union {Bad}) /\ decoded = {} /\ failed = 0
    BY <1>1, <2>4 DEF TypeInv, Placed
  <2>6. TypeOK'
    BY <1>1, <2>3, <2>5 DEF TypeInv, TypeOK
  <2>7. Expected' = Expected
    BY <1>1, <2>3 DEF Expected, Directory, Columns, Rows
  <2>8. Placed'
    BY <1>1, <2>1, <2>3, <2>4, <2>5, <2>7 DEF TypeInv, Placed, InTiles
  <2> QED BY <2>6, <2>8 DEF TypeInv
<1> QED BY <1>2, <1>3, <1>4, <1>5

LEMMA FetchTileTypes ==
  ASSUME TypeInv, FetchTile
  PROVE  TypeInv'
<1> DEFINE m == Directory
           k == Len(tiles) + 1
<1>1. /\ pc = "fetch" /\ InTiles /\ call # None /\ UNCHANGED file /\ m \in Ifd
      /\ tiles \in Seq(Payloads \union {Bad}) /\ Len(tiles) < Len(m.table)
  BY DirectoryIfd DEF TypeInv, TypeOK, FetchTile, InTiles
<1>2. Len(tiles) \in Nat /\ Len(m.table) \in Nat /\ k \in 1 .. Len(m.table)
  BY <1>1, IfdTypes
<1>3. CASE Return(TileError(k))
  <2>1. TileError(k) \in Answer
    BY <1>2, AnswerTypes
  <2> QED BY <1>1, <1>3, <2>1, ReturnTypes DEF TypeInv
<1>4. CASE Take(m.table[k])
  <2>1. m.table[k].payload \in Payloads \union {Bad}
    BY <1>1, <1>2, IfdTypes
  <2>2. /\ tiles' = Append(tiles, m.table[k].payload)
        /\ UNCHANGED <<status, call, pc, at, entry, chain, decoded, failed, answer>>
    BY <1>4 DEF Take
  <2>3. tiles' \in Seq(Payloads \union {Bad}) /\ decoded = {} /\ failed = 0
    BY <1>1, <2>1, <2>2 DEF TypeInv, Placed
  <2>4. TypeOK'
    BY <1>1, <2>2, <2>3 DEF TypeInv, TypeOK
  <2>5. Placed'
    BY <1>1, <2>2, <2>3 DEF TypeInv, Placed, InTiles
  <2> QED BY <2>4, <2>5 DEF TypeInv
<1> QED BY <1>3, <1>4 DEF FetchTile


(* Tiles none of which is Bad may be returned. *)
LEMMA AllGood ==
  ASSUME NEW t \in Seq(Payloads \union {Bad}), \A k \in DOMAIN t : t[k] # Bad
  PROVE  t \in Seq(Payloads)
<1>1. \A k \in 1 .. Len(t) : t[k] \in Payloads
  BY ElementIn
<1>2. Len(t) \in Nat /\ t = [k \in 1 .. Len(t) |-> t[k]]
  OBVIOUS
<1> QED BY <1>1, <1>2

LEMMA DispatchTypes ==
  ASSUME TypeInv, Dispatch
  PROVE  TypeInv'
<1>1. /\ pc = "fetch" /\ call # None /\ UNCHANGED file
      /\ tiles \in Seq(Payloads \union {Bad})
  BY DEF TypeInv, TypeOK, Dispatch
<1>2. CASE AnyBad /\ Len(tiles) < MinParallel
  <2>1. PICK k \in DOMAIN tiles : Return(TileError(k))
    BY <1>2 DEF Dispatch
  <2>2. TileError(k) \in Answer
    BY <1>1, <2>1, AnswerTypes
  <2> QED BY <1>1, <2>1, <2>2, ReturnTypes DEF TypeInv
<1>3. CASE ~AnyBad /\ Len(tiles) < MinParallel
  <2>1. Return(Ok(tiles))
    BY <1>3 DEF Dispatch
  <2>2. Ok(tiles) \in Answer
    BY <1>1, <1>3, AllGood, AnswerTypes DEF AnyBad
  <2> QED BY <1>1, <2>1, <2>2, ReturnTypes DEF TypeInv
<1>4. CASE ~(Len(tiles) < MinParallel)
  <2>1. /\ pc' = "pool" /\ decoded = {}
        /\ UNCHANGED <<status, call, at, entry, chain, tiles, decoded, failed, answer>>
    BY <1>1, <1>4 DEF TypeInv, Placed, Dispatch, progress
  <2>2. TypeOK'
    BY <1>1, <2>1 DEF TypeInv, TypeOK
  <2>3. Placed'
    BY <1>1, <2>1 DEF TypeInv, Placed, InTiles
  <2> QED BY <2>2, <2>3 DEF TypeInv
<1> QED BY <1>2, <1>3, <1>4

LEMMA DecodeTypes ==
  ASSUME TypeInv, NEW k \in DOMAIN tiles, Decode(k)
  PROVE  TypeInv'
<1>1. /\ pc = "pool" /\ decoded' = decoded \union {k}
      /\ failed' = IF tiles[k] = Bad /\ failed = 0 THEN k ELSE failed
      /\ UNCHANGED <<file, status, call, pc, at, entry, chain, tiles, answer>>
  BY DEF Decode
<1>2. /\ tiles \in Seq(Payloads \union {Bad}) /\ decoded \subseteq DOMAIN tiles
      /\ failed \in {0} \union decoded
  BY DEF TypeInv, TypeOK
<1>3. decoded' \subseteq DOMAIN tiles' /\ failed' \in {0} \union decoded'
  BY <1>1, <1>2
<1>4. TypeOK'
  BY <1>1, <1>3 DEF TypeInv, TypeOK
<1>5. failed' = 0 => \A j \in decoded' : tiles'[j] # Bad
  <2>1. k # 0
    BY <1>2
  <2>2. ASSUME failed' = 0 PROVE failed = 0 /\ tiles[k] # Bad
    BY <1>1, <2>1, <2>2
  <2> QED BY <1>1, <2>2 DEF TypeInv, Placed
<1>6. Placed'
  BY <1>1, <1>5 DEF TypeInv, Placed, InTiles
<1> QED BY <1>4, <1>6 DEF TypeInv

LEMMA CollectTypes ==
  ASSUME TypeInv, Collect
  PROVE  TypeInv'
<1>1. /\ pc = "pool" /\ call # None /\ UNCHANGED file
      /\ tiles \in Seq(Payloads \union {Bad}) /\ decoded \subseteq DOMAIN tiles
      /\ failed \in {0} \union decoded
      /\ Return(IF failed # 0 THEN TileError(failed) ELSE Ok(tiles))
  BY DEF TypeInv, TypeOK, Collect
<1>2. CASE failed # 0
  <2>1. TileError(failed) \in Answer
    BY <1>1, <1>2, AnswerTypes
  <2> QED BY <1>1, <1>2, <2>1, ReturnTypes DEF TypeInv
<1>3. CASE failed = 0
  <2>1. \A k \in DOMAIN tiles : tiles[k] # Bad
    BY <1>1, <1>3 DEF TypeInv, Placed, Collect, PoolIsDone
  <2>2. Ok(tiles) \in Answer
    BY <1>1, <2>1, AllGood, AnswerTypes
  <2> QED BY <1>1, <1>3, <2>2, ReturnTypes DEF TypeInv
<1> QED BY <1>2, <1>3

LEMMA TypeInvNext == TypeInv /\ [Next]_vars => TypeInv'
<1> SUFFICES ASSUME TypeInv, [Next]_vars PROVE TypeInv'
  OBVIOUS
<1>1. ASSUME NEW c \in Asked, Begin(c) PROVE TypeInv'
  BY <1>1, BeginTypes
<1>2. CASE ReadHeader
  BY <1>2, ReadHeaderTypes
<1>3. CASE ReadCount
  BY <1>3, ReadCountTypes
<1>4. CASE ReadEntry
  BY <1>4, ReadEntryTypes
<1>5. CASE FollowChain
  BY <1>5, FollowChainTypes
<1>6. CASE FollowDirect
  BY <1>6, FollowDirectTypes
<1>7. CASE ReadTile
  BY <1>7, ReadTileTypes
<1>8. CASE FetchTile
  BY <1>8, FetchTileTypes
<1>9. CASE Dispatch
  BY <1>9, DispatchTypes
<1>10. CASE Collect
  BY <1>10, CollectTypes
<1>11. ASSUME NEW k \in DOMAIN tiles, Decode(k) PROVE TypeInv'
  BY <1>11, DecodeTypes
<1>12. CASE UNCHANGED vars
  <2>1. UNCHANGED <<file, status, call, pc, at, entry, chain, tiles, decoded, failed, answer>>
    BY <1>12 DEF vars, progress
  <2>2. TypeOK'
    BY <2>1 DEF TypeInv, TypeOK
  <2>3. Placed'
    BY <2>1 DEF TypeInv, Placed, InTiles, TableEnd, TableAt, M, Expected, Directory, Columns, Rows
  <2> QED BY <2>2, <2>3 DEF TypeInv
<1> QED
  BY <1>1, <1>2, <1>3, <1>4, <1>5, <1>6, <1>7, <1>8, <1>9, <1>10, <1>11, <1>12 DEF Next, Step

(* Every variable of the reader stays in its set: in particular a call     *)
(* that succeeds returns no tile that did not decode, whatever the order   *)
(* in which the threads of the pool finish.                                *)
THEOREM TypeCorrect == Spec => []TypeOK
<1>1. Init => TypeInv
  BY TypeInvInit
<1>2. TypeInv /\ [Next]_vars => TypeInv'
  BY TypeInvNext
<1>3. TypeInv => TypeOK
  BY DEF TypeInv
<1> QED BY <1>1, <1>2, <1>3, PTL DEF Spec

------------------------------------------------------------------------------
(* Reads.                                                                  *)

(* What is not outside the file ends in it. *)
LEMMA InsideFile ==
  ASSUME file \in Files, NEW offset \in Nat, NEW length \in Nat, ~Outside(offset, length)
  PROVE  offset + length <= file.size
<1>1. file.size \in Nat
  BY FileTypes
<1>2. ~(offset > file.size) /\ ~(length > file.size - offset)
  BY DEF Outside
<1> QED BY <1>1, <1>2

LEMMA OneRead ==
  ASSUME file' = file, NEW from, NEW length, reads' = {Region(from, length)},
         from + length <= file.size
  PROVE  WithinFile'
BY DEF WithinFile, Region

LEMMA ReadEntryWithin ==
  ASSUME TypeInv, ReadEntry
  PROVE  WithinFile'
<1> DEFINE e == M.entries[entry + 1]
           bytes == e.count * e.width
           start == TableAt + entry * EntrySize
<1>1. /\ file \in Files /\ file' = file /\ pc = "entries"
      /\ entry \in Nat /\ entry < Len(M.entries)
  BY DEF TypeInv, TypeOK, ReadEntry
<1>2. /\ M \in Ifd /\ Len(M.entries) \in Nat /\ TableAt \in Nat /\ file.size \in Nat
      /\ TableEnd = TableAt + Len(M.entries) * EntrySize /\ TableEnd <= file.size
  BY <1>1, AtIfd
<1>3. start + EntrySize <= file.size
  <2>1. /\ entry * EntrySize \in Nat /\ Len(M.entries) * EntrySize \in Nat
        /\ entry * EntrySize + EntrySize <= Len(M.entries) * EntrySize
        /\ EntrySize \in Nat
    BY <1>1, <1>2, EntryInTable, FormatAssumption
  <2> QED BY <1>2, <2>1
<1>4. e.offset \in Nat /\ bytes \in Nat
  <2>1. entry + 1 \in 1 .. Len(M.entries)
    BY <1>1, <1>2
  <2>2. e \in Entry
    BY <1>2, <2>1, IfdTypes
  <2>3. e.offset \in Nat /\ e.count \in Nat /\ e.width \in Nat
    BY <2>2 DEF Entry
  <2> QED BY <2>3
<1>5. SUFFICES ASSUME NEW r \in reads'
               PROVE  r.from + r.length <= file.size
  BY <1>1 DEF WithinFile
<1>6. \/ r = Region(start, EntrySize)
      \/ r = Region(e.offset, bytes) /\ ~Outside(e.offset, bytes) /\ bytes > ValueArea
  BY DEF ReadEntry
<1>7. CASE r = Region(start, EntrySize)
  BY <1>3, <1>7 DEF Region
<1>8. CASE r = Region(e.offset, bytes) /\ ~Outside(e.offset, bytes)
  <2>1. e.offset + bytes <= file.size
    BY <1>1, <1>4, <1>8, InsideFile
  <2> QED BY <1>8, <2>1 DEF Region
<1> QED BY <1>6, <1>7, <1>8

LEMMA ReadNextWithin ==
  ASSUME TypeInv, pc = "entries", ReadNext, UNCHANGED file
  PROVE  WithinFile'
<1>1. TableEnd \in Nat /\ file.size \in Nat /\ NextField \in Nat
  BY AtIfd, FormatAssumption
<1>2. SUFFICES ASSUME NEW r \in reads' PROVE r.from + r.length <= file.size
  BY DEF WithinFile
<1>3. ~NextMissing /\ r = Region(TableEnd, NextField)
  BY DEF ReadNext
<1>4. TableEnd + NextField <= file.size
  BY <1>1, <1>3 DEF NextMissing
<1> QED BY <1>3, <1>4 DEF Region

LEMMA ReadTileWithin ==
  ASSUME TypeInv, ReadTile
  PROVE  WithinFile'
<1> DEFINE m == Directory
           k == Len(tiles)
           single == call.op = "tile"
           column == IF single THEN call.column ELSE k % Columns(m)
           row == IF single THEN call.row ELSE k \div Columns(m)
           all == IF single THEN 1 ELSE Columns(m) * Rows(m)
           i == Linear(m, column, row) + 1
<1>1. /\ pc = "tiles" /\ InTiles /\ file' = file /\ file \in Files
  BY DEF TypeInv, TypeOK, ReadTile, InTiles
<1>2. \/ reads' = {}
      \/ k # all /\ TileAt(m, column, row) # Bad /\ Take(m.table[i])
  BY DEF ReadTile
<1>3. CASE reads' = {}
  BY <1>3 DEF WithinFile
<1>4. CASE k # all /\ TileAt(m, column, row) # Bad /\ Take(m.table[i])
  <2>1. column \in Nat /\ row \in Nat
    BY <1>1, <1>4, NextCell
  <2>2. i \in 1 .. Len(m.table) /\ ~Outside(m.table[i].offset, m.table[i].count)
    BY <1>1, <1>4, <2>1, TileAtTypes
  <2>3. m.table[i].offset \in Nat /\ m.table[i].count \in Nat
    BY <1>1, <2>2, DirectoryIfd, IfdTypes
  <2>4. m.table[i].offset + m.table[i].count <= file.size
    BY <1>1, <2>2, <2>3, InsideFile
  <2>5. reads' = {Region(m.table[i].offset, m.table[i].count)}
    BY <1>4 DEF Take
  <2> QED BY <1>1, <2>4, <2>5, OneRead
<1> QED BY <1>2, <1>3, <1>4

LEMMA FetchTileWithin ==
  ASSUME TypeInv, FetchTile
  PROVE  WithinFile'
<1> DEFINE m == Directory
           i == Len(tiles) + 1
<1>1. /\ pc = "fetch" /\ InTiles /\ file' = file /\ file \in Files
      /\ tiles \in Seq(Payloads \union {Bad}) /\ Len(tiles) < Len(m.table)
  BY DEF TypeInv, TypeOK, FetchTile, InTiles
<1>2. i \in 1 .. Len(m.table)
  BY <1>1, DirectoryIfd, IfdTypes
<1>3. m.table[i].offset \in Nat /\ m.table[i].count \in Nat
  BY <1>1, <1>2, DirectoryIfd, IfdTypes
<1>4. CASE Outside(m.table[i].offset, m.table[i].count)
  BY <1>4 DEF FetchTile, WithinFile
<1>5. CASE ~Outside(m.table[i].offset, m.table[i].count)
  <2>1. m.table[i].offset + m.table[i].count <= file.size
    BY <1>1, <1>3, <1>5, InsideFile
  <2>2. reads' = {Region(m.table[i].offset, m.table[i].count)}
    BY <1>5 DEF FetchTile, Take
  <2> QED BY <1>1, <2>1, <2>2, OneRead
<1> QED BY <1>4, <1>5

LEMMA ReadHeaderWithin ==
  ASSUME TypeInv, ReadHeader
  PROVE  WithinFile'
<1>1. file' = file /\ file.size \in Nat /\ HeaderSize \in Nat
  BY FileTypes, FormatAssumption DEF TypeInv, TypeOK, ReadHeader
<1>2. CASE file.size < HeaderSize
  BY <1>2 DEF ReadHeader, WithinFile
<1>3. CASE ~(file.size < HeaderSize)
  <2>1. reads' = {Region(0, HeaderSize)}
    BY <1>3 DEF ReadHeader
  <2>2. 0 + HeaderSize <= file.size
    BY <1>1, <1>3
  <2> QED BY <1>1, <2>1, <2>2, OneRead
<1> QED BY <1>2, <1>3

LEMMA ReadCountWithin ==
  ASSUME TypeInv, ReadCount
  PROVE  WithinFile'
<1>1. /\ file' = file /\ file.size \in Nat /\ at \in Nat /\ CountField \in Nat
  BY FileTypes, FormatAssumption DEF TypeInv, TypeOK, ReadCount
<1>2. CASE reads' = {}
  BY <1>2 DEF WithinFile
<1>3. CASE reads' = {Region(at, CountField)} /\ ~EndsBeyond(at, CountField)
  <2>1. at + CountField <= file.size
    BY <1>1, <1>3 DEF EndsBeyond
  <2> QED BY <1>1, <1>3, <2>1, OneRead
<1> QED BY <1>2, <1>3 DEF ReadCount

(* Whatever a file claims, no step of any call reads beyond its end.       *)
THEOREM ReadsStayInside == Spec => []WithinFile
<1>1. Init => WithinFile
  BY DEF Init, WithinFile
<1>2. TypeInv /\ WithinFile /\ [Next]_vars => WithinFile'
  <2> SUFFICES ASSUME TypeInv, WithinFile, [Next]_vars PROVE WithinFile'
    OBVIOUS
  <2>1. CASE ReadHeader
    BY <2>1, ReadHeaderWithin
  <2>2. CASE ReadCount
    BY <2>2, ReadCountWithin
  <2>3. CASE ReadEntry
    BY <2>3, ReadEntryWithin
  <2>4. CASE FollowChain
    BY <2>4, ReadNextWithin DEF FollowChain, Parsed
  <2>5. CASE FollowDirect
    BY <2>5, ReadNextWithin DEF FollowDirect, Parsed
  <2>6. CASE ReadTile
    BY <2>6, ReadTileWithin
  <2>7. CASE FetchTile
    BY <2>7, FetchTileWithin
  <2>8. CASE reads' = {}
    BY <2>8 DEF WithinFile
  <2>9. CASE UNCHANGED vars
    BY <2>9 DEF WithinFile, vars
  <2>10. ASSUME \/ Dispatch \/ Collect
                \/ \E k \in DOMAIN tiles : Decode(k)
                \/ \E c \in Asked : Begin(c)
         PROVE  reads' = {}
    BY <2>10 DEF Dispatch, Collect, Decode, Begin
  <2> QED
    BY <2>1, <2>2, <2>3, <2>4, <2>5, <2>6, <2>7, <2>8, <2>9, <2>10 DEF Next, Step
<1> QED BY <1>1, <1>2, TypeInvInit, TypeInvNext, PTL DEF Spec


------------------------------------------------------------------------------
(* The walk. What opened the file walked a chain that ascends; a walk that *)
(* checks nothing takes the same links and so goes the same way.           *)

Ascending(s) == \A j \in DOMAIN s : \A i \in 1 .. j - 1 : s[i] < s[j]
Linking(s) == \A k \in 1 .. Len(s) - 1 : s[k + 1] = file.ifd[s[k]].next

(* A chain that read_directory_chain accepts. *)
Path(s) ==
  /\ s # << >> /\ s[1] = file.first
  /\ Ascending(s) /\ Linking(s)
  /\ Len(s) = MaxDirectories \/ file.ifd[s[Len(s)]].next = 0

Walking == pc \in {"count", "entries"}

Checked ==
  /\ Ascending(chain) /\ Linking(chain)
  /\ chain # << >> => chain[1] = file.first
  /\ Walking =>
       /\ at = IF chain = << >> THEN file.first ELSE file.ifd[chain[Len(chain)]].next
       /\ \A i \in DOMAIN chain : chain[i] < at

AlignedTo(s) ==
  /\ \A k \in DOMAIN chain : k <= Len(s) => chain[k] = s[k]
  /\ Walking /\ Len(chain) < Len(s) => at = s[Len(chain) + 1]
  /\ \/ Len(chain) < Len(s)
     \/ Len(chain) = Len(s) /\ ~Walking
     \/ Len(s) = MaxDirectories

Paths == {s \in Seq(0 .. file.size) : Path(s)}

(* The call asks for the image's IFD and has found its first address.      *)
Direct == call # None /\ call.op = "parallel" /\ pc # "header"

WalkInv ==
  /\ status = "open" => Paths # {}
  /\ call # None /\ call.op # "parallel" => Checked
  /\ Direct => \E s \in Paths : AlignedTo(s)

LEMMA SamePaths ==
  ASSUME UNCHANGED file
  PROVE  Paths' = Paths
BY DEF Paths, Path, Linking, Ascending

(* A call that is over, or has not reached the chain, has nothing to keep. *)
LEMMA ReturnWalk ==
  ASSUME TypeInv, WalkInv, call # None, UNCHANGED file, NEW result, Return(result),
         call.op = "open" /\ result.ok => Paths # {}
  PROVE  WalkInv'
<1>1. call' = None
  BY DEF Return
<1>2. status' = "open" => Paths # {}
  BY DEF WalkInv, Return
<1>3. Paths' = Paths
  BY SamePaths
<1> QED BY <1>1, <1>2, <1>3 DEF WalkInv, Direct

(* Steps that leave the walk where it is. *)
LEMMA StillWalk ==
  ASSUME WalkInv, UNCHANGED <<file, status, call, at, chain>>,
         pc' = pc \/ (Walking /\ pc' = "entries") \/ (pc = "fetch" /\ pc' = "pool")
  PROVE  WalkInv'
<1>1. Paths' = Paths
  BY SamePaths
<1>2. Walking' = Walking /\ ((pc' = "header") = (pc = "header"))
  BY DEF Walking
<1>3. Checked' = Checked
  BY <1>2 DEF Checked, Ascending, Linking
<1>4. \A s : AlignedTo(s)' = AlignedTo(s)
  BY <1>2 DEF AlignedTo
<1>5. Direct' = Direct
  BY <1>2 DEF Direct
<1> QED BY <1>1, <1>3, <1>4, <1>5 DEF WalkInv

LEMMA BeginWalk ==
  ASSUME TypeInv, WalkInv, NEW c \in Asked, Begin(c)
  PROVE  WalkInv'
<1>1. /\ pc = "idle" /\ chain = << >> /\ chain' = << >> /\ pc' = "header"
      /\ UNCHANGED <<file, status>>
  BY DEF TypeInv, TypeOK, Placed, Begin, progress
<1>2. Paths' = Paths
  BY <1>1, SamePaths
<1>3. Checked'
  BY <1>1 DEF Checked, Ascending, Linking, Walking
<1> QED BY <1>1, <1>2, <1>3 DEF WalkInv, Direct

LEMMA ReadHeaderWalk ==
  ASSUME TypeInv, WalkInv, ReadHeader
  PROVE  WalkInv'
<1>1. /\ pc = "header" /\ chain = << >> /\ call # None /\ UNCHANGED file
      /\ call.op # "open" => status = "open"
  BY DEF TypeInv, TypeOK, Placed, ReadHeader
<1>2. CASE Return(Error)
  BY <1>1, <1>2, ReturnWalk DEF Error
<1>3. CASE ~Return(Error)
  <2>1. /\ at' = file.first /\ pc' = "count" /\ chain' = << >>
        /\ UNCHANGED <<file, status, call>>
    BY <1>1, <1>3 DEF ReadHeader
  <2>2. Paths' = Paths
    BY <1>1, SamePaths
  <2>3. Checked'
    BY <2>1 DEF Checked, Ascending, Linking, Walking
  <2>4. ASSUME NEW s \in Paths PROVE AlignedTo(s)'
    <3>1. s \in Seq(0 .. file.size) /\ s # << >> /\ s[1] = file.first
      BY DEF Paths, Path
    <3>2. Len(s) \in Nat /\ 0 < Len(s) /\ Len(chain') = 0
      BY <2>1, <3>1
    <3> QED BY <2>1, <3>1, <3>2 DEF AlignedTo
  <2> QED BY <1>1, <2>1, <2>2, <2>3, <2>4 DEF WalkInv, Direct
<1> QED BY <1>2, <1>3


LEMMA AppendParts ==
  ASSUME NEW S, NEW s \in Seq(S), NEW a
  PROVE  /\ Len(s) \in Nat /\ Len(Append(s, a)) = Len(s) + 1
         /\ DOMAIN Append(s, a) = 1 .. Len(s) + 1 /\ DOMAIN s = 1 .. Len(s)
         /\ \A k \in 1 .. Len(s) : Append(s, a)[k] = s[k]
         /\ Append(s, a)[Len(s) + 1] = a
OBVIOUS

(* A chain that is extended where it links to ascends, if the link does.   *)
LEMMA Extended ==
  ASSUME TypeInv, WalkInv, pc = "entries", call.op # "parallel"
  PROVE  LET s == Append(chain, at)
         IN  /\ s \in Seq(0 .. file.size) /\ s # << >> /\ s[1] = file.first
             /\ Ascending(s) /\ Linking(s)
             /\ Len(s) = Len(chain) + 1 /\ s[Len(s)] = at
<1> DEFINE s == Append(chain, at)
<1>1. chain \in Seq(0 .. file.size) /\ at \in 0 .. file.size /\ call # None
  BY AtIfd DEF TypeInv, TypeOK
<1>2. /\ Len(chain) \in Nat /\ Len(s) = Len(chain) + 1
      /\ DOMAIN s = 1 .. Len(chain) + 1 /\ DOMAIN chain = 1 .. Len(chain)
      /\ \A k \in 1 .. Len(chain) : s[k] = chain[k]
      /\ s[Len(chain) + 1] = at
  BY <1>1, AppendParts
<1>3. Checked /\ Walking
  BY <1>1 DEF WalkInv, Walking
<1>4. \A i \in 1 .. Len(chain) : chain[i] < at
  BY <1>2, <1>3 DEF Checked
<1>5. Ascending(s)
  <2> SUFFICES ASSUME NEW j \in 1 .. Len(chain) + 1, NEW i \in 1 .. j - 1
               PROVE  s[i] < s[j]
    BY <1>2 DEF Ascending
  <2>1. CASE j = Len(chain) + 1
    BY <1>2, <1>4, <2>1
  <2>2. CASE j # Len(chain) + 1
    <3>1. j \in 1 .. Len(chain) /\ i \in 1 .. Len(chain)
      BY <1>2, <2>2
    <3>2. chain[i] < chain[j]
      BY <1>2, <1>3, <3>1 DEF Checked, Ascending
    <3> QED BY <1>2, <3>1, <3>2
  <2> QED BY <2>1, <2>2
<1>6. Linking(s)
  <2> SUFFICES ASSUME NEW k \in 1 .. Len(chain)
               PROVE  s[k + 1] = file.ifd[s[k]].next
    BY <1>2 DEF Linking
  <2>1. CASE k = Len(chain)
    <3>1. chain # << >> /\ at = file.ifd[chain[Len(chain)]].next
      BY <1>1, <1>3, <2>1 DEF Checked
    <3> QED BY <1>2, <2>1, <3>1
  <2>2. CASE k # Len(chain)
    <3>. Len(chain) \in Nat
      BY <1>2
    <3>1. k \in 1 .. Len(chain) - 1 /\ k + 1 \in 1 .. Len(chain)
      BY <2>2
    <3>2. chain[k + 1] = file.ifd[chain[k]].next
      BY <1>3, <3>1 DEF Checked, Linking
    <3> QED BY <1>2, <3>1, <3>2
  <2> QED BY <2>1, <2>2
<1>7. s[1] = file.first
  <2>1. CASE chain = << >>
    BY <1>2, <1>3, <2>1 DEF Checked
  <2>2. CASE chain # << >>
    <3>1. 1 \in 1 .. Len(chain)
      BY <1>1, <1>2, <2>2
    <3> QED BY <1>2, <1>3, <2>2, <3>1 DEF Checked
  <2> QED BY <2>1, <2>2
<1>8. s \in Seq(0 .. file.size) /\ s # << >>
  BY <1>1
<1> QED BY <1>2, <1>5, <1>6, <1>7, <1>8

LEMMA FollowChainWalk ==
  ASSUME TypeInv, WalkInv, FollowChain
  PROVE  WalkInv'
<1> DEFINE s == Append(chain, at)
<1>1. /\ call # None /\ UNCHANGED file /\ pc = "entries" /\ call.op # "parallel"
      /\ chain \in Seq(0 .. file.size)
  BY DEF TypeInv, TypeOK, FollowChain, Parsed
<1>2. /\ s \in Seq(0 .. file.size) /\ s # << >> /\ s[1] = file.first
      /\ Ascending(s) /\ Linking(s) /\ Len(s) = Len(chain) + 1 /\ s[Len(s)] = at
  BY <1>1, Extended
<1>3. CASE Return(Error)
  BY <1>1, <1>3, ReturnWalk DEF Error
<1>4. CASE Return(Ok(<< >>)) /\ IsLast
  <2>1. M.next = 0 \/ Len(s) = MaxDirectories
    BY <1>2, <1>4 DEF IsLast
  <2>2. s \in Paths
    BY <1>2, <2>1 DEF Paths, Path, M
  <2> QED BY <1>1, <1>4, <2>2, ReturnWalk
<1>5. ASSUME GoOn \/ ToTiles PROVE /\ chain' = s /\ UNCHANGED <<file, status, call>>
                                   /\ Paths' = Paths /\ ~Direct'
                                   /\ Ascending(chain') /\ Linking(chain')
                                   /\ chain'[1] = file.first /\ chain' # << >>
  BY <1>1, <1>2, <1>5, SamePaths DEF GoOn, ToTiles, Direct
<1>6. CASE GoOn /\ ~TurnsBack
  <2>1. at' = M.next /\ Walking' /\ at < at'
    <3>1. M.next \in Nat /\ at \in Nat
      BY <1>1, AtIfd DEF TypeInv, TypeOK
    <3> QED BY <1>6, <3>1 DEF GoOn, TurnsBack, Walking
  <2>2. \A i \in DOMAIN s : s[i] < at'
    <3>1. at \in Nat /\ at' \in Nat
      BY <1>1, <2>1, AtIfd DEF TypeInv, TypeOK
    <3>2. \A i \in DOMAIN s : s[i] \in Nat /\ (s[i] < at \/ s[i] = at)
      <4>1. \A i \in 1 .. Len(s) - 1 : s[i] < s[Len(s)]
        BY <1>2 DEF Ascending
      <4>2. \A i \in DOMAIN s : s[i] \in 0 .. file.size
        BY <1>2, ElementIn
      <4> QED BY <1>2, <4>1, <4>2
    <3> QED BY <2>1, <3>1, <3>2
  <2>3. at' = file'.ifd[chain'[Len(chain')]].next
    BY <1>2, <1>5, <1>6, <2>1 DEF M
  <2>4. Checked'
    BY <1>5, <1>6, <2>1, <2>2, <2>3 DEF Checked, Ascending, Linking
  <2> QED BY <1>5, <1>6, <2>4 DEF WalkInv
<1>7. CASE ToTiles
  <2>1. ~Walking'
    BY <1>7 DEF ToTiles, Walking
  <2>2. Checked'
    BY <1>5, <1>7, <2>1 DEF Checked, Ascending, Linking
  <2> QED BY <1>5, <1>7, <2>2 DEF WalkInv
<1> QED
  <2>1. \/ Return(Error)
        \/ Return(Ok(<< >>)) /\ IsLast
        \/ GoOn /\ ~IsLast /\ ~(M.next # 0 /\ TurnsBack)
        \/ ToTiles
    BY DEF FollowChain
  <2>2. ~IsLast => M.next # 0
    BY DEF IsLast
  <2> QED BY <1>3, <1>4, <1>6, <1>7, <2>1, <2>2


(* directory_at keeps to a chain that was accepted. *)
LEMMA FollowDirectWalk ==
  ASSUME TypeInv, WalkInv, FollowDirect
  PROVE  WalkInv'
<1>1. /\ call # None /\ UNCHANGED file /\ pc = "entries" /\ call.op = "parallel"
      /\ chain \in Seq(0 .. file.size) /\ Direct /\ Walking
  BY DEF TypeInv, TypeOK, FollowDirect, Parsed, Direct, Walking
<1>2. CASE Return(Error)
  BY <1>1, <1>2, ReturnWalk DEF Error
<1>3. CASE ToTiles \/ (GoOn /\ M.next # 0)
  <2>1. PICK s \in Paths : AlignedTo(s)
    BY <1>1 DEF WalkInv
  <2>2. /\ chain' = Append(chain, at) /\ UNCHANGED <<file, status, call>> /\ Paths' = Paths
        /\ ToTiles => pc' = "fetch"
        /\ GoOn => at' = M.next /\ pc' = "count"
    BY <1>1, <1>3, SamePaths DEF ToTiles, GoOn
  <2>3. /\ Len(chain) \in Nat /\ Len(chain') = Len(chain) + 1
        /\ DOMAIN chain' = 1 .. Len(chain) + 1 /\ DOMAIN chain = 1 .. Len(chain)
        /\ \A k \in 1 .. Len(chain) : chain'[k] = chain[k]
        /\ chain'[Len(chain) + 1] = at
    BY <1>1, <2>2, AppendParts
  <2>4. /\ Len(s) \in Nat /\ Linking(s)
        /\ Len(s) = MaxDirectories \/ file.ifd[s[Len(s)]].next = 0
    BY DEF Paths, Path
  <2>5. Len(chain) < Len(s) \/ Len(s) = MaxDirectories
    BY <1>1, <2>1 DEF AlignedTo
  <2>6. Len(chain) < Len(s) => at = s[Len(chain) + 1]
    BY <1>1, <2>1 DEF AlignedTo
  <2>7. \A k \in DOMAIN chain' : k <= Len(s) => chain'[k] = s[k]
    <3> SUFFICES ASSUME NEW k \in 1 .. Len(chain) + 1, k <= Len(s)
                 PROVE  chain'[k] = s[k]
      BY <2>3
    <3>1. CASE k = Len(chain) + 1
      <4>1. Len(chain) < Len(s)
        BY <2>3, <2>4, <3>1
      <4> QED BY <2>3, <2>6, <3>1, <4>1
    <3>2. CASE k # Len(chain) + 1
      <4>1. k \in 1 .. Len(chain)
        BY <2>3, <3>2
      <4> QED BY <2>1, <2>3, <4>1 DEF AlignedTo
    <3> QED BY <3>1, <3>2
  <2>8. CASE ToTiles
    <3>1. ~Walking'
      BY <2>2, <2>8 DEF Walking
    <3>2. Len(chain') < Len(s) \/ Len(chain') = Len(s) \/ Len(s) = MaxDirectories
      BY <2>3, <2>4, <2>5
    <3>3. AlignedTo(s)'
      BY <2>7, <3>1, <3>2 DEF AlignedTo
    <3> QED BY <1>1, <2>2, <3>3 DEF WalkInv, Direct
  <2>9. CASE GoOn /\ M.next # 0
    <3>1. at' = file.ifd[at].next /\ file.ifd[at].next # 0
      BY <2>2, <2>9 DEF M
    <3>2. Len(chain') < Len(s) => at' = s[Len(chain') + 1]
      <4> SUFFICES ASSUME Len(chain') < Len(s) PROVE at' = s[Len(chain') + 1]
        OBVIOUS
      <4>1. Len(chain) < Len(s) /\ Len(chain') \in 1 .. Len(s) - 1
        BY <2>3, <2>4
      <4>2. at = s[Len(chain')]
        BY <2>3, <2>6, <4>1
      <4> QED BY <2>4, <3>1, <4>1, <4>2 DEF Linking
    <3>3. Len(chain') < Len(s) \/ Len(s) = MaxDirectories
      <4> SUFFICES ASSUME Len(s) # MaxDirectories, ~(Len(chain') < Len(s)) PROVE FALSE
        OBVIOUS
      <4>1. Len(chain) < Len(s) /\ Len(s) = Len(chain) + 1
        BY <2>3, <2>4, <2>5
      <4>2. at = s[Len(s)]
        BY <2>6, <4>1
      <4> QED BY <2>4, <3>1, <4>2
    <3>4. AlignedTo(s)'
      BY <2>7, <3>2, <3>3 DEF AlignedTo
    <3> QED BY <1>1, <2>2, <3>4 DEF WalkInv, Direct
  <2> QED BY <1>3, <2>8, <2>9
<1> QED
  BY <1>2, <1>3 DEF FollowDirect

LEMMA WalkInvInit == Init => WalkInv
BY DEF Init, WalkInv, Direct

LEMMA WalkInvNext == TypeInv /\ WalkInv /\ [Next]_vars => WalkInv'
<1> SUFFICES ASSUME TypeInv, WalkInv, [Next]_vars PROVE WalkInv'
  OBVIOUS
<1>1. ASSUME NEW c \in Asked, Begin(c) PROVE WalkInv'
  BY <1>1, BeginWalk
<1>2. CASE ReadHeader
  BY <1>2, ReadHeaderWalk
<1>3. CASE FollowChain
  BY <1>3, FollowChainWalk
<1>4. CASE FollowDirect
  BY <1>4, FollowDirectWalk
<1>5. ASSUME NEW result, Return(result), UNCHANGED file,
             call # None, ~result.ok \/ call.op # "open"
      PROVE  WalkInv'
  BY <1>5, ReturnWalk
<1>6. CASE ReadCount
  <2>1. call # None /\ UNCHANGED file
    BY <1>6 DEF TypeInv, TypeOK, ReadCount
  <2>2. CASE Return(Error)
    BY <1>5, <2>1, <2>2 DEF Error
  <2>3. CASE ~Return(Error)
    <3>1. UNCHANGED <<file, status, call, at, chain>> /\ Walking /\ pc' = "entries"
      BY <1>6, <2>3 DEF ReadCount, progress, Walking
    <3> QED BY <3>1, StillWalk
  <2> QED BY <2>2, <2>3
<1>7. CASE ReadEntry
  <2>1. call # None /\ UNCHANGED file
    BY <1>7 DEF TypeInv, TypeOK, ReadEntry
  <2>2. CASE Return(Error)
    BY <1>5, <2>1, <2>2 DEF Error
  <2>3. CASE ~Return(Error)
    <3>1. UNCHANGED <<file, status, call, at, chain, pc>>
      BY <1>7, <2>3 DEF ReadEntry
    <3> QED BY <3>1, StillWalk
  <2> QED BY <2>2, <2>3
<1>8. ASSUME ReadTile \/ FetchTile \/ Dispatch \/ Collect
      PROVE  call # None /\ UNCHANGED file /\ call.op # "open"
  BY <1>8 DEF TypeInv, TypeOK, Placed, InTiles, ReadTile, FetchTile, Dispatch, Collect
<1>9. CASE ReadTile
  <2>1. CASE \E result : Return(result)
    BY <1>5, <1>8, <1>9, <2>1
  <2>2. CASE ~ \E result : Return(result)
    <3>1. UNCHANGED <<file, status, call, at, chain, pc>>
      BY <1>9, <2>2 DEF ReadTile, Take
    <3> QED BY <3>1, StillWalk
  <2> QED BY <2>1, <2>2
<1>10. CASE FetchTile
  <2>1. CASE \E result : Return(result)
    BY <1>5, <1>8, <1>10, <2>1
  <2>2. CASE ~ \E result : Return(result)
    <3>1. UNCHANGED <<file, status, call, at, chain, pc>>
      BY <1>10, <2>2 DEF FetchTile, Take
    <3> QED BY <3>1, StillWalk
  <2> QED BY <2>1, <2>2
<1>11. CASE Dispatch
  <2>1. CASE \E result : Return(result)
    BY <1>5, <1>8, <1>11, <2>1
  <2>2. CASE ~ \E result : Return(result)
    <3>1. UNCHANGED <<file, status, call, at, chain>> /\ pc = "fetch" /\ pc' = "pool"
      BY <1>11, <2>2 DEF Dispatch, progress
    <3> QED BY <3>1, StillWalk
  <2> QED BY <2>1, <2>2
<1>12. CASE Collect
  BY <1>5, <1>8, <1>12 DEF Collect
<1>13. ASSUME NEW k \in DOMAIN tiles, Decode(k) PROVE WalkInv'
  <2>1. UNCHANGED <<file, status, call, at, chain, pc>>
    BY <1>13 DEF Decode
  <2> QED BY <2>1, StillWalk
<1>14. CASE UNCHANGED vars
  <2>1. UNCHANGED <<file, status, call, at, chain, pc>>
    BY <1>14 DEF vars, progress
  <2> QED BY <2>1, StillWalk
<1> QED
  BY <1>1, <1>2, <1>3, <1>4, <1>6, <1>7, <1>9, <1>10, <1>11, <1>12, <1>13, <1>14
  DEF Next, Step

LEMMA WalkAscends == TypeInv /\ WalkInv => Ascends
<1> SUFFICES ASSUME TypeInv, WalkInv PROVE Ascends
  OBVIOUS
<1>0. /\ chain \in Seq(0 .. file.size) /\ Len(chain) \in Nat /\ DOMAIN chain = 1 .. Len(chain)
      /\ MaxDirectories \in Nat
  BY FormatAssumption DEF TypeInv, TypeOK
<1>1. CASE call = None \/ pc = "header"
  <2>1. pc # "count" /\ chain = << >>
    BY <1>1 DEF TypeInv, TypeOK, Placed
  <2> QED BY <2>1 DEF Ascends
<1>2. CASE call # None /\ call.op # "parallel"
  BY <1>2 DEF WalkInv, Checked, Ascends, Ascending, Walking
<1>3. CASE Direct
  <2>1. PICK s \in Paths : AlignedTo(s)
    BY <1>3 DEF WalkInv
  <2>2. /\ Len(s) \in Nat /\ DOMAIN s = 1 .. Len(s)
        /\ \A j \in 1 .. Len(s) : \A i \in 1 .. j - 1 : s[i] < s[j]
    BY DEF Paths, Path, Ascending
  <2>3. \/ Len(chain) < Len(s)
        \/ Len(chain) = Len(s) /\ ~Walking
        \/ Len(s) = MaxDirectories
    BY <2>1 DEF AlignedTo
  <2>4. \A k \in 1 .. Len(chain) : k <= Len(s) => chain[k] = s[k]
    BY <1>0, <2>1 DEF AlignedTo
  <2>5. ASSUME NEW j \in 1 .. Len(chain), j <= MaxDirectories, NEW i \in 1 .. j - 1
        PROVE  chain[i] < chain[j]
    <3>. Len(s) \in Nat /\ Len(chain) \in Nat /\ MaxDirectories \in Nat
      BY <1>0, <2>2
    <3>1. j <= Len(s)
      BY <2>3, <2>5
    <3>2. j \in 1 .. Len(s) /\ i \in 1 .. Len(chain) /\ i <= Len(s)
      BY <3>1, <2>5
    <3> QED BY <2>2, <2>4, <2>5, <3>1, <3>2
  <2>6. ASSUME pc = "count", Len(chain) < MaxDirectories, NEW i \in 1 .. Len(chain)
        PROVE  chain[i] < at
    <3>1. Len(chain) < Len(s)
      BY <2>3, <2>6 DEF Walking
    <3>2. at = s[Len(chain) + 1]
      BY <2>1, <2>6, <3>1 DEF AlignedTo, Walking
    <3>3. Len(chain) + 1 \in 1 .. Len(s) /\ i \in 1 .. (Len(chain) + 1) - 1 /\ i <= Len(s)
      BY <1>0, <2>2, <3>1
    <3> QED BY <2>2, <2>4, <3>2, <3>3
  <2> QED BY <1>0, <2>5, <2>6 DEF Ascends
<1> QED BY <1>1, <1>2, <1>3 DEF Direct

(* No call parses an IFD twice: read_directory_chain because it checks     *)
(* that the chain ascends, directory_at because the file could only be     *)
(* opened if it does, up to the number of IFDs that opening looks at.      *)
THEOREM WalksAscend == Spec => []Ascends
<1>1. Init => TypeInv /\ WalkInv
  BY TypeInvInit, WalkInvInit
<1>2. TypeInv /\ WalkInv /\ [Next]_vars => (TypeInv /\ WalkInv)'
  BY TypeInvNext, WalkInvNext
<1>3. TypeInv /\ WalkInv => Ascends
  BY WalkAscends
<1> QED BY <1>1, <1>2, <1>3, PTL DEF Spec

------------------------------------------------------------------------------
(* The links of a file. Link is a recursive function: what it is defined   *)
(* by, it satisfies, and no step of the reader changes it.                 *)

LEMMA LeastElement ==
  ASSUME NEW T, T \subseteq Nat, T # {}
  PROVE  \E x \in T : \A y \in T : x <= y
<1> DEFINE R == OpToRel(<, Nat)
<1>1. PICK x \in T : \A y \in T : ~(<<y, x>> \in R)
  <2>1. IsWellFoundedOn(R, Nat)
    BY NatLessThanWellFounded
  <2> HIDE DEF R
  <2> QED BY <2>1, WFMin
<1>2. \A y \in T : ~(y < x)
  BY <1>1, Zenon DEF OpToRel
<1> HIDE DEF R
<1> QED BY <1>1, <1>2

(* Readable of TiffReader, of any file. *)
ReadableIn(f, a) ==
  /\ a + CountField <= f.size
  /\ LET m == f.ifd[a]
     IN  /\ a + CountField + Len(m.entries) * EntrySize + NextField <= f.size
         /\ \A k \in DOMAIN m.entries :
              LET e == m.entries[k]
              IN  ~e.known \/ /\ e.count <= MaxTagCount
                              /\ \/ e.count * e.width <= ValueArea
                                 \/ e.offset + e.count * e.width <= f.size

(* The link after a, and the n-th of links of which the others are g. *)
After(f, a) ==
  IF a = None \/ ~ReadableIn(f, a) THEN None
  ELSE IF f.ifd[a].next = 0 THEN None
  ELSE f.ifd[a].next

LinkOf(f, g, n) == IF n = 1 THEN f.first ELSE After(f, g[n - 1])

LEMMA LinkIs == Link = CHOOSE g : g = [n \in 1 .. MaxDirectories |-> LinkOf(file, g, n)]
BY DEF Link, LinkOf, After, Readable, ReadableIn

LEMMA LinkIsPrimed ==
  Link' = CHOOSE g : g = [n \in 1 .. MaxDirectories |-> LinkOf(file', g, n)]
BY DEF Link, LinkOf, After, Readable, ReadableIn

LEMMA ReadableIs == \A a : Readable(a) = ReadableIn(file, a)
BY DEF Readable, ReadableIn

LEMMA LinkSteady == UNCHANGED file => Link' = Link
BY LinkIs, LinkIsPrimed

LEMMA LinksExist ==
  ASSUME NEW f, NEW d \in Nat
  PROVE  \E g : g = [n \in 1 .. d |-> LinkOf(f, g, n)]
<1> DEFINE T == {m \in Nat : ~ \E g : g = [n \in 1 .. m |-> LinkOf(f, g, n)]}
<1> SUFFICES ASSUME T # {} PROVE FALSE
  OBVIOUS
<1>1. PICK m \in T : \A y \in T : m <= y
  BY LeastElement
<1>2. CASE m = 0
  <2> DEFINE g == [n \in 1 .. 0 |-> 0]
  <2>1. g = [n \in 1 .. 0 |-> LinkOf(f, g, n)]
    OBVIOUS
  <2> QED BY <1>1, <1>2, <2>1
<1>3. CASE m # 0
  <2>1. m - 1 \in Nat /\ m - 1 \notin T
    BY <1>1, <1>3
  <2>2. PICK g : g = [n \in 1 .. m - 1 |-> LinkOf(f, g, n)]
    BY <2>1
  <2> DEFINE h == [n \in 1 .. m |-> IF n < m THEN g[n] ELSE LinkOf(f, g, m)]
  <2>3. ASSUME NEW n \in 1 .. m PROVE h[n] = LinkOf(f, h, n)
    <3>1. h[n] = LinkOf(f, g, n)
      BY <2>2
    <3>2. n # 1 => h[n - 1] = g[n - 1]
      <4>. m \in Nat
        BY <1>1
      <4>1. n # 1 => n - 1 \in 1 .. m /\ n - 1 < m
        OBVIOUS
      <4> QED BY <4>1
    <3> HIDE DEF h
    <3> QED BY <3>1, <3>2 DEF LinkOf
  <2>4. h = [n \in 1 .. m |-> LinkOf(f, h, n)]
    <3>1. h = [n \in 1 .. m |-> h[n]]
      OBVIOUS
    <3> HIDE DEF h
    <3> QED BY <3>1, <2>3
  <2> QED BY <1>1, <2>4
<1> QED BY <1>2, <1>3

LEMMA LinkUnfolds == Link = [n \in 1 .. MaxDirectories |-> LinkOf(file, Link, n)]
<1>1. \E g : g = [n \in 1 .. MaxDirectories |-> LinkOf(file, g, n)]
  BY LinksExist, FormatAssumption
<1> DEFINE P(g) == g = [n \in 1 .. MaxDirectories |-> LinkOf(file, g, n)]
<1>2. Link = CHOOSE g : P(g)
  BY LinkIs
<1>3. \E g : P(g)
  BY <1>1
<1> HIDE DEF P
<1>4. P(Link)
  BY <1>2, <1>3
<1> QED BY <1>4 DEF P

LEMMA AfterIs ==
  ASSUME file \in Files, NEW a \in 0 .. WordMax, Readable(a)
  PROVE  /\ a \in 0 .. file.size /\ file.ifd[a] \in Ifd /\ a # None
         /\ file.ifd[a].next \in 0 .. WordMax /\ file.ifd[a].next # None
         /\ After(file, a) = IF file.ifd[a].next = 0 THEN None ELSE file.ifd[a].next
<1>1. file.size \in Nat /\ CountField \in Nat /\ a \in Nat
  BY FileTypes, FormatAssumption
<1>2. a + CountField <= file.size
  BY DEF Readable
<1>3. a \in 0 .. file.size
  BY <1>1, <1>2
<1>4. file.ifd[a] \in Ifd
  BY <1>3, FileTypes
<1>5. file.ifd[a].next \in 0 .. WordMax
  BY <1>4 DEF Ifd
<1> QED BY <1>3, <1>4, <1>5, NoneAssumption, ReadableIs DEF After

(* A link is an address or None; the first one is an address. *)
LEMMA LinkTypes ==
  ASSUME file \in Files
  PROVE  /\ \A n \in 1 .. MaxDirectories : Link[n] \in (0 .. WordMax) \union {None}
         /\ Link[1] = file.first /\ Link[1] # None
<1> MaxDirectories \in Nat \ {0}
  BY FormatAssumption
<1>0. \A n \in 1 .. MaxDirectories : Link[n] = LinkOf(file, Link, n)
  BY LinkUnfolds
<1>1. Link[1] = file.first
  BY <1>0 DEF LinkOf
<1>2. file.first \in 0 .. WordMax /\ file.first # None
  BY FilesAssumption, NoneAssumption
<1> DEFINE T == {n \in Nat : n \in 1 .. MaxDirectories /\ Link[n] \notin (0 .. WordMax) \union {None}}
<1>3. ASSUME T # {} PROVE FALSE
  <2>1. PICK n \in T : \A y \in T : n <= y
    BY <1>3, LeastElement
  <2>2. n # 1
    BY <1>1, <1>2, <2>1
  <2>3. n - 1 \in 1 .. MaxDirectories /\ n - 1 \notin T
    BY <2>1, <2>2
  <2>4. Link[n - 1] \in (0 .. WordMax) \union {None}
    BY <2>3
  <2>5. Link[n] = After(file, Link[n - 1])
    BY <1>0, <2>1, <2>2 DEF LinkOf
  <2>6. After(file, Link[n - 1]) \in (0 .. WordMax) \union {None}
    <3>1. CASE Link[n - 1] = None \/ ~Readable(Link[n - 1])
      BY <3>1, ReadableIs DEF After
    <3>2. CASE Link[n - 1] \in 0 .. WordMax /\ Readable(Link[n - 1])
      BY <3>2, AfterIs
    <3> QED BY <2>4, <3>1, <3>2
  <2> QED BY <2>1, <2>5, <2>6
<1> QED BY <1>1, <1>2, <1>3

(* What is linked is linked to by the link before; and what a link that    *)
(* can be read links to is linked.                                         *)
LEMMA LinkBefore ==
  ASSUME file \in Files, NEW n \in Linked, n # 1
  PROVE  /\ n - 1 \in Linked /\ Readable(Link[n - 1])
         /\ Link[n] = file.ifd[Link[n - 1]].next /\ Link[n] # 0
<1>0. n \in 1 .. MaxDirectories /\ n - 1 \in 1 .. MaxDirectories /\ Link[n] # None
  BY FormatAssumption DEF Linked
<1>1. Link[n] = After(file, Link[n - 1])
  BY <1>0, LinkUnfolds DEF LinkOf
<1> QED BY <1>0, <1>1, ReadableIs DEF After, Linked

LEMMA LinkAfter ==
  ASSUME file \in Files, NEW n \in Linked, n < MaxDirectories,
         Readable(Link[n]), file.ifd[Link[n]].next # 0
  PROVE  n + 1 \in Linked /\ Link[n + 1] = file.ifd[Link[n]].next
<1>0. /\ n \in 1 .. MaxDirectories /\ n + 1 \in 1 .. MaxDirectories /\ n + 1 # 1
      /\ Link[n] # None /\ Link[n] \in 0 .. WordMax
  BY FormatAssumption, LinkTypes DEF Linked
<1>1. Link[n + 1] = After(file, Link[n])
  <2>1. Link[n + 1] = LinkOf(file, Link, n + 1)
    BY <1>0, LinkUnfolds
  <2>2. (n + 1) - 1 = n
    BY <1>0
  <2> QED BY <1>0, <2>1, <2>2 DEF LinkOf
<1> QED BY <1>0, <1>1, AfterIs DEF Linked

LEMMA LinkedIsPrefix ==
  ASSUME file \in Files
  PROVE  \E d \in 1 .. MaxDirectories : Linked = 1 .. d
<1> MaxDirectories \in Nat \ {0}
  BY FormatAssumption
<1> DEFINE T == {n \in Nat : n # 0 /\ n \notin Linked}
<1>1. MaxDirectories + 1 \in T
  BY DEF Linked
<1>2. PICK m \in T : \A y \in T : m <= y
  BY <1>1, LeastElement
<1>3. 1 \in Linked
  BY LinkTypes DEF Linked
<1>4. m \in Nat /\ m > 1 /\ m - 1 \in Linked /\ m <= MaxDirectories + 1
  BY <1>1, <1>2, <1>3
<1>5. ASSUME NEW n \in 1 .. m - 1 PROVE n \in Linked
  BY <1>2, <1>4
<1> DEFINE U == {n \in Nat : n \in Linked /\ n > m}
<1>6. ASSUME U # {} PROVE FALSE
  <2>1. PICK n \in U : \A y \in U : n <= y
    BY <1>6, LeastElement
  <2>2. n - 1 \in Linked
    BY <1>4, <2>1, LinkBefore
  <2>3. n - 1 # m
    BY <1>2, <2>2
  <2>4. n - 1 \in U
    BY <1>4, <2>1, <2>2, <2>3
  <2> QED BY <2>1, <2>4
<1>7. ASSUME NEW n \in Linked PROVE n \in 1 .. m - 1
  <2>1. n \in Nat /\ n >= 1 /\ n # m
    BY <1>2 DEF Linked
  <2> QED BY <1>4, <1>6, <2>1
<1>8. Linked = 1 .. m - 1
  BY <1>5, <1>7
<1> QED BY <1>4, <1>8

(* Nothing that the file says changes. *)
LEMMA FileSteady ==
  ASSUME UNCHANGED file
  PROVE  /\ Link' = Link /\ Linked' = Linked /\ (Legible' <=> Legible) /\ Images' = Images
         /\ \A a : Readable(a)' <=> Readable(a)
<1>1. Link' = Link
  BY LinkSteady
<1>2. \A a : Readable(a)' <=> Readable(a)
  BY DEF Readable
<1>3. Linked' = Linked
  BY <1>1 DEF Linked
<1>4. Legible' <=> Legible
  BY <1>1, <1>2, <1>3 DEF Legible
<1>5. \A m : ImageAt(m)' = ImageAt(m)
  BY DEF ImageAt, Outside
<1>6. Images' = Images
  BY <1>1, <1>3, <1>5 DEF Images
<1> QED BY <1>1, <1>2, <1>3, <1>4, <1>6

------------------------------------------------------------------------------
(* The refinement. What a call has parsed and read so far is what the file *)
(* of images says.                                                         *)

(* Legible, of one IFD. *)
Passed(a) ==
  Readable(a) /\ LET m == file.ifd[a] IN m.sound /\ (m.next = 0 \/ m.next > a)

EntryFits(e) ==
  \/ ~e.known
  \/ /\ e.count <= MaxTagCount
     /\ e.count * e.width <= ValueArea \/ e.offset + e.count * e.width <= file.size

OnChain ==
  /\ file.size >= HeaderSize
  /\ \A k \in DOMAIN chain : k \in Linked /\ chain[k] = Link[k] /\ Passed(chain[k])
  /\ Walking => Len(chain) + 1 \in Linked /\ at = Link[Len(chain) + 1]
  /\ pc = "entries" => \A k \in 1 .. entry : EntryFits(M.entries[k])
  /\ Walking /\ call.op = "parallel" => Len(chain) < call.image

Wanted == Promised!Needed(call, ImageAt(Directory))

Fetched ==
  /\ InTiles => \A k \in DOMAIN tiles : k \in DOMAIN Wanted /\ tiles[k] = Wanted[k]
  /\ pc = "pool" => Len(tiles) = Len(Directory.table) /\ (failed # 0 => tiles[failed] = Bad)

Faithful ==
  /\ status = "open" => Legible
  /\ call # None /\ pc # "header" => OnChain /\ Fetched

(* The n-th image of parallel calls is one that opening looks at.          *)
Reachable == \A c \in Asked : c.op = "parallel" => c.image <= MaxDirectories

LEMMA ImageTypes ==
  ASSUME NEW m \in Ifd
  PROVE  /\ ImageAt(m) \in Promised!Image
         /\ ImageAt(m).columns = Columns(m) /\ ImageAt(m).rows = Rows(m)
         /\ DOMAIN ImageAt(m).table = 1 .. Len(m.table) /\ Len(ImageAt(m).table) = Len(m.table)
         /\ \A k \in 1 .. Len(m.table) :
              ImageAt(m).table[k] =
                IF Outside(m.table[k].offset, m.table[k].count) THEN Bad ELSE m.table[k].payload
<1> DEFINE t == [k \in DOMAIN m.table |->
                   IF Outside(m.table[k].offset, m.table[k].count) THEN Bad ELSE m.table[k].payload]
<1>1. Columns(m) \in Nat /\ Rows(m) \in Nat
  BY GridNat
<1>2. /\ m.table \in Seq(Range) /\ Len(m.table) \in Nat /\ DOMAIN m.table = 1 .. Len(m.table)
      /\ \A k \in 1 .. Len(m.table) : m.table[k].payload \in Payloads \union {Bad}
  BY IfdTypes
<1>3. t \in [1 .. Len(m.table) -> Payloads \union {Bad}]
  BY <1>2
<1>4. t \in Seq(Payloads \union {Bad}) /\ Len(t) = Len(m.table) /\ DOMAIN t = 1 .. Len(m.table)
  BY <1>2, <1>3
<1>5. ImageAt(m) = [columns |-> Columns(m), rows |-> Rows(m), table |-> t]
  BY DEF ImageAt
<1>6. \A k \in 1 .. Len(m.table) :
        t[k] = IF Outside(m.table[k].offset, m.table[k].count) THEN Bad ELSE m.table[k].payload
  BY <1>2
<1> HIDE DEF t
<1> QED BY <1>1, <1>4, <1>5, <1>6 DEF Promised!Image

LEMMA LegibleImages ==
  ASSUME file \in Files, Legible
  PROVE  /\ Images \in Seq(Promised!Image) /\ Images # None /\ DOMAIN Images = Linked
         /\ \A n \in Linked :
              /\ Passed(Link[n]) /\ file.ifd[Link[n]].scenic /\ file.ifd[Link[n]] \in Ifd
              /\ Images[n] = ImageAt(file.ifd[Link[n]])
<1>1. ASSUME NEW n \in Linked
      PROVE  /\ Passed(Link[n]) /\ file.ifd[Link[n]].scenic /\ file.ifd[Link[n]] \in Ifd
  <2>1. /\ Readable(Link[n])
        /\ LET m == file.ifd[Link[n]] IN m.sound /\ m.scenic /\ (m.next = 0 \/ m.next > Link[n])
    BY DEF Legible
  <2>2. Link[n] \in 0 .. WordMax
    BY LinkTypes DEF Linked
  <2>3. file.ifd[Link[n]] \in Ifd
    BY <2>1, <2>2, AfterIs
  <2> QED BY <2>1, <2>3 DEF Passed
<1>2. PICK d \in 1 .. MaxDirectories : Linked = 1 .. d
  BY LinkedIsPrefix
<1>3. \A n \in Linked : Images[n] = ImageAt(file.ifd[Link[n]])
  BY DEF Images
<1>4. \A n \in Linked : Images[n] \in Promised!Image
  BY <1>1, <1>3, ImageTypes
<1>5. Images \in [1 .. d -> Promised!Image]
  <2>1. Images = [n \in 1 .. d |-> Images[n]]
    BY <1>2 DEF Images
  <2> QED BY <1>2, <1>4, <2>1
<1>6. Images \in Seq(Promised!Image)
  BY <1>5, FormatAssumption
<1> QED BY <1>1, <1>2, <1>3, <1>5, <1>6, NoneAssumption

(* A cell of the grid is what read_tile makes of it.                       *)
LEMMA CellIs ==
  ASSUME NEW m \in Ifd, NEW column \in Nat, NEW row \in Nat
  PROVE  Promised!Cell(ImageAt(m), column, row) = TileAt(m, column, row)
<1> DEFINE k == row * Columns(m) + column + 1
<1>1. Columns(m) \in Nat /\ Rows(m) \in Nat /\ Len(m.table) \in Nat
  BY GridNat, IfdTypes
<1>2. k \in Nat /\ k >= 1
  BY <1>1
<1>3. Linear(m, column, row) + 1 = k
  BY DEF Linear
<1>4. Promised!Cell(ImageAt(m), column, row) =
        IF column < Columns(m) /\ row < Rows(m) /\ k <= Len(m.table) THEN ImageAt(m).table[k] ELSE Bad
  BY ImageTypes DEF Promised!Cell
<1>5. k <= Len(m.table) =>
        ImageAt(m).table[k] = IF Outside(m.table[k].offset, m.table[k].count) THEN Bad ELSE m.table[k].payload
  BY <1>1, <1>2, ImageTypes
<1> HIDE DEF k
<1> QED BY <1>1, <1>2, <1>3, <1>4, <1>5 DEF TileAt

------------------------------------------------------------------------------
(* What an answer is to the file of images.                                *)

LEMMA AnswerOpen ==
  ASSUME TypeInv, call # None, call.op = "open", UNCHANGED file, NEW result \in Answer, Return(result),
         (result = Ok(<< >>) /\ Legible) \/ (result = Error /\ ~Legible)
  PROVE  Promised!Next
<1>1. (Legible' <=> Legible) /\ Images' = Images
  BY FileSteady
<1>2. /\ answer' = result /\ call' = None /\ result # None
      /\ status' = IF result.ok THEN "open" ELSE "refused"
  BY NoneAssumption DEF Return
<1>3. Legible => Images # None
  BY LegibleImages DEF TypeInv, TypeOK
<1>5. CASE result = Ok(<< >>) /\ Legible
  <2>1. answer' # None /\ answer'.ok = TRUE /\ answer'.tiles = << >> /\ status' = "open"
    BY <1>2, <1>5 DEF Ok
  <2> QED BY <1>1, <1>2, <1>3, <1>5, <2>1 DEF Promised!Next, Promised!Open, Promised!Ok
<1>6. CASE result = Error /\ ~Legible
  <2>1. answer' # None /\ answer'.ok = FALSE /\ answer'.tiles = << >> /\ status' = "refused"
    BY <1>2, <1>6 DEF Error
  <2> QED BY <1>1, <1>2, <1>6, <2>1 DEF Promised!Next, Promised!Open, Promised!Error
<1> QED BY <1>5, <1>6

LEMMA AnswerRead ==
  ASSUME TypeInv, Legible, call # None, call.op # "open", UNCHANGED file,
         NEW result \in Answer, Return(result),
         LET s == Promised!Needed(call, Images[call.image])
             there == call.image \in Linked /\ Promised!Have(s)
         IN  \/ there /\ result.ok /\ result.tiles = s
             \/ ~there /\ ~result.ok /\ result.tiles = << >>
  PROVE  Promised!Next
<1>1. (Legible' <=> Legible) /\ Images' = Images
  BY FileSteady
<1>2. /\ answer' = result /\ call' = None /\ result # None /\ UNCHANGED status
  BY NoneAssumption DEF Return
<1>3. Images # None /\ DOMAIN Images = Linked
  BY LegibleImages DEF TypeInv, TypeOK
<1>4. result.ok \in BOOLEAN
  BY DEF Answer
<1>5. Promised!Read
  BY <1>1, <1>2, <1>3, <1>4 DEF Promised!Read, Promised!Ok, Promised!Error
<1> QED BY <1>5 DEF Promised!Next

LEMMA NoAnswer ==
  ASSUME UNCHANGED <<file, status, call, answer>>
  PROVE  UNCHANGED Promised!vars
<1>1. (Legible' <=> Legible) /\ Images' = Images
  BY FileSteady
<1> QED BY <1>1 DEF Promised!vars

Simulated == Promised!Next \/ UNCHANGED Promised!vars

LEMMA AfterReturn ==
  ASSUME TypeInv, Faithful, call # None, UNCHANGED file, NEW result, Return(result),
         call.op = "open" /\ result.ok => Legible
  PROVE  Faithful'
<1>1. call' = None /\ (status' = "open" => Legible)
  BY DEF Return, Faithful
<1> QED BY <1>1, FileSteady DEF Faithful

(* Who has a file open reads one that is legible; to who opens one, an     *)
(* error says that it is not.                                              *)
LEMMA ErrorOfBroken ==
  ASSUME TypeInv, Faithful, call # None, UNCHANGED file, Return(Error), ~Legible
  PROVE  Faithful' /\ Simulated
<1>1. call.op = "open"
  BY DEF TypeInv, Placed, Faithful
<1>2. Error \in Answer /\ ~Error.ok
  BY AnswerTypes DEF Error
<1>3. Promised!Next
  BY <1>1, <1>2, AnswerOpen
<1> QED BY <1>2, <1>3, AfterReturn DEF Simulated

LEMMA BeginSimulated ==
  ASSUME TypeInv, Faithful, NEW c \in Asked, Begin(c)
  PROVE  Faithful' /\ Simulated
<1>1. /\ call = None /\ call' = c /\ pc' = "header" /\ UNCHANGED <<file, status, answer>>
      /\ status = IF c.op = "open" THEN "closed" ELSE "open"
  BY DEF Begin
<1>2. Faithful'
  BY <1>1, FileSteady DEF Faithful
<1>3. (Legible' <=> Legible) /\ Images' = Images
  BY <1>1, FileSteady
<1>4. Promised!Ask(c)
  BY <1>1, <1>3 DEF Promised!Ask
<1> QED BY <1>2, <1>4 DEF Simulated, Promised!Next

LEMMA ReadHeaderSimulated ==
  ASSUME TypeInv, Faithful, ReadHeader
  PROVE  Faithful' /\ Simulated
<1>1. /\ call # None /\ call \in Asked /\ file \in Files /\ UNCHANGED file
      /\ pc = "header" /\ chain = << >>
  BY DEF TypeInv, TypeOK, Placed, ReadHeader
<1>2. CASE file.size < HeaderSize
  <2>1. ~Legible
    BY <1>1, <1>2, FileTypes, FormatAssumption DEF Legible
  <2> QED BY <1>1, <1>2, <2>1, ErrorOfBroken DEF ReadHeader
<1>3. CASE ~(file.size < HeaderSize)
  <2>1. /\ at' = file.first /\ pc' = "count" /\ chain' = << >>
        /\ UNCHANGED <<file, status, call, answer>>
    BY <1>1, <1>3 DEF ReadHeader
  <2>2. 1 \in Linked /\ Link[1] = file.first
    BY <1>1, LinkTypes, FormatAssumption DEF Linked
  <2>3. file.size >= HeaderSize /\ call.image \in Nat \ {0}
    BY <1>1, <1>3, FileTypes, FormatAssumption, CallTypes
  <2>4. Len(chain') = 0 /\ DOMAIN chain' = {}
    BY <2>1
  <2>5. OnChain'
    BY <1>1, <2>1, <2>2, <2>3, <2>4, FileSteady DEF OnChain, Walking
  <2>6. Fetched'
    BY <2>1 DEF Fetched, InTiles
  <2> QED BY <1>1, <2>1, <2>5, <2>6, FileSteady, NoAnswer DEF Faithful, Simulated
<1> QED BY <1>2, <1>3

LEMMA AtLink ==
  ASSUME TypeInv, Faithful, call # None, Walking
  PROVE  /\ OnChain /\ file \in Files /\ chain \in Seq(0 .. file.size) /\ Len(chain) \in Nat
         /\ Len(chain) + 1 \in Linked /\ at = Link[Len(chain) + 1]
         /\ Len(chain) + 1 \in 1 .. MaxDirectories /\ at \in 0 .. WordMax
         /\ call \in Asked
         /\ ~Passed(at) => ~Legible
         /\ call.op # "open" => Legible
<1>1. OnChain /\ file \in Files /\ chain \in Seq(0 .. file.size) /\ call \in Asked
  BY DEF Faithful, Walking, TypeInv, TypeOK
<1>2. /\ Len(chain) \in Nat /\ Len(chain) + 1 \in Linked /\ at = Link[Len(chain) + 1]
  BY <1>1 DEF OnChain
<1>3. Len(chain) + 1 \in 1 .. MaxDirectories /\ at \in 0 .. WordMax
  BY <1>1, <1>2, LinkTypes DEF Linked
<1>4. ~Passed(at) => ~Legible
  BY <1>1, <1>2, LegibleImages
<1>5. call.op # "open" => Legible
  BY DEF TypeInv, Placed, Faithful
<1> QED BY <1>1, <1>2, <1>3, <1>4, <1>5

LEMMA ReadCountSimulated ==
  ASSUME TypeInv, Faithful, ReadCount
  PROVE  Faithful' /\ Simulated
<1>1. call # None /\ UNCHANGED file /\ pc = "count" /\ Walking
  BY DEF TypeInv, TypeOK, ReadCount, Walking
<1> DEFINE beyond == EndsBeyond(at, CountField) \/ TableBeyond
<1>2. CASE beyond
  <2>1. ASSUME Readable(at) PROVE FALSE
    <3>1. file \in Files /\ at \in 0 .. WordMax
      BY <1>1, AtLink
    <3>2. at \in 0 .. file.size /\ file.ifd[at] \in Ifd
      BY <2>1, <3>1, AfterIs
    <3>3. Len(M.entries) \in Nat
      BY <3>2, IfdTypes DEF M
    <3>4. /\ at \in Nat /\ file.size \in Nat /\ file.size <= WordMax /\ WordMax \in Nat
          /\ CountField \in Nat /\ NextField \in Nat /\ EntrySize \in Nat
      BY <3>1, FileTypes, FormatAssumption
    <3> DEFINE table == Len(M.entries) * EntrySize
    <3>5. table \in Nat
      BY <3>3, <3>4
    <3>6. at + CountField <= file.size /\ at + CountField + table + NextField <= file.size
      BY <2>1 DEF Readable, M
    <3>7. EndsBeyond(at, CountField) \/ EndsBeyond(at + CountField, table)
      BY <1>2 DEF TableBeyond, TableAt
    <3> HIDE DEF table
    <3> QED BY <3>4, <3>5, <3>6, <3>7 DEF EndsBeyond
  <2>2. ~Legible
    BY <1>1, <2>1, AtLink DEF Passed
  <2>3. Return(Error)
    BY <1>2 DEF ReadCount
  <2> QED BY <1>1, <2>2, <2>3, ErrorOfBroken
<1>3. CASE ~beyond
  <2>1. pc' = "entries" /\ UNCHANGED <<file, status, call, at, entry, chain, answer>>
    BY <1>3 DEF ReadCount, progress
  <2>2. entry = 0
    BY <1>1 DEF TypeInv, Placed
  <2>3. OnChain
    BY <1>1, AtLink
  <2>4. OnChain'
    <3>1. \A a : Passed(a)' <=> Passed(a)
      BY <2>1, FileSteady DEF Passed
    <3>2. Walking'
      BY <2>1 DEF Walking
    <3> QED BY <1>1, <2>1, <2>2, <2>3, <3>1, <3>2, FileSteady DEF OnChain
  <2>5. Fetched'
    BY <2>1 DEF Fetched, InTiles
  <2>6. status = "open" => Legible
    BY DEF Faithful
  <2> QED BY <1>1, <2>1, <2>4, <2>5, <2>6, FileSteady, NoAnswer DEF Faithful, Simulated
<1> QED BY <1>2, <1>3

LEMMA EntryVerdict ==
  ASSUME TypeInv, pc = "entries", NEW e \in Entry
  PROVE  LET bytes == e.count * e.width
             long == bytes > ValueArea
             wild == bytes > WordMax \/ (long /\ Outside(e.offset, bytes))
         IN  EntryFits(e) <=> ~(e.known /\ (wild \/ e.count > MaxTagCount))
<1> DEFINE bytes == e.count * e.width
<1>1. /\ e.count \in Nat /\ e.width \in Nat /\ e.offset \in Nat /\ e.known \in BOOLEAN
  BY DEF Entry
<1>2. bytes \in Nat
  BY <1>1
<1>3. /\ file.size \in Nat /\ file.size <= WordMax /\ WordMax \in Nat
      /\ ValueArea \in Nat /\ ValueArea <= WordMax /\ MaxTagCount \in Nat
  BY FileTypes, FormatAssumption DEF TypeInv, TypeOK
<1>4. EntryFits(e) <=> (e.known => e.count <= MaxTagCount /\ (bytes <= ValueArea \/ e.offset + bytes <= file.size))
  BY DEF EntryFits
<1> HIDE DEF bytes
<1>5. Outside(e.offset, bytes) <=> e.offset + bytes > file.size
  BY <1>1, <1>2, <1>3 DEF Outside
<1> QED BY <1>1, <1>2, <1>3, <1>4, <1>5 DEF bytes

LEMMA ReadEntrySimulated ==
  ASSUME TypeInv, Faithful, ReadEntry
  PROVE  Faithful' /\ Simulated
<1>1. call # None /\ UNCHANGED file /\ pc = "entries" /\ Walking /\ entry \in Nat
      /\ entry < Len(M.entries)
  BY DEF TypeInv, TypeOK, ReadEntry, Walking
<1> DEFINE e == M.entries[entry + 1]
           bytes == e.count * e.width
           long == bytes > ValueArea
           wild == bytes > WordMax \/ (long /\ Outside(e.offset, bytes))
           bad == e.known /\ (wild \/ e.count > MaxTagCount)
<1>2. M \in Ifd /\ Len(M.entries) \in Nat
  BY <1>1, AtIfd
<1>3. entry + 1 \in DOMAIN M.entries /\ e \in Entry
  BY <1>1, <1>2, IfdTypes
<1>4. EntryFits(e) <=> ~bad
  <2> HIDE DEF e
  <2> QED BY <1>1, <1>3, EntryVerdict
<1>5. IF bad THEN Return(Error)
      ELSE /\ entry' = entry + 1
           /\ UNCHANGED <<status, call, pc, at, chain, tiles, decoded, failed, answer>>
  BY DEF ReadEntry
<1>6. CASE bad
  <2>1. ~EntryFits(e)
    BY <1>4, <1>6
  <2>2. ~Readable(at)
    <3> SUFFICES ASSUME Readable(at) PROVE EntryFits(e)
      BY <2>1
    <3>1. \A k \in DOMAIN M.entries : EntryFits(M.entries[k])
      BY DEF Readable, M, EntryFits
    <3> QED BY <1>3, <3>1
  <2>3. ~Legible
    BY <1>1, <2>2, AtLink DEF Passed
  <2>4. Return(Error)
    BY <1>5, <1>6
  <2> QED BY <1>1, <2>3, <2>4, ErrorOfBroken
<1>7. CASE ~bad
  <2>1. /\ entry' = entry + 1 /\ UNCHANGED <<file, status, call, pc, at, chain, answer>>
    BY <1>1, <1>5, <1>7
  <2>2. EntryFits(e)
    BY <1>4, <1>7
  <2>3. OnChain
    BY <1>1, AtLink
  <2>4. OnChain'
    <3>1. \A a : Passed(a)' <=> Passed(a)
      BY <2>1, FileSteady DEF Passed
    <3>2. Walking' = Walking /\ M' = M /\ \A x : EntryFits(x)' <=> EntryFits(x)
      BY <2>1 DEF Walking, M, EntryFits
    <3>3. \A k \in 1 .. entry' : EntryFits(M.entries[k])
      <4>1. \A k \in 1 .. entry : EntryFits(M.entries[k])
        BY <1>1, <2>3 DEF OnChain
      <4>2. \A k \in 1 .. entry' : k \in 1 .. entry \/ k = entry + 1
        BY <1>1, <2>1
      <4> QED BY <2>2, <4>1, <4>2
    <3> HIDE DEF e
    <3> QED BY <1>1, <2>1, <2>3, <3>1, <3>2, <3>3, FileSteady DEF OnChain
  <2>5. Fetched'
    BY <1>1, <2>1 DEF Fetched, InTiles
  <2>6. status = "open" => Legible
    BY DEF Faithful
  <2> QED BY <1>1, <2>1, <2>4, <2>5, <2>6, FileSteady, NoAnswer DEF Faithful, Simulated
<1> QED BY <1>6, <1>7

(* An IFD all entries of which were read can be read, but for its last     *)
(* field.                                                                  *)
LEMMA ParsedVerdict ==
  ASSUME TypeInv, Faithful, call # None, Parsed
  PROVE  Readable(at) <=> ~NextMissing
<1>1. pc = "entries" /\ Walking /\ entry = Len(M.entries)
  BY DEF Parsed, Walking
<1>2. M \in Ifd /\ Len(M.entries) \in Nat /\ TableEnd = TableAt + Len(M.entries) * EntrySize
      /\ TableAt = at + CountField /\ TableEnd \in Nat /\ file.size \in Nat
  BY <1>1, AtIfd
<1>3. at + CountField <= file.size
  BY <1>1 DEF TypeInv, Placed
<1>4. \A k \in DOMAIN M.entries : EntryFits(M.entries[k])
  <2>1. \A k \in 1 .. Len(M.entries) : EntryFits(M.entries[k])
    BY <1>1, AtLink DEF OnChain
  <2>2. DOMAIN M.entries = 1 .. Len(M.entries)
    BY <1>2, IfdTypes
  <2> QED BY <2>1, <2>2
<1>5. NextField \in Nat
  BY FormatAssumption
<1>6. Readable(at) <=> TableEnd + NextField <= file.size
  BY <1>2, <1>3, <1>4 DEF Readable, M, EntryFits
<1> QED BY <1>2, <1>5, <1>6 DEF NextMissing

(* The chain with the IFD that was just parsed. *)
LEMMA LongerChain ==
  ASSUME TypeInv, Faithful, call # None, Walking, Passed(at), UNCHANGED file,
         chain' = Append(chain, at)
  PROVE  /\ Len(chain') = Len(chain) + 1 /\ DOMAIN chain' = 1 .. Len(chain) + 1
         /\ (\A k \in DOMAIN chain : k \in Linked /\ chain[k] = Link[k] /\ Passed(chain[k]))'
<1>1. /\ OnChain /\ chain \in Seq(0 .. file.size) /\ Len(chain) \in Nat
      /\ Len(chain) + 1 \in Linked /\ at = Link[Len(chain) + 1]
  BY AtLink
<1>2. /\ Len(chain') = Len(chain) + 1
      /\ DOMAIN chain' = 1 .. Len(chain) + 1 /\ DOMAIN chain = 1 .. Len(chain)
      /\ \A k \in 1 .. Len(chain) : chain'[k] = chain[k]
      /\ chain'[Len(chain) + 1] = at
  BY <1>1, AppendParts
<1>3. Link' = Link /\ Linked' = Linked /\ \A a : Passed(a)' <=> Passed(a)
  BY FileSteady DEF Passed
<1>4. \A k \in 1 .. Len(chain) : k \in Linked /\ chain[k] = Link[k] /\ Passed(chain[k])
  BY <1>1, <1>2 DEF OnChain
<1>5. ASSUME NEW k \in 1 .. Len(chain) + 1
      PROVE  k \in Linked /\ chain'[k] = Link[k] /\ Passed(chain'[k])
  <2>1. CASE k = Len(chain) + 1
    BY <1>1, <1>2, <2>1
  <2>2. CASE k # Len(chain) + 1
    <3>1. k \in 1 .. Len(chain)
      BY <1>1, <2>2
    <3> QED BY <1>2, <1>4, <3>1
  <2> QED BY <2>1, <2>2
<1> QED BY <1>2, <1>3, <1>5

LEMMA GoOnFaithful ==
  ASSUME TypeInv, Faithful, call # None, pc = "entries", UNCHANGED file, GoOn,
         Passed(at), M.next # 0, Len(chain) + 1 # MaxDirectories,
         call.op = "parallel" => Len(chain) + 1 < call.image
  PROVE  Faithful' /\ Simulated
<1>1. Walking /\ Walking' /\ pc' = "count" /\ at' = M.next /\ chain' = Append(chain, at)
      /\ UNCHANGED <<file, status, call, answer>>
  BY DEF Walking, GoOn
<1>2. /\ file \in Files /\ Len(chain) \in Nat /\ Len(chain) + 1 \in Linked
      /\ Len(chain) + 1 \in 1 .. MaxDirectories /\ at = Link[Len(chain) + 1] /\ OnChain
  BY <1>1, AtLink
<1>3. (Len(chain) + 1) + 1 \in Linked /\ Link[(Len(chain) + 1) + 1] = M.next
  <2>1. Len(chain) + 1 < MaxDirectories
    BY <1>2, FormatAssumption
  <2> QED BY <1>2, <2>1, LinkAfter DEF Passed, M
<1>4. /\ Len(chain') = Len(chain) + 1
      /\ (\A k \in DOMAIN chain : k \in Linked /\ chain[k] = Link[k] /\ Passed(chain[k]))'
  BY <1>1, LongerChain
<1>5. OnChain'
  <2>1. file'.size >= HeaderSize /\ pc' # "entries"
    BY <1>1, <1>2 DEF OnChain
  <2>2. Len(chain') + 1 \in Linked' /\ at' = Link'[Len(chain') + 1]
    BY <1>1, <1>3, <1>4, FileSteady
  <2>3. call'.op = "parallel" => Len(chain') < call'.image
    BY <1>1, <1>4
  <2> QED BY <1>4, <2>1, <2>2, <2>3 DEF OnChain
<1>6. Fetched'
  BY <1>1 DEF Fetched, InTiles
<1>7. status = "open" => Legible
  BY DEF Faithful
<1> QED BY <1>1, <1>5, <1>6, <1>7, FileSteady, NoAnswer DEF Faithful, Simulated

LEMMA ToTilesFaithful ==
  ASSUME TypeInv, Faithful, call # None, pc = "entries", UNCHANGED file, ToTiles, Passed(at)
  PROVE  Faithful' /\ Simulated
<1>1. Walking /\ ~Walking' /\ pc' \in {"tiles", "fetch"} /\ chain' = Append(chain, at)
      /\ UNCHANGED <<file, status, call, answer, tiles>>
  BY DEF Walking, ToTiles
<1>2. OnChain
  BY <1>1, AtLink
<1>3. (\A k \in DOMAIN chain : k \in Linked /\ chain[k] = Link[k] /\ Passed(chain[k]))'
  BY <1>1, LongerChain
<1>4. OnChain'
  <2>1. pc' # "entries"
    BY <1>1
  <2> QED BY <1>1, <1>2, <1>3, <2>1 DEF OnChain
<1>5. Fetched'
  <2>1. tiles' = << >>
    BY <1>1 DEF TypeInv, Placed, InTiles
  <2>2. DOMAIN tiles' = {} /\ pc' # "pool"
    BY <1>1, <2>1
  <2> QED BY <2>2 DEF Fetched
<1>6. status = "open" => Legible
  BY DEF Faithful
<1> QED BY <1>1, <1>4, <1>5, <1>6, FileSteady, NoAnswer DEF Faithful, Simulated

(* Where the walk is at the last link, it has seen all there are.          *)
LEMMA LastLink ==
  ASSUME TypeInv, Faithful, call # None, Walking,
         M.next = 0 \/ Len(chain) + 1 = MaxDirectories
  PROVE  Linked = 1 .. Len(chain) + 1
<1>1. /\ file \in Files /\ Len(chain) \in Nat /\ Len(chain) + 1 \in Linked
      /\ Len(chain) + 1 \in 1 .. MaxDirectories /\ at = Link[Len(chain) + 1]
  BY AtLink
<1>2. PICK d \in 1 .. MaxDirectories : Linked = 1 .. d
  BY <1>1, LinkedIsPrefix
<1>3. (Len(chain) + 1) + 1 \notin Linked
  <2> SUFFICES ASSUME (Len(chain) + 1) + 1 \in Linked PROVE FALSE
    OBVIOUS
  <2>1. (Len(chain) + 1) + 1 \in 1 .. MaxDirectories /\ MaxDirectories \in Nat
    BY FormatAssumption DEF Linked
  <2>2. M.next = 0
    BY <1>1, <2>1
  <2>3. /\ (Len(chain) + 1) + 1 # 1 /\ ((Len(chain) + 1) + 1) - 1 = Len(chain) + 1
    BY <1>1
  <2>4. Link[(Len(chain) + 1) + 1] = file.ifd[at].next /\ Link[(Len(chain) + 1) + 1] # 0
    <3> DEFINE n == (Len(chain) + 1) + 1
    <3>1. Link[n] = file.ifd[Link[n - 1]].next /\ Link[n] # 0
      BY <1>1, <2>3, LinkBefore
    <3> QED BY <1>1, <2>3, <3>1
  <2> QED BY <2>2, <2>4 DEF M
<1>4. d = Len(chain) + 1
  BY <1>1, <1>2, <1>3
<1> QED BY <1>2, <1>4

LEMMA FollowChainSimulated ==
  ASSUME TypeInv, Faithful, FollowChain
  PROVE  Faithful' /\ Simulated
<1>1. /\ call # None /\ UNCHANGED file /\ pc = "entries" /\ Walking /\ Parsed
      /\ call.op # "parallel"
  BY DEF TypeInv, TypeOK, FollowChain, Parsed, Walking
<1>2. /\ OnChain /\ file \in Files /\ call \in Asked /\ Len(chain) \in Nat
      /\ Len(chain) + 1 \in Linked /\ at = Link[Len(chain) + 1]
      /\ ~Passed(at) => ~Legible
      /\ call.op # "open" => Legible
  BY <1>1, AtLink
<1> DEFINE broken == NextMissing \/ ~M.sound \/ (M.next # 0 /\ TurnsBack)
<1>3. Passed(at) <=> ~broken
  <2>1. M.next \in Nat /\ at \in Nat
    BY <1>1, AtIfd DEF TypeInv, TypeOK
  <2>2. Readable(at) <=> ~NextMissing
    BY <1>1, ParsedVerdict
  <2>3. TurnsBack <=> ~(M.next > at)
    BY <2>1 DEF TurnsBack
  <2> QED BY <2>2, <2>3 DEF Passed, M
<1>4. CASE broken
  <2>1. Return(Error)
    BY <1>4 DEF FollowChain
  <2> QED BY <1>1, <1>2, <1>3, <1>4, <2>1, ErrorOfBroken
<1>5. CASE ~broken /\ ~IsLast
  <2>1. GoOn /\ M.next # 0 /\ Len(chain) + 1 # MaxDirectories
    BY <1>5 DEF FollowChain, IsLast
  <2> QED BY <1>1, <1>3, <1>5, <2>1, GoOnFaithful
<1>6. CASE ~broken /\ IsLast /\ call.op = "open"
  <2>1. Return(IF Scenic THEN Ok(<< >>) ELSE Error)
    BY <1>6 DEF FollowChain
  <2>2. Linked = 1 .. Len(chain) + 1
    BY <1>1, <1>6, LastLink DEF IsLast
  <2>3. DOMAIN chain = 1 .. Len(chain)
    BY <1>1 DEF TypeInv, TypeOK
  <2>4. \A n \in Linked : n \in DOMAIN chain \/ n = Len(chain) + 1
    BY <1>2, <2>2, <2>3
  <2>5. \A n \in DOMAIN chain : n \in Linked /\ chain[n] = Link[n] /\ Passed(chain[n])
    BY <1>2 DEF OnChain
  <2>6. ASSUME NEW n \in Linked PROVE Passed(Link[n])
    <3>1. CASE n \in DOMAIN chain
      BY <2>5, <3>1
    <3>2. CASE n = Len(chain) + 1
      BY <1>2, <1>3, <1>6, <3>2
    <3> QED BY <2>4, <3>1, <3>2
  <2>7. Scenic <=> \A n \in Linked : file.ifd[Link[n]].scenic
    <3>1. ASSUME Scenic, NEW n \in Linked PROVE file.ifd[Link[n]].scenic
      <4>1. CASE n \in DOMAIN chain
        BY <2>5, <3>1, <4>1 DEF Scenic
      <4>2. CASE n = Len(chain) + 1
        BY <1>2, <3>1, <4>2 DEF Scenic, M
      <4> QED BY <2>4, <4>1, <4>2
    <3>2. ASSUME \A n \in Linked : file.ifd[Link[n]].scenic PROVE Scenic
      <4>1. M.scenic
        BY <1>2, <3>2 DEF M
      <4>2. \A n \in DOMAIN chain : file.ifd[chain[n]].scenic
        BY <2>5, <3>2
      <4> QED BY <4>1, <4>2 DEF Scenic
    <3>3. Scenic \in BOOLEAN
      BY DEF Scenic
    <3> QED BY <3>1, <3>2, <3>3
  <2>8. file.size >= HeaderSize
    BY <1>2 DEF OnChain
  <2>9. Scenic <=> Legible
    BY <2>6, <2>7, <2>8 DEF Legible, Passed
  <2>10. CASE Scenic
    <3>0. << >> \in Seq(Payloads)
      OBVIOUS
    <3>1. Return(Ok(<< >>)) /\ Legible /\ Ok(<< >>) \in Answer
      BY <2>1, <2>9, <2>10, <3>0, AnswerTypes
    <3>2. Promised!Next
      BY <1>1, <1>6, <3>1, AnswerOpen
    <3> QED BY <1>1, <3>1, <3>2, AfterReturn DEF Simulated
  <2>11. CASE ~Scenic
    BY <1>1, <2>1, <2>9, <2>11, ErrorOfBroken
  <2> QED BY <2>10, <2>11
<1>7. CASE ~broken /\ IsLast /\ call.op # "open" /\ call.image > Len(chain) + 1
  <2>1. Return(Error) /\ Error \in Answer /\ ~Error.ok /\ Error.tiles = << >>
    BY <1>7, AnswerTypes DEF FollowChain, Error
  <2>2. call.image \notin Linked
    <3>1. Linked = 1 .. Len(chain) + 1
      BY <1>1, <1>7, LastLink DEF IsLast
    <3>2. call.image \in Nat
      BY <1>2, CallTypes
    <3> QED BY <1>2, <1>7, <3>1, <3>2
  <2>3. Promised!Next
    BY <1>1, <1>2, <1>7, <2>1, <2>2, AnswerRead
  <2> QED BY <1>1, <2>1, <2>3, AfterReturn DEF Simulated
<1>8. CASE ~broken /\ IsLast /\ call.op # "open" /\ ~(call.image > Len(chain) + 1)
  <2>1. ToTiles
    BY <1>8 DEF FollowChain
  <2> QED BY <1>1, <1>3, <1>8, <2>1, ToTilesFaithful
<1> QED BY <1>4, <1>5, <1>6, <1>7, <1>8

LEMMA FollowDirectSimulated ==
  ASSUME TypeInv, Faithful, FollowDirect, Reachable
  PROVE  Faithful' /\ Simulated
<1>1. /\ call # None /\ UNCHANGED file /\ pc = "entries" /\ Walking /\ Parsed
      /\ call.op = "parallel"
  BY DEF TypeInv, TypeOK, FollowDirect, Parsed, Walking
<1>2. /\ OnChain /\ file \in Files /\ call \in Asked /\ Len(chain) \in Nat
      /\ Len(chain) + 1 \in Linked
      /\ Legible /\ Passed(at)
  BY <1>1, AtLink
<1>3. ~NextMissing /\ M.sound
  BY <1>1, <1>2, ParsedVerdict DEF Passed, M
<1>4. /\ call.image \in Nat \ {0} /\ call.image <= MaxDirectories /\ MaxDirectories \in Nat
      /\ Len(chain) + 1 <= call.image
  <2>1. call.image \in Nat \ {0}
    BY <1>2, CallTypes
  <2>2. Len(chain) < call.image
    BY <1>1, <1>2 DEF OnChain
  <2> QED BY <1>1, <1>2, <2>1, <2>2, FormatAssumption DEF Reachable
<1>5. CASE Len(chain) + 1 = call.image
  <2>1. ToTiles
    BY <1>3, <1>5 DEF FollowDirect
  <2> QED BY <1>1, <1>2, <2>1, ToTilesFaithful
<1>6. CASE Len(chain) + 1 # call.image /\ M.next = 0
  <2>1. Return(Error) /\ Error \in Answer /\ ~Error.ok /\ Error.tiles = << >>
    BY <1>6, AnswerTypes DEF FollowDirect, Error
  <2>2. call.image \notin Linked
    <3>1. Linked = 1 .. Len(chain) + 1
      BY <1>1, <1>6, LastLink
    <3> QED BY <1>2, <1>4, <1>6, <3>1
  <2>3. Promised!Next
    BY <1>1, <1>2, <2>1, <2>2, AnswerRead
  <2> QED BY <1>1, <2>1, <2>3, AfterReturn DEF Simulated
<1>7. CASE Len(chain) + 1 # call.image /\ M.next # 0
  <2>1. GoOn
    BY <1>3, <1>7 DEF FollowDirect
  <2>2. Len(chain) + 1 < call.image /\ Len(chain) + 1 # MaxDirectories
    BY <1>2, <1>4, <1>7
  <2> QED BY <1>1, <1>2, <1>7, <2>1, <2>2, GoOnFaithful
<1> QED BY <1>5, <1>6, <1>7

------------------------------------------------------------------------------
(* The pixels.                                                             *)

LEMMA AtImage ==
  ASSUME TypeInv, Faithful, InTiles
  PROVE  /\ Legible /\ call # None /\ call \in Asked /\ call.op # "open" /\ file \in Files
         /\ call.image \in Linked /\ Directory \in Ifd /\ Images[call.image] = ImageAt(Directory)
         /\ Promised!Needed(call, Images[call.image]) = Wanted
         /\ OnChain /\ Fetched
<1>1. /\ Directory \in Ifd /\ call # None /\ call \in Asked /\ call.op # "open"
      /\ call.image \in DOMAIN chain /\ file \in Files
  BY DirectoryIfd
<1>2. Legible
  BY <1>1 DEF TypeInv, Placed, Faithful
<1>3. pc # "header"
  BY DEF InTiles
<1>4. OnChain /\ Fetched
  BY <1>1, <1>3 DEF Faithful
<1>5. call.image \in Linked /\ chain[call.image] = Link[call.image]
  BY <1>1, <1>4 DEF OnChain
<1>6. Images[call.image] = ImageAt(Directory)
  BY <1>1, <1>2, <1>5, LegibleImages DEF Directory
<1> QED BY <1>1, <1>2, <1>4, <1>5, <1>6 DEF Wanted

(* What is wanted does not change while tiles are read. *)
LEMMA WantedSteady ==
  ASSUME UNCHANGED <<file, call, chain>>
  PROVE  Wanted' = Wanted /\ Directory' = Directory
<1>1. Directory' = Directory
  BY DEF Directory
<1>2. ImageAt(Directory)' = ImageAt(Directory)
  BY <1>1 DEF ImageAt, Outside, Columns, Rows, CeilDiv
<1>3. \A c, m : Promised!Needed(c, m)' = Promised!Needed(c, m)
  BY DEF Promised!Needed, Promised!Grid, Promised!Cell
<1> QED BY <1>1, <1>2 DEF Wanted, Promised!Needed, Promised!Grid, Promised!Cell

LEMMA StayInTiles ==
  ASSUME TypeInv, Faithful, InTiles, InTiles',
         UNCHANGED <<file, status, call, at, entry, chain, answer>>, Fetched'
  PROVE  Faithful' /\ Simulated
<1>1. OnChain /\ (status = "open" => Legible)
  BY AtImage DEF Faithful
<1>2. ~Walking' /\ pc' # "entries"
  BY DEF Walking, InTiles
<1>3. Link' = Link /\ Linked' = Linked /\ (\A a : Passed(a)' <=> Passed(a)) /\ (Legible' <=> Legible)
  BY FileSteady DEF Passed
<1>4. OnChain'
  BY <1>1, <1>2, <1>3 DEF OnChain
<1> QED BY <1>1, <1>3, <1>4, NoAnswer DEF Faithful, Simulated

(* One more of the tiles wanted. *)
LEMMA OneMore ==
  ASSUME TypeInv, Faithful, InTiles, pc # "pool", UNCHANGED <<file, call, chain, pc>>,
         NEW tile, tiles' = Append(tiles, tile),
         Len(tiles) + 1 \in DOMAIN Wanted, tile = Wanted[Len(tiles) + 1]
  PROVE  Fetched'
<1>1. Wanted' = Wanted
  BY WantedSteady
<1>2. tiles \in Seq(Payloads \union {Bad}) /\ Fetched
  BY AtImage DEF TypeInv, TypeOK
<1>3. \A k \in DOMAIN tiles : k \in DOMAIN Wanted /\ tiles[k] = Wanted[k]
  BY <1>2 DEF Fetched
<1>4. /\ DOMAIN tiles' = 1 .. Len(tiles) + 1 /\ DOMAIN tiles = 1 .. Len(tiles) /\ Len(tiles) \in Nat
      /\ \A k \in 1 .. Len(tiles) : tiles'[k] = tiles[k]
      /\ tiles'[Len(tiles) + 1] = tile
  BY <1>2
<1>5. ASSUME NEW k \in DOMAIN tiles' PROVE k \in DOMAIN Wanted /\ tiles'[k] = Wanted[k]
  <2>1. CASE k = Len(tiles) + 1
    BY <1>4, <2>1
  <2>2. CASE k # Len(tiles) + 1
    <3>1. k \in 1 .. Len(tiles)
      BY <1>4, <2>2
    <3> QED BY <1>3, <1>4, <3>1
  <2> QED BY <2>1, <2>2
<1> QED BY <1>1, <1>5 DEF Fetched

(* All the tiles wanted, and none is bad. *)
LEMMA AnswerAll ==
  ASSUME TypeInv, Faithful, InTiles, UNCHANGED file, Return(Ok(tiles)), Ok(tiles) \in Answer,
         DOMAIN Wanted = DOMAIN tiles, Wanted \in Seq(Payloads \union {Bad}),
         \A k \in DOMAIN tiles : tiles[k] # Bad
  PROVE  Faithful' /\ Simulated
<1>1. /\ tiles \in Seq(Payloads \union {Bad})
      /\ \A k \in DOMAIN tiles : tiles[k] = Wanted[k]
  BY AtImage DEF TypeInv, TypeOK, Fetched
<1>2. tiles = Wanted
  <2>1. tiles = [k \in DOMAIN tiles |-> tiles[k]] /\ Wanted = [k \in DOMAIN Wanted |-> Wanted[k]]
    BY <1>1
  <2> QED BY <1>1, <2>1
<1>3. Promised!Have(Wanted)
  BY <1>2 DEF Promised!Have
<1>4. Ok(tiles).ok /\ Ok(tiles).tiles = Wanted
  BY <1>2 DEF Ok
<1>5. Promised!Next
  BY <1>3, <1>4, AtImage, AnswerRead
<1> QED BY <1>4, <1>5, AtImage, AfterReturn DEF Simulated

(* One of the tiles wanted is bad. *)
LEMMA AnswerNone ==
  ASSUME TypeInv, Faithful, InTiles, UNCHANGED file, NEW k \in Nat, Return(TileError(k)),
         NEW j \in DOMAIN Wanted, Wanted[j] = Bad
  PROVE  Faithful' /\ Simulated
<1>1. ~Promised!Have(Wanted)
  BY DEF Promised!Have
<1>2. TileError(k) \in Answer /\ ~TileError(k).ok /\ TileError(k).tiles = << >>
  BY AnswerTypes DEF TileError
<1>3. Promised!Next
  BY <1>1, <1>2, AtImage, AnswerRead
<1> QED BY <1>2, <1>3, AtImage, AfterReturn DEF Simulated

(* The tiles read_tile is asked for. *)
ColumnOf(k) == IF call.op = "tile" THEN call.column ELSE k % Columns(Directory)
RowOf(k) == IF call.op = "tile" THEN call.row ELSE k \div Columns(Directory)

LEMMA WantedGrid ==
  ASSUME TypeInv, Faithful, pc = "tiles"
  PROVE  /\ Expected \in Nat /\ DOMAIN Wanted = 1 .. Expected
         /\ Wanted \in Seq(Payloads \union {Bad})
         /\ \A k \in Nat : k < Expected =>
              /\ ColumnOf(k) \in Nat /\ RowOf(k) \in Nat
              /\ Wanted[k + 1] = TileAt(Directory, ColumnOf(k), RowOf(k))
<1> DEFINE m == Directory
           i == ImageAt(m)
<1>1. /\ InTiles /\ call \in Asked /\ call.op \in {"pixels", "tile"} /\ m \in Ifd
      /\ call.column \in Nat /\ call.row \in Nat
  <2>1. InTiles
    BY DEF InTiles
  <2>2. call.op # "parallel"
    BY DEF TypeInv, Placed
  <2> QED BY <2>1, <2>2, AtImage, CallTypes
<1>2. /\ Columns(m) \in Nat /\ Rows(m) \in Nat /\ Columns(m) * Rows(m) \in Nat
      /\ i.columns = Columns(m) /\ i.rows = Rows(m)
  BY <1>1, GridNat, ImageTypes
<1>3. ASSUME NEW column \in Nat, NEW row \in Nat
      PROVE  /\ Promised!Cell(i, column, row) = TileAt(m, column, row)
             /\ TileAt(m, column, row) \in Payloads \union {Bad}
  <2>1. Promised!Cell(i, column, row) = TileAt(m, column, row)
    BY <1>1, CellIs
  <2>2. TileAt(m, column, row) # Bad => TileAt(m, column, row) \in Payloads
    BY <1>1, TileAtTypes
  <2> QED BY <2>1, <2>2
<1>4. CASE call.op = "tile"
  <2>1. Expected = 1 /\ Wanted = <<Promised!Cell(i, call.column, call.row)>>
    BY <1>4 DEF Expected, Wanted, Promised!Needed
  <2>2. /\ DOMAIN Wanted = 1 .. 1 /\ Wanted[1] = TileAt(m, call.column, call.row)
        /\ Wanted \in Seq(Payloads \union {Bad})
    BY <1>1, <1>3, <2>1
  <2>3. \A k \in Nat : ColumnOf(k) = call.column /\ RowOf(k) = call.row
    BY <1>4 DEF ColumnOf, RowOf
  <2>4. \A k \in Nat : k < 1 => k + 1 = 1
    OBVIOUS
  <2> HIDE DEF i
  <2> QED BY <1>1, <2>1, <2>2, <2>3, <2>4
<1>5. CASE call.op = "pixels"
  <2> DEFINE c == Columns(m)
             n == Columns(m) * Rows(m)
  <2>1. Expected = n /\ n \in Nat
    BY <1>2, <1>5 DEF Expected
  <2>2. Wanted = [k \in 1 .. n |-> Promised!Cell(i, (k - 1) % c, (k - 1) \div c)]
    BY <1>2, <1>5 DEF Wanted, Promised!Needed, Promised!Grid
  <2>3. ASSUME NEW k \in Nat, k < n
        PROVE  /\ k % c \in Nat /\ k \div c \in Nat /\ k + 1 \in 1 .. n
               /\ ColumnOf(k) = k % c /\ RowOf(k) = k \div c
    <3>1. c # 0
      BY <1>2, <2>1, <2>3
    <3>2. k % c \in Nat /\ k \div c \in Nat
      BY <1>2, <3>1, DivModNat
    <3>3. k + 1 \in 1 .. n
      BY <2>1, <2>3
    <3>4. ColumnOf(k) = k % c /\ RowOf(k) = k \div c
      BY <1>5 DEF ColumnOf, RowOf
    <3> QED BY <3>2, <3>3, <3>4
  <2>4. ASSUME NEW k \in Nat, k < n
        PROVE  Wanted[k + 1] = Promised!Cell(i, k % c, k \div c)
    <3>1. k + 1 \in 1 .. n /\ (k + 1) - 1 = k
      BY <2>3, <2>4
    <3> HIDE DEF i, c, n
    <3> QED BY <2>2, <3>1
  <2>5. ASSUME NEW k \in Nat, k < n
        PROVE  Wanted[k + 1] = TileAt(m, k % c, k \div c) /\ Wanted[k + 1] \in Payloads \union {Bad}
    BY <1>3, <2>3, <2>4, <2>5
  <2>6. DOMAIN Wanted = 1 .. n
    <3> HIDE DEF i, c, n
    <3> QED BY <2>2
  <2>7. Wanted \in Seq(Payloads \union {Bad})
    <3>1. ASSUME NEW j \in 1 .. n PROVE Wanted[j] \in Payloads \union {Bad}
      <4>1. j - 1 \in Nat /\ j - 1 < n /\ (j - 1) + 1 = j
        BY <2>1
      <4>2. Wanted[(j - 1) + 1] \in Payloads \union {Bad}
        BY <2>5, <4>1
      <4> QED BY <4>1, <4>2
    <3>2. Wanted = [j \in 1 .. n |-> Wanted[j]]
      <4> HIDE DEF i, c, n
      <4> QED BY <2>2
    <3>3. Wanted \in [1 .. n -> Payloads \union {Bad}]
      <4> HIDE DEF n
      <4> QED BY <3>1, <3>2
    <3> QED BY <2>1, <3>3
  <2> HIDE DEF i, c, n
  <2> QED BY <2>1, <2>3, <2>5, <2>6, <2>7 DEF c
<1> QED BY <1>1, <1>4, <1>5

LEMMA ReadTileSimulated ==
  ASSUME TypeInv, Faithful, ReadTile
  PROVE  Faithful' /\ Simulated
<1> DEFINE m == Directory
           k == Len(tiles)
           column == ColumnOf(k)
           row == RowOf(k)
           range == m.table[Linear(m, column, row) + 1]
<1>1. /\ pc = "tiles" /\ InTiles /\ UNCHANGED file
      /\ tiles \in Seq(Payloads) /\ k \in Nat /\ k <= Expected
      /\ Expected = IF call.op = "tile" THEN 1 ELSE Columns(m) * Rows(m)
  BY DEF TypeInv, Placed, ReadTile, InTiles, Expected
<1>2. \/ k = Expected /\ Return(Ok(tiles))
      \/ k # Expected /\ TileAt(m, column, row) = Bad /\ Return(TileError(k + 1))
      \/ k # Expected /\ TileAt(m, column, row) # Bad /\ Take(range)
  BY <1>1 DEF ReadTile, ColumnOf, RowOf
<1>3. /\ Expected \in Nat /\ DOMAIN Wanted = 1 .. Expected
      /\ Wanted \in Seq(Payloads \union {Bad})
  BY <1>1, WantedGrid
<1>4. CASE k = Expected /\ Return(Ok(tiles))
  <2>1. DOMAIN tiles = 1 .. Expected /\ (\A j \in DOMAIN tiles : tiles[j] \in Payloads)
    <3>1. DOMAIN tiles = 1 .. Len(tiles) /\ (\A j \in DOMAIN tiles : tiles[j] \in Payloads)
      BY <1>1, ElementIn
    <3>2. Len(tiles) = Expected
      BY <1>4
    <3> HIDE DEF k
    <3> QED BY <3>1, <3>2
  <2>2. \A j \in DOMAIN tiles : tiles[j] # Bad
    BY <2>1, FormatAssumption
  <2> QED BY <1>1, <1>3, <1>4, <2>1, <2>2, AnswerTypes, AnswerAll
<1>5. ASSUME k # Expected
      PROVE  /\ k + 1 \in 1 .. Expected /\ column \in Nat /\ row \in Nat
             /\ Wanted[k + 1] = TileAt(m, column, row)
  <2>1. k < Expected
    BY <1>1, <1>3, <1>5
  <2>2. k + 1 \in 1 .. Expected
    BY <1>1, <1>3, <2>1
  <2> QED BY <1>1, <2>1, <2>2, WantedGrid
<1>6. CASE k # Expected /\ TileAt(m, column, row) = Bad /\ Return(TileError(k + 1))
  <2>1. k + 1 \in Nat /\ k + 1 \in DOMAIN Wanted /\ Wanted[k + 1] = Bad
    BY <1>1, <1>3, <1>5, <1>6
  <2> QED BY <1>1, <1>6, <2>1, AnswerNone
<1>7. CASE k # Expected /\ TileAt(m, column, row) # Bad /\ Take(range)
  <2>1. /\ tiles' = Append(tiles, range.payload)
        /\ UNCHANGED <<file, status, call, pc, at, entry, chain, answer>>
    BY <1>1, <1>7 DEF Take
  <2>2. range.payload = TileAt(m, column, row)
    BY <1>1, <1>5, <1>7, TileAtTypes
  <2>3. k + 1 \in DOMAIN Wanted /\ range.payload = Wanted[k + 1]
    BY <1>3, <1>5, <1>7, <2>2
  <2>4. pc # "pool"
    BY <1>1
  <2> HIDE DEF range
  <2>5. Fetched'
    BY <1>1, <2>1, <2>3, <2>4, OneMore
  <2>6. InTiles'
    BY <1>1, <2>1 DEF InTiles
  <2> QED BY <1>1, <2>1, <2>5, <2>6, StayInTiles
<1> QED BY <1>2, <1>4, <1>6, <1>7

(* A table as long as the grid is the grid. *)
LEMMA GridIsTable ==
  ASSUME NEW m \in Ifd, Len(m.table) = Columns(m) * Rows(m)
  PROVE  Promised!Grid(ImageAt(m)) = ImageAt(m).table
<1> DEFINE i == ImageAt(m)
           c == Columns(m)
           n == Columns(m) * Rows(m)
<1>1. c \in Nat /\ Rows(m) \in Nat /\ n \in Nat
  BY GridNat
<1>2. /\ i \in Promised!Image /\ i.columns = c /\ i.rows = Rows(m)
      /\ Len(i.table) = n /\ DOMAIN i.table = 1 .. n
  BY ImageTypes
<1>3. i.table \in Seq(Payloads \union {Bad})
  BY <1>2 DEF Promised!Image
<1>4. Promised!Grid(i) = [k \in 1 .. n |-> Promised!Cell(i, (k - 1) % c, (k - 1) \div c)]
  BY <1>2 DEF Promised!Grid
<1>5. ASSUME NEW k \in 1 .. n
      PROVE  Promised!Cell(i, (k - 1) % c, (k - 1) \div c) = i.table[k]
  <2>1. k - 1 \in Nat /\ k - 1 < c * Rows(m)
    BY <1>1, <1>5
  <2>2. /\ (k - 1) % c < c /\ (k - 1) \div c < Rows(m)
        /\ ((k - 1) \div c) * c + ((k - 1) % c) = k - 1
        /\ (k - 1) % c \in Nat /\ (k - 1) \div c \in Nat
    BY <1>1, <2>1, PlaceOf
  <2> DEFINE x == (k - 1) % c
             y == (k - 1) \div c
  <2>6. y * c + x = k - 1 /\ x \in Nat /\ y \in Nat
    BY <2>2, Zenon
  <2>3. y * i.columns + x + 1 = k
    <3> HIDE DEF x, y, i, c
    <3>1. y * c + x = k - 1 /\ x \in Nat /\ y \in Nat /\ c \in Nat
      BY <1>1, <2>6
    <3>2. y * c \in Nat
      BY <3>1
    <3> QED BY <1>2, <3>1, <3>2, <2>1
  <2>4. x < i.columns /\ y < i.rows /\ k <= Len(i.table)
    BY <1>1, <1>2, <1>5, <2>2
  <2> HIDE DEF x, y, i, c, n
  <2>5. Promised!Cell(i, x, y) = i.table[k]
    BY <2>3, <2>4 DEF Promised!Cell
  <2> QED BY <2>5 DEF x, y
<1>6. i.table = [k \in 1 .. n |-> i.table[k]]
  BY <1>2, <1>3
<1> HIDE DEF i, c, n
<1>7. Promised!Grid(i) = i.table
  BY <1>4, <1>5, <1>6
<1> QED BY <1>7 DEF i

(* The tiles read_all_tiles_parallel is asked for. *)
LEMMA WantedTable ==
  ASSUME Fitting, TypeInv, Faithful, pc \in {"fetch", "pool"}
  PROVE  /\ Directory \in Ifd /\ Len(Directory.table) \in Nat
         /\ DOMAIN Wanted = 1 .. Len(Directory.table)
         /\ Wanted \in Seq(Payloads \union {Bad})
         /\ \A k \in 1 .. Len(Directory.table) :
              Wanted[k] = IF Outside(Directory.table[k].offset, Directory.table[k].count) THEN Bad
                          ELSE Directory.table[k].payload
<1>1. InTiles /\ call.op = "parallel"
  BY DEF InTiles, TypeInv, Placed
<1>2. Directory \in Ifd
  BY <1>1, AtImage
<1>3. Wanted = ImageAt(Directory).table
  <2>1. /\ call \in Asked /\ file \in Files /\ call.image \in DOMAIN chain
        /\ Passed(chain[call.image]) /\ chain \in Seq(0 .. file.size)
    BY <1>1, AtImage, DirectoryIfd DEF OnChain, TypeInv, TypeOK
  <2>2. chain[call.image] \in 0 .. file.size
    BY <2>1, ElementIn
  <2>4. Directory.sound
    BY <2>1 DEF Passed, Directory
  <2>3. Len(Directory.table) = Columns(Directory) * Rows(Directory)
    BY <1>1, <2>1, <2>2, <2>4 DEF Fitting, Directory
  <2>5. Wanted = Promised!Grid(ImageAt(Directory))
    BY <1>1 DEF Wanted, Promised!Needed
  <2> QED BY <1>2, <2>3, <2>5, GridIsTable
<1>4. ImageAt(Directory) \in Promised!Image
  BY <1>2, ImageTypes
<1>5. Wanted \in Seq(Payloads \union {Bad})
  BY <1>3, <1>4 DEF Promised!Image
<1> QED BY <1>2, <1>3, <1>5, ImageTypes, IfdTypes

LEMMA FetchTileSimulated ==
  ASSUME Fitting, TypeInv, Faithful, FetchTile
  PROVE  Faithful' /\ Simulated
<1> DEFINE k == Len(tiles) + 1
           range == Directory.table[k]
<1>1. pc = "fetch" /\ InTiles /\ UNCHANGED file /\ Len(tiles) < Len(Directory.table)
  BY DEF FetchTile, InTiles
<1>2. /\ Len(Directory.table) \in Nat /\ DOMAIN Wanted = 1 .. Len(Directory.table)
      /\ \A j \in 1 .. Len(Directory.table) :
           Wanted[j] = IF Outside(Directory.table[j].offset, Directory.table[j].count) THEN Bad
                       ELSE Directory.table[j].payload
  BY <1>1, WantedTable
<1>3. Len(tiles) \in Nat
  BY DEF TypeInv, TypeOK
<1>4. k \in Nat /\ k \in DOMAIN Wanted
      /\ Wanted[k] = IF Outside(range.offset, range.count) THEN Bad ELSE range.payload
  BY <1>1, <1>2, <1>3
<1>5. CASE Outside(range.offset, range.count) /\ Return(TileError(k))
  BY <1>1, <1>4, <1>5, AnswerNone
<1>6. CASE ~Outside(range.offset, range.count) /\ Take(range)
  <2>1. /\ tiles' = Append(tiles, range.payload)
        /\ UNCHANGED <<file, status, call, pc, at, entry, chain, answer>>
    BY <1>1, <1>6 DEF Take
  <2>2. range.payload = Wanted[k] /\ pc # "pool"
    BY <1>1, <1>4, <1>6
  <2> HIDE DEF range
  <2>3. Fetched'
    BY <1>1, <1>4, <2>1, <2>2, OneMore
  <2>4. InTiles'
    BY <1>1, <2>1 DEF InTiles
  <2> QED BY <1>1, <2>1, <2>3, <2>4, StayInTiles
<1> QED BY <1>5, <1>6 DEF FetchTile

LEMMA DispatchSimulated ==
  ASSUME Fitting, TypeInv, Faithful, Dispatch
  PROVE  Faithful' /\ Simulated
<1>1. /\ pc = "fetch" /\ InTiles /\ UNCHANGED file /\ Len(tiles) = Len(Directory.table)
      /\ tiles \in Seq(Payloads \union {Bad}) /\ DOMAIN tiles = 1 .. Len(tiles)
  BY DEF Dispatch, InTiles, TypeInv, TypeOK
<1>2. DOMAIN Wanted = DOMAIN tiles /\ Wanted \in Seq(Payloads \union {Bad})
  BY <1>1, WantedTable
<1>3. \A k \in DOMAIN tiles : tiles[k] = Wanted[k]
  BY <1>1, AtImage DEF Fetched
<1>4. CASE Len(tiles) < MinParallel /\ AnyBad
  <2>1. PICK k \in DOMAIN tiles : IsFirstBad(k) /\ Return(TileError(k))
    BY <1>4 DEF Dispatch
  <2>2. k \in Nat /\ k \in DOMAIN Wanted /\ Wanted[k] = Bad
    BY <1>1, <1>2, <1>3, <2>1 DEF IsFirstBad
  <2> QED BY <1>1, <2>1, <2>2, AnswerNone
<1>5. CASE Len(tiles) < MinParallel /\ ~AnyBad
  <2>1. Return(Ok(tiles))
    BY <1>5 DEF Dispatch
  <2>2. \A k \in DOMAIN tiles : tiles[k] # Bad
    BY <1>5 DEF AnyBad
  <2>3. Ok(tiles) \in Answer
    BY <1>1, <2>2, AllGood, AnswerTypes
  <2> QED BY <1>1, <1>2, <2>1, <2>2, <2>3, AnswerAll
<1>6. CASE ~(Len(tiles) < MinParallel)
  <2>1. pc' = "pool" /\ UNCHANGED <<file, status, call, at, entry, chain, tiles, failed, answer>>
    BY <1>1, <1>6 DEF Dispatch, progress
  <2>2. failed = 0
    BY <1>1 DEF TypeInv, Placed
  <2>3. Wanted' = Wanted /\ Directory' = Directory
    BY <2>1, WantedSteady
  <2>4. Fetched'
    BY <1>1, <1>2, <1>3, <2>1, <2>2, <2>3 DEF Fetched
  <2>5. InTiles'
    BY <2>1 DEF InTiles
  <2> QED BY <1>1, <2>1, <2>4, <2>5, StayInTiles
<1> QED BY <1>4, <1>5, <1>6

LEMMA DecodeSimulated ==
  ASSUME TypeInv, Faithful, NEW k \in DOMAIN tiles, Decode(k)
  PROVE  Faithful' /\ Simulated
<1>1. /\ pc = "pool" /\ InTiles
      /\ failed' = IF tiles[k] = Bad /\ failed = 0 THEN k ELSE failed
      /\ UNCHANGED <<file, status, call, pc, at, entry, chain, tiles, answer>>
  BY DEF Decode, InTiles
<1>2. Fetched
  BY <1>1, AtImage
<1>3. Wanted' = Wanted /\ Directory' = Directory
  BY <1>1, WantedSteady
<1>4. failed' # 0 => tiles'[failed'] = Bad
  BY <1>1, <1>2 DEF Fetched
<1>5. Fetched' /\ InTiles'
  BY <1>1, <1>2, <1>3, <1>4 DEF Fetched, InTiles
<1> QED BY <1>1, <1>5, StayInTiles

LEMMA CollectSimulated ==
  ASSUME Fitting, TypeInv, Faithful, Collect
  PROVE  Faithful' /\ Simulated
<1>1. /\ pc = "pool" /\ InTiles /\ UNCHANGED file /\ Fetched
      /\ tiles \in Seq(Payloads \union {Bad}) /\ decoded \subseteq DOMAIN tiles
      /\ failed \in {0} \union decoded /\ DOMAIN tiles = 1 .. Len(tiles)
      /\ Return(IF failed # 0 THEN TileError(failed) ELSE Ok(tiles))
  <2>1. pc = "pool" /\ InTiles
    BY DEF Collect, InTiles
  <2> QED BY <2>1, AtImage DEF TypeInv, TypeOK, Collect
<1>2. DOMAIN Wanted = DOMAIN tiles /\ Wanted \in Seq(Payloads \union {Bad})
  BY <1>1, WantedTable DEF Fetched
<1>3. CASE failed # 0
  <2>1. failed \in Nat /\ failed \in DOMAIN Wanted /\ Wanted[failed] = Bad
    BY <1>1, <1>2, <1>3 DEF Fetched
  <2> QED BY <1>1, <1>3, <2>1, AnswerNone
<1>4. CASE failed = 0
  <2>1. \A k \in DOMAIN tiles : tiles[k] # Bad
    BY <1>1, <1>4 DEF TypeInv, Placed, Collect, PoolIsDone
  <2>2. Ok(tiles) \in Answer
    BY <1>1, <2>1, AllGood, AnswerTypes
  <2> QED BY <1>1, <1>2, <1>4, <2>1, <2>2, AnswerAll
<1> QED BY <1>3, <1>4

------------------------------------------------------------------------------
LEMMA FaithfulInit == Init => Faithful /\ Promised!Init
<1> SUFFICES ASSUME Init PROVE Faithful /\ Promised!Init
  OBVIOUS
<1>1. file \in Files /\ status = "closed" /\ call = None /\ answer = None
  BY DEF Init
<1>2. Faithful
  BY <1>1 DEF Faithful
<1>3. (IF Legible THEN Images ELSE None) \in Seq(Promised!Image) \union {None}
  <2>1. CASE Legible
    BY <1>1, <2>1, LegibleImages
  <2> QED BY <2>1
<1> QED BY <1>1, <1>2, <1>3 DEF Promised!Init

LEMMA FaithfulNext ==
  ASSUME Reachable, Fitting, TypeInv, Faithful, [Next]_vars
  PROVE  Faithful' /\ Simulated
<1>1. ASSUME NEW c \in Asked, Begin(c) PROVE Faithful' /\ Simulated
  BY <1>1, BeginSimulated
<1>2. CASE ReadHeader
  BY <1>2, ReadHeaderSimulated
<1>3. CASE ReadCount
  BY <1>3, ReadCountSimulated
<1>4. CASE ReadEntry
  BY <1>4, ReadEntrySimulated
<1>5. CASE FollowChain
  BY <1>5, FollowChainSimulated
<1>6. CASE FollowDirect
  BY <1>6, FollowDirectSimulated
<1>7. CASE ReadTile
  BY <1>7, ReadTileSimulated
<1>8. CASE FetchTile
  BY <1>8, FetchTileSimulated
<1>9. CASE Dispatch
  BY <1>9, DispatchSimulated
<1>10. ASSUME NEW k \in DOMAIN tiles, Decode(k) PROVE Faithful' /\ Simulated
  BY <1>10, DecodeSimulated
<1>11. CASE Collect
  BY <1>11, CollectSimulated
<1>12. CASE UNCHANGED vars
  <2>1. UNCHANGED <<file, status, call, pc, at, entry, chain, tiles, decoded, failed, answer>>
    BY <1>12 DEF vars, progress
  <2>2. Wanted' = Wanted /\ Directory' = Directory
    BY <2>1, WantedSteady
  <2>3. InTiles' = InTiles /\ Walking' = Walking /\ M' = M
        /\ (\A a : Passed(a)' <=> Passed(a)) /\ (\A e : EntryFits(e)' <=> EntryFits(e))
    BY <2>1, FileSteady DEF InTiles, Walking, M, Passed, EntryFits
  <2>4. OnChain => OnChain'
    BY <2>1, <2>3, FileSteady DEF OnChain
  <2>5. Fetched => Fetched'
    BY <2>1, <2>2, <2>3 DEF Fetched
  <2>6. Faithful'
    BY <2>1, <2>4, <2>5, FileSteady DEF Faithful
  <2> QED BY <2>1, <2>6, NoAnswer DEF Simulated
<1> QED BY <1>1, <1>2, <1>3, <1>4, <1>5, <1>6, <1>7, <1>8, <1>9, <1>10, <1>11, <1>12
        DEF Next, Step

(* The answers of Tiff are those of a file of images: it is refused if one *)
(* of its IFDs will not do; a call then gets every tile it asked for, from *)
(* the image and the cell asked for, or an error, in whichever order       *)
(* threads decode. Calls of read_all_tiles_parallel are held to the images *)
(* that opening looks at, as directory_at goes on where                    *)
(* read_directory_chain stops, and to files whose tables are as long as    *)
(* their grids, as it goes by the table.                                   *)
THEOREM RefinesImageFile == ASSUME Reachable, Fitting PROVE Spec => ImplementsImageFile
<1>1. Init => TypeInv /\ Faithful /\ Promised!Init
  BY TypeInvInit, FaithfulInit
<1>2. TypeInv /\ Faithful /\ [Next]_vars => TypeInv' /\ Faithful' /\ [Promised!Next]_(Promised!vars)
  BY TypeInvNext, FaithfulNext DEF Simulated
<1> QED BY <1>1, <1>2, PTL DEF Spec, ImplementsImageFile, Promised!Spec
=============================================================================
