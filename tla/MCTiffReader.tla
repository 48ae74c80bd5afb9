---------------------------- MODULE MCTiffReader ----------------------------
(***************************************************************************)
(* Small files for TiffReader: 14 words, room for IFDs at 2, 6 and 10. One *)
(* of the three varies at a time over everything that can be wrong with an *)
(* IFD and over every address it can link to.                              *)
(***************************************************************************)
EXTENDS TiffReader, TLC

CONSTANTS p, q, r, s

Size == 14
Addresses == {2, 6, 10}

Field(known, count, width, offset) ==
  [known |-> known, count |-> count, width |-> width, offset |-> offset]
Inline == Field(TRUE, 1, 1, 0)
Extern == Field(TRUE, 2, 2, 10)
Fields == {Inline, Extern,
           Field(TRUE, 2, 2, 11),    \* ends beyond the file
           Field(TRUE, 9, 2, 0),     \* its size overflows
           Field(TRUE, 5, 1, 0),     \* more elements than MaxTagCount
           Field(FALSE, 9, 2, 99)}   \* of an unknown type

Tile(offset, payload) == [offset |-> offset, count |-> 2, payload |-> payload]

Dir(entries, next, sound, width, height, table) ==
  [entries |-> entries, next |-> next, sound |-> sound, scenic |-> TRUE,
   width |-> width, height |-> height, tile_width |-> 2, tile_height |-> 2,
   table |-> table]

Square == <<Tile(0, p), Tile(2, q), Tile(4, r), Tile(12, s)>>
Row == <<Tile(6, p), Tile(8, q)>>
Torn == <<Tile(0, Bad), Tile(13, q), Tile(4, r), Tile(12, s)>>
Rotten == <<Tile(0, p), Tile(2, Bad), Tile(4, r), Tile(6, Bad)>>
Frayed == <<Tile(0, p), Tile(2, q), Tile(4, r), Tile(6, Bad)>>
Grainy == <<Tile(6, p), Tile(8, Bad)>>

Plain(next) == Dir(<<Inline>>, next, TRUE, 3, 2, Row)

(* What the varied IFD may be, and where it may lead. *)
Varied ==
  {Dir(<<f>>, next, TRUE, 3, 2, Row) : f \in Fields, next \in {0, 2, 6, 10, 14, 16}}
  \union {Dir(<<Inline>>, next, FALSE, 3, 2, Row) : next \in {0, 6, 10}}
  \union {[Plain(0) EXCEPT !.scenic = FALSE], [Plain(10) EXCEPT !.scenic = FALSE]}
  \union {Dir(e, 0, TRUE, 3, 2, Row) : e \in {<<Inline, Extern>>, [k \in 1 .. 8 |-> Inline], << >>}}

Junk == Dir(<< >>, 0, FALSE, 1, 1, << >>)

File(size, first, ifd) ==
  [size |-> size, first |-> first,
   ifd |-> [a \in 0 .. size |-> IF a \in DOMAIN ifd THEN ifd[a] ELSE Junk]]

Chain == (2 :> Plain(6)) @@ (6 :> Plain(10)) @@ (10 :> Plain(0))

(* Linked files: one IFD varied, the header's link, the size. *)
LinkedFiles ==
  {File(Size, 2, (a :> m) @@ Chain) : a \in Addresses, m \in Varied}
  \union {File(Size, first, Chain) : first \in {0, 6, 10, 14, 16}}
  \union {File(size, 2, (6 :> Plain(0)) @@ Chain) : size \in {1, 2, 5, 6, 8, 9, 10}}
  \union {File(Size, 2, (10 :> m) @@ Chain) : m \in {Plain(14), Plain(10), Plain(2)}}

(* Files of one image whose table is of the grid's size. *)
Grids ==
  {Dir(<<Inline>>, 0, TRUE, 4, 3, table) : table \in {Square, Torn, Rotten, Frayed}}
  \union {Dir(<<Inline>>, 0, TRUE, 3, 2, table) : table \in {Row, Grainy}}
  \union {Dir(<<Inline>>, 0, TRUE, 1, 4, Row), Dir(<<Inline>>, 0, TRUE, 0, 3, << >>)}

(* Files of one image whose table is longer or shorter than the grid. *)
Misfits ==
  {Dir(<<Inline>>, 0, TRUE, 3, 2, table) : table \in {Square, Rotten, SubSeq(Row, 1, 1)}}
  \union {Dir(<<Inline>>, 0, TRUE, 4, 3, Row),
           [Dir(<<Inline>>, 0, TRUE, 3, 2, Row) EXCEPT !.tile_width = 0]}

OneImage(m) == File(Size, 2, 2 :> m)
MatchedFiles == {OneImage(m) : m \in Grids}
MisfitFiles == {OneImage(m) : m \in Misfits}

FittingFiles == LinkedFiles \union MatchedFiles
TwoBadTiles == {OneImage(Dir(<<Inline>>, 0, TRUE, 4, 3, Rotten))}

Ask(op, image, column, row) == [op |-> op, image |-> image, column |-> column, row |-> row]
MCAsked ==
  {Ask("open", 1, 0, 0)}
  \union {Ask(op, image, 0, 0) : op \in {"pixels", "parallel"}, image \in 1 .. 3}
  \union {Ask("tile", 1, column, row) : column \in 0 .. 2, row \in 0 .. 1}
SequentialAsked == {c \in MCAsked : c.op # "parallel"}
=============================================================================
