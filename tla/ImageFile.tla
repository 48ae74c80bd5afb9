------------------------------ MODULE ImageFile ------------------------------
(***************************************************************************)
(* What a caller of Tiff may rely on when it reads a file nobody vouches   *)
(* for: the file is accepted or refused once, by what is in it, and an     *)
(* accepted file is a list of images, each a grid over a table of tiles.   *)
(* The pixels of an image are the tiles of its grid, row by row, whether   *)
(* one thread decodes them or many; an answer is made of all of them, or   *)
(* is an error if one cannot be had.                                       *)
(***************************************************************************)
EXTENDS Integers, Sequences

CONSTANTS
  Calls,     \* [op, image, column, row]; op: "open", "pixels", "parallel", "tile"
  Payloads,  \* what a tile may decode to
  Bad,       \* in place of a tile that cannot be read or decoded
  None       \* no call, and the answer before the first

VARIABLES
  images,    \* the images of the file, or None if it is to be refused
  status,    \* "closed", "open" or "refused"
  asked,     \* the call being answered, or None
  answer     \* the last answer

vars == <<images, status, asked, answer>>

Image == [columns: Nat, rows: Nat, table: Seq(Payloads \union {Bad})]

Ok(tiles) == [ok |-> TRUE, tiles |-> tiles]
Error == [ok |-> FALSE, tiles |-> << >>]

(* A tile of the grid; the table need not have it. *)
Cell(m, column, row) ==
  LET k == row * m.columns + column + 1
  IN  IF column < m.columns /\ row < m.rows /\ k <= Len(m.table) THEN m.table[k] ELSE Bad

Grid(m) ==
  [k \in 1 .. m.columns * m.rows |-> Cell(m, (k - 1) % m.columns, (k - 1) \div m.columns)]

(* The tiles that call c needs of image m. *)
Needed(c, m) ==
  CASE c.op = "open" -> << >>
    [] c.op = "tile" -> <<Cell(m, c.column, c.row)>>
    [] c.op \in {"pixels", "parallel"} -> Grid(m)

Have(tiles) == \A k \in DOMAIN tiles : tiles[k] # Bad

Init ==
  /\ images \in Seq(Image) \union {None}
  /\ status = "closed" /\ asked = None /\ answer = None

Ask(c) ==
  /\ asked = None
  /\ status = IF c.op = "open" THEN "closed" ELSE "open"
  /\ asked' = c
  /\ UNCHANGED <<images, status, answer>>

Open ==
  /\ asked # None /\ asked.op = "open"
  /\ status' = IF images = None THEN "refused" ELSE "open"
  /\ answer' = IF images = None THEN Error ELSE Ok(<< >>)
  /\ asked' = None
  /\ UNCHANGED images

Read ==
  /\ asked # None /\ asked.op # "open"
  /\ LET there == asked.image \in DOMAIN images
         tiles == Needed(asked, images[asked.image])
     IN  answer' = IF there /\ Have(tiles) THEN Ok(tiles) ELSE Error
  /\ asked' = None
  /\ UNCHANGED <<images, status>>

Next == (\E c \in Calls : Ask(c)) \/ Open \/ Read

Spec == Init /\ [][Next]_vars
=============================================================================
