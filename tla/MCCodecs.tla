------------------------------- MODULE MCCodecs -------------------------------
(***************************************************************************)
(* Codecs with bytes of two values and LZW codes of three and four bits:   *)
(* twelve bytes fill and clear the dictionary, and every step is one of    *)
(* the real tables at a smaller scale. All twelve-byte rows, and tiles of  *)
(* several rows, samples and byte orders.                                  *)
(***************************************************************************)
EXTENDS Codecs

Tile(bytes, row_width, samples, bps, big_endian) ==
  [bytes |-> bytes, row_width |-> row_width, samples |-> samples, bps |-> bps,
   big_endian |-> big_endian]

SmallTiles ==
  {Tile(b, 12, 1, 1, FALSE) : b \in [1 .. 12 -> Bytes]}
    \cup {Tile(b, 2, 1, 2, big) : b \in [1 .. 8 -> Bytes], big \in BOOLEAN}
    \cup {Tile(b, 2, 2, 1, FALSE) : b \in [1 .. 8 -> Bytes]}
=============================================================================
