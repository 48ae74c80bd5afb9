---------------------------- MODULE MCTiffWriter ----------------------------
(***************************************************************************)
(* Small files for TiffWriter: two payloads, one that its encoder shrinks  *)
(* and one that it expands.                                                *)
(***************************************************************************)
EXTENDS TiffWriter, TLC

CONSTANTS p1, p2

MCEncLen == (p1 :> 1) @@ (p2 :> 2)

Img(tiled, wide, compressed, tiles, raw, samples) ==
  [tiled |-> tiled, wide |-> wide, compressed |-> compressed,
   tiles |-> tiles, raw |-> raw, samples |-> samples]

RawStrip == Img(FALSE, TRUE, FALSE, 1, 2, 1)
RgbStrip == Img(FALSE, TRUE, FALSE, 1, 2, 3)
EncStrip == Img(FALSE, TRUE, TRUE, 1, 1, 1)
RawTiles == Img(TRUE, FALSE, FALSE, 2, 2, 1)
EncTiles == Img(TRUE, FALSE, TRUE, 3, 1, 10)
EncWide  == Img(TRUE, TRUE, TRUE, 2, 2, 1)
OneTile  == Img(TRUE, TRUE, TRUE, 1, 2, 1)
HugeStrip == Img(FALSE, TRUE, FALSE, 1, 99, 1)

EncStripOf2 == Img(FALSE, TRUE, TRUE, 1, 2, 1)

(* Files in which no image ends beyond the region planned for it: one that *)
(* an encoder may expand comes last, a tiled and compressed one alone.     *)
SafeFiles ==
  { <<RgbStrip, RawStrip>>, <<RawTiles, EncStrip>>, <<EncStripOf2, RawStrip>>,
    <<EncTiles>>, <<EncStrip>>, <<EncWide>>, <<OneTile>>, <<HugeStrip>> }

(* A compressed strip that may expand, before another image.               *)
EncStripFirst == { <<EncStrip, RawStrip>> }

(* A compressed strip that may shrink, before another image.               *)
ShrinkingStripFirst == { <<EncStripOf2, RawStrip>> }
=============================================================================
