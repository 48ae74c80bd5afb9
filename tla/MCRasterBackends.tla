-------------------------- MODULE MCRasterBackends --------------------------
(***************************************************************************)
(* Small documents for RasterBackends. The payloads: a and b are plain     *)
(* text, "bin" holds bytes that are not UTF-8, "end" is text that contains *)
(* an End line.                                                            *)
(***************************************************************************)
EXTENDS RasterBackends, TLC

CONSTANTS a, b, bin, end

Image(tiles, spp, type, compression) ==
  [tiles |-> tiles, spp |-> spp, type |-> type, compression |-> compression,
   extent |-> TRUE, tiled |-> TRUE]

Gray  == Image(2, 1, "UInt8", "None")
Rgb   == Image(1, 3, "Float32", "None")
Rgba  == Image(1, 4, "UInt32", "None")
Mono  == Image(1, 1, "Float32", "None")
Zstd  == Image(2, 1, "UInt16", "zstd")
Short == Image(1, 1, "Int16", "None")
Zeros == [Image(0, 1, "UInt8", "None") EXCEPT !.tiled = FALSE]
Strip == [Zeros EXCEPT !.extent = FALSE]

(* All images of a list are ones the Memory backend has a layout for:      *)
(* open_image_sink looks at the first alone, open_image_source at all.     *)
Documents == { <<Gray>>, <<Rgb>>, <<Rgba>>, <<Mono>>, <<Zstd>>, <<Short>>, <<Zeros>>,
               <<Strip>>, <<Rgb, Gray>> }

(* A compressed chunk that shrinks below, keeps or exceeds its slot.       *)
MCCompLen == (a :> 1) @@ (b :> 2) @@ (bin :> 3) @@ (end :> 2)

(* An array header as long as a raw chunk of one sample, and of four.      *)
MCShapeLens == (2 :> 1) @@ (3 :> 4)

(* The label of an ISIS document is found as long as no tile in its front  *)
(* holds binary data or an End line.                                       *)
SafePayloads ==
  [x \in Backends |-> IF x = "isis" THEN {a, b} ELSE IF x = "zarr" THEN {a, b, bin} ELSE {a, bin}]
AnyPayloads == [x \in Backends |-> Payloads]
=============================================================================
