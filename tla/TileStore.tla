------------------------------ MODULE TileStore -----------------------------
(***************************************************************************)
(* What a caller of ImageSink::write_tile may rely on, whatever the file   *)
(* format: a store of the tiles of a list of images, in which a tile reads *)
(* as what was last written to it. Nothing is promised of a tile before    *)
(* its first successful write or after a failed one. In a packed image,    *)
(* whose tiles follow one another without gaps, a write also gives up the  *)
(* tiles after it, which an earlier pass over the image may have written.  *)
(* No write ever disturbs another image.                                   *)
(***************************************************************************)
EXTENDS Integers, Sequences

CONSTANTS
  Shapes,    \* the possible image lists: [tiles: Nat, packed: BOOLEAN] each
  Payloads,  \* what a tile may contain
  Unknown    \* the content of a tile nothing is promised about

VARIABLES
  shape,     \* the image list
  store      \* the content of each tile of each image

Init ==
  /\ shape \in Shapes
  /\ store = [i \in DOMAIN shape |-> [t \in 0 .. shape[i].tiles - 1 |-> Unknown]]

Write(i, t, p) ==
  /\ store' = [store EXCEPT ![i] =
                 [u \in DOMAIN @ |-> IF u = t THEN p
                                     ELSE IF u > t /\ shape[i].packed THEN Unknown
                                     ELSE @[u]]]
  /\ UNCHANGED shape

Next ==
  \E i \in DOMAIN shape : \E t \in 0 .. shape[i].tiles - 1 :
    \/ \E p \in Payloads : Write(i, t, p)
    \/ Write(i, t, Unknown)

Spec == Init /\ [][Next]_<<shape, store>>
=============================================================================
