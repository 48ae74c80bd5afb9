-------------------------- MODULE MCHttpRangeReader --------------------------
(***************************************************************************)
(* Objects of up to five blocks behind a buffer of two: reads that hit,    *)
(* that straddle the buffer's end, that bypass it, and that find the       *)
(* object shorter or longer than it was.                                   *)
(***************************************************************************)
EXTENDS HttpRangeReader

MCLengths == {0, 2, 5}
=============================================================================
