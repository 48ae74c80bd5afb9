------------------------------ MODULE ByteCursor -----------------------------
(***************************************************************************)
(* What a parser may rely on when it reads an input through the            *)
(* BinaryReader trait, whatever the transport. The input is a version of   *)
(* an object; a remote object may be replaced by another version while it  *)
(* is read. A run of bytes is a record of the version it is from, its      *)
(* first offset and its length.                                            *)
(***************************************************************************)
EXTENDS Integers

CONSTANTS
  Versions,  \* what the object may be: records with a length
  MaxRead    \* the longest read asked for

VARIABLES
  open,      \* whether the reader is open
  seen,      \* the versions the object had since it was opened
  size,      \* the size reported to the parser
  cursor,    \* the read position
  got        \* the run of bytes the last call delivered, or none

vars == <<open, seen, size, cursor, got>>

None == [version |-> 0, from |-> 0, length |-> 0]
Lesser(a, b) == IF a <= b THEN a ELSE b

Init ==
  /\ open = FALSE
  /\ \E v \in Versions : seen = {v}
  /\ size = 0 /\ cursor = 0 /\ got = None

(* The object becomes another version. *)
Replace(v) ==
  /\ seen' = IF open THEN seen \union {v} ELSE {v}
  /\ UNCHANGED <<open, size, cursor, got>>

Open ==
  /\ ~open /\ open' = TRUE
  /\ \E v \in seen : size' = v.length
  /\ cursor' = 0 /\ got' = None
  /\ UNCHANGED seen

(* A read delivers the bytes at the cursor, of one version, as many as were*)
(* asked for: fewer only at the end of the input or of that version.       *)
Read(n) ==
  /\ open
  /\ LET wanted == Lesser(n, size - cursor)
     IN  IF wanted = 0
           THEN got' = None /\ UNCHANGED cursor
         ELSE \E v \in seen :
                /\ v.length > cursor
                /\ got' = [version |-> v.version, from |-> cursor,
                           length |-> Lesser(wanted, v.length - cursor)]
                /\ cursor' = cursor + got'.length
  /\ UNCHANGED <<open, seen, size>>

Seek(offset) ==
  /\ open
  /\ cursor' = offset /\ got' = None
  /\ UNCHANGED <<open, seen, size>>

(* A failed call moves nothing. *)
Fail == got' = None /\ UNCHANGED <<open, seen, size, cursor>>

Next ==
  \/ \E v \in Versions : Replace(v)
  \/ Open
  \/ \E n \in 0 .. MaxRead : Read(n)
  \/ \E offset \in 0 .. size : Seek(offset)
  \/ Fail

Spec == Init /\ [][Next]_vars
=============================================================================
