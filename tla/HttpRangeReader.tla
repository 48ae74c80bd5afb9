--------------------------- MODULE HttpRangeReader ---------------------------
(***************************************************************************)
(* HttpRangeBinaryReader: a read cursor over a remote object, fetched by   *)
(* ranged GETs through one read-ahead buffer, while the object may be      *)
(* replaced. A response body is a run of bytes of the version the object   *)
(* had when it answered: its contents are where it starts and how long it  *)
(* is. Offsets count blocks of bytes.                                      *)
(***************************************************************************)
EXTENDS Integers, Sequences

CONSTANTS
  BufferSize,   \* DEFAULT_BUFFER_SIZE
  Lengths,      \* how long the object may be
  MaxVersions,  \* bound: how many versions of the object there are
  MaxRead,      \* bound: the longest destination of a read
  KeepsRange    \* whether a server that answers a Range request with the range
                \* it asks for goes on doing so

ASSUME ReaderAssumption ==
  /\ BufferSize \in Nat \ {0} /\ MaxVersions \in Nat \ {0} /\ MaxRead \in Nat
  /\ Lengths \subseteq Nat /\ KeepsRange \in BOOLEAN

VARIABLES
  history,      \* the lengths of the versions the object has had, in order
  opened,       \* the version open() saw, 0 before
  total_size,   \* what open() learned of the object's size
  cursor,
  buffer,       \* the read-ahead buffer: a run of bytes
  buffer_start, \* the offset the reader believes the buffer starts at
  got,          \* the run of bytes the last call delivered
  error         \* how the last call failed, or "none"

reader == <<opened, total_size, cursor, buffer, buffer_start>>
vars == <<history, reader, got, error>>

None == [version |-> 0, from |-> 0, length |-> 0]
Lesser(a, b) == IF a <= b THEN a ELSE b
Greater(a, b) == IF a <= b THEN b ELSE a

Now == Len(history)
Part(from, length) == [version |-> Now, from |-> from, length |-> length]

------------------------------------------------------------------------------
(* perform_ranged_get of [start, start + length): what the server may      *)
(* answer. The total of a Content-Range header may be missing (-1). Any    *)
(* other status, a transport failure or a timeout is "failure".            *)
Responses(start, length) ==
  LET size == history[Now]
      ranged ==
        IF start >= size
        THEN {[status |-> "416", total |-> size, body |-> None]}
        ELSE {[status |-> "206", total |-> t,
               body |-> Part(start, Lesser(length, size - start))] : t \in {size, -1}}
      whole == [status |-> "200", total |-> -1, body |-> Part(0, size)]
      failed == {[status |-> s, total |-> -1, body |-> None] : s \in {"404", "failure"}}
  IN  ranged \union failed
        \union (IF opened = 0 \/ ~KeepsRange THEN {whole} ELSE {})

Init ==
  /\ \E n \in Lengths : history = <<n>>
  /\ opened = 0 /\ total_size = 0 /\ cursor = 0
  /\ buffer = None /\ buffer_start = 0
  /\ got = None /\ error = "none"

(* The object is replaced by another version. *)
Replace ==
  /\ Now < MaxVersions
  /\ \E n \in Lengths : history' = Append(history, n)
  /\ UNCHANGED <<reader, got, error>>

Fails(kind) == error' = kind /\ got' = None

(* A reader with a bug: it takes the length of the probe's body for the    *)
(* size of the object, whatever Content-Range says.                        *)
OpenSizeOfBody(r) == r.body.length
OpenSize(r) == IF r.status = "206" THEN r.total ELSE r.body.length

(* open: probes the first buffer's worth. *)
Open ==
  /\ opened = 0
  /\ \E r \in Responses(0, BufferSize) :
       \/ /\ r.status \in {"206", "200", "416"}
          /\ r.status = "206" => r.total # -1
          /\ opened' = Now
          /\ total_size' = OpenSize(r)
          /\ buffer' = r.body
          /\ got' = None /\ error' = "none"
          /\ UNCHANGED <<cursor, buffer_start>>
       \/ /\ r.status \in {"404", "failure"} \/ (r.status = "206" /\ r.total = -1)
          /\ Fails(IF r.status = "404" THEN "not_found" ELSE "unknown")
          /\ UNCHANGED reader
  /\ UNCHANGED history

(* read hands n bytes of a version out and moves past them. *)
Deliver(version, from, n) ==
  /\ got' = IF n = 0 THEN None ELSE [version |-> version, from |-> from, length |-> n]
  /\ cursor' = cursor + n
  /\ error' = "none"

Wanted(n) == Lesser(n, total_size - cursor)

(* A reader with a bug: it asks for more once it stands at the end.        *)
AtEndLate == cursor > total_size
AtEnd == cursor >= total_size

Hit(n) ==
  /\ cursor >= buffer_start
  /\ cursor + Wanted(n) <= buffer_start + buffer.length

ReadNothing(n) ==
  /\ opened > 0 /\ (n = 0 \/ AtEnd)
  /\ Deliver(Now, cursor, 0)
  /\ UNCHANGED <<history, opened, total_size, buffer, buffer_start>>

ReadHit(n) ==
  /\ opened > 0 /\ n > 0 /\ ~AtEnd /\ Hit(n)
  /\ Deliver(buffer.version, buffer.from + (cursor - buffer_start), Wanted(n))
  /\ UNCHANGED <<history, opened, total_size, buffer, buffer_start>>

(* A response wider than the buffer bypasses it. Readers with a bug keep   *)
(* every response, take a response to be complete, or forget where the     *)
(* buffer now starts.                                                      *)
BypassesNever(body) == FALSE
Bypasses(body) == body.length > BufferSize
AvailableAll(n, body) == Wanted(n)
Available(n, body) == Lesser(Wanted(n), body.length)
RefillInPlace(body) == buffer' = body /\ UNCHANGED buffer_start
Refill(body) == buffer' = body /\ buffer_start' = cursor

ReadMiss(n) ==
  /\ opened > 0 /\ n > 0 /\ ~AtEnd /\ ~Hit(n)
  /\ LET fetch_len == Lesser(Greater(Wanted(n), BufferSize), total_size - cursor)
     IN  \E r \in Responses(cursor, fetch_len) :
           \/ /\ r.status \in {"206", "200"}
              /\ Deliver(r.body.version, r.body.from, Available(n, r.body))
              /\ IF Bypasses(r.body) THEN UNCHANGED <<buffer, buffer_start>>
                 ELSE Refill(r.body)
           \/ /\ r.status \notin {"206", "200"}
              /\ Fails(IF r.status = "416" THEN "out_of_range" ELSE "unknown")
              /\ UNCHANGED <<cursor, buffer, buffer_start>>
  /\ UNCHANGED <<history, opened, total_size>>

Seek(offset) ==
  /\ opened > 0
  /\ IF offset > total_size
     THEN Fails("beyond_size") /\ UNCHANGED cursor
     ELSE cursor' = offset /\ got' = None /\ error' = "none"
  /\ UNCHANGED <<history, opened, total_size, buffer, buffer_start>>

Next ==
  \/ Replace
  \/ Open
  \/ \E n \in 0 .. MaxRead : ReadNothing(n) \/ ReadHit(n) \/ ReadMiss(n)
  \/ \E offset \in 0 .. total_size + 1 : Seek(offset)

Spec == Init /\ [][Next]_vars

------------------------------------------------------------------------------
(* Properties.                                                             *)

Run == [version: Nat, from: Nat, length: Nat]

(* The reader's fields stay in range: the cursor never passes the size     *)
(* open() learned, and a run never reaches beyond its version's end.       *)
TypeOK ==
  /\ history \in Seq(Lengths) /\ Now \in 1 .. MaxVersions
  /\ opened \in 0 .. Now
  /\ total_size \in Nat /\ cursor \in 0 .. total_size
  /\ buffer \in Run /\ buffer_start \in 0 .. total_size
  /\ got \in Run
  /\ \A run \in {buffer, got} :
       run.length > 0 => /\ run.version \in opened .. Now
                         /\ run.from + run.length <= history[run.version]
  /\ error \in {"none", "not_found", "unknown", "out_of_range", "beyond_size"}

(* What a read delivers are the bytes of the object that stand where the   *)
(* cursor stood: the cursor API is that of MemoryBinaryReader, whether the *)
(* bytes came from the buffer, from a response or past the buffer.         *)
RightPlace == got.length > 0 => got.from + got.length = cursor

(* A read fails as out of range only when the object became shorter after  *)
(* open(): what a comment in read() claims of status 416.                  *)
OnlyIfShrank ==
  error = "out_of_range" => \E v \in opened .. Now : history[v] < total_size

(* A read of more than a buffer's worth leaves the read-ahead buffer as it *)
(* was: one oversized tile cannot evict the header region.                 *)
HeaderKept ==
  [][got'.length > BufferSize => UNCHANGED <<buffer, buffer_start>>]_vars

(* The reader is a cursor over the versions the object had since open():   *)
(* each read delivers bytes of one version from the cursor on, as many as  *)
(* asked for unless the input or the version ends, and a failed call moves *)
(* nothing.                                                                *)
Cursor == INSTANCE ByteCursor WITH
  Versions <- [version: 1 .. MaxVersions, length: Lengths],
  open <- opened > 0,
  seen <- {[version |-> v, length |-> history[v]] :
             v \in (IF opened = 0 THEN Now ELSE opened) .. Now},
  size <- total_size
ImplementsByteCursor == Cursor!Spec
=============================================================================
