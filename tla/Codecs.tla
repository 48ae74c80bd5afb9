-------------------------------- MODULE Codecs --------------------------------
(***************************************************************************)
(* The way of one tile's bytes through encode_tile_bytes and               *)
(* decode_tile_bytes: the horizontal predictor, LZW or PackBits, and back. *)
(* The encoder runs to its end before the decoder starts; both only move   *)
(* forward, so here the decoder takes each code when it is written. A code *)
(* on the wire is the code and the width it was written with: bits are     *)
(* counted, not drawn. A foreign stream is what another program wrote.     *)
(***************************************************************************)
EXTENDS Integers, Sequences, FiniteSets

CONSTANTS
  B,                  \* how many values a byte has
  FirstWidth, LastWidth,  \* of LZW codes
  MaxDictionaryCode,
  MaxRun,             \* the longest run or literal of PackBits
  Tiles,              \* [bytes, row_width, samples, bps, big_endian]
  MaxNoise            \* bound: how many codes of a foreign stream are read

ASSUME CodecAssumption ==
  /\ B \in Nat \ {0} /\ FirstWidth \in Nat /\ LastWidth \in Nat
  /\ FirstWidth <= LastWidth
  /\ B + 2 < 2^FirstWidth - 1
  /\ MaxDictionaryCode \in Nat /\ B + 2 < MaxDictionaryCode
  /\ MaxDictionaryCode <= 2^LastWidth - 2
  /\ MaxRun \in Nat /\ MaxRun >= 2 /\ MaxNoise \in Nat

(* Tiles are whole rows of whole samples (validate).                       *)
ASSUME TilesAssumption ==
  \A t \in Tiles :
    /\ t.bytes \in Seq(0 .. B - 1) /\ t.big_endian \in BOOLEAN
    /\ t.row_width \in Nat \ {0} /\ t.samples \in Nat \ {0} /\ t.bps \in {1, 2, 4}
    /\ \E rows \in 1 .. Len(t.bytes) :
         Len(t.bytes) = rows * (t.row_width * (t.samples * t.bps))

VARIABLES
  tile,       \* the tile, as the caller wrote it
  scheme,     \* "None", "Lzw" or "PackBits"
  predictor,  \* whether the samples are differenced
  foreign,    \* whether the stream is another program's
  stage,      \* "apply", "code", "undo", "done" or "failed"
  data,       \* the bytes the encoder works on, then those of the decoder
  carry,      \* previous, and running: the samples of the column before
  col, pos,   \* the column of the predictor, the position of the encoder
  enc,        \* encode_lzw: current, table, next_code
  codes,      \* codes that the encoder pushed and nobody has written yet
  written,    \* write_codes_to_bits: table_size, have_previous
  dec,        \* decode_lzw: table, next_code, code_width, old_entry
  output,
  noise       \* codes of a foreign stream read so far

coding == <<enc, codes, written, dec, output, noise>>
vars == <<tile, scheme, predictor, foreign, stage, data, carry, col, pos, coding>>

Bytes == 0 .. B - 1
ClearCode == B
EoiCode == B + 1
FirstDictionaryCode == B + 2
Size == Len(tile.bytes)

(* The early change: a width is left one code before it is used up.        *)
CodeWidthFor(next_code) ==
  CHOOSE w \in FirstWidth .. LastWidth :
    /\ w = LastWidth \/ next_code < 2^w - 1
    /\ \A v \in FirstWidth .. w - 1 : next_code >= 2^v - 1

(* Mutant: the decoder changes width as late as other LZW variants do.     *)
CodeWidthLate(next_code) ==
  CHOOSE w \in FirstWidth .. LastWidth :
    /\ w = LastWidth \/ next_code < 2^w
    /\ \A v \in FirstWidth .. w - 1 : next_code >= 2^v

DecoderWidth(next_code) == CodeWidthFor(next_code)

------------------------------------------------------------------------------
(* The predictor.                                                          *)

(* A byte's weight in its sample, and a sample's place in the tile.        *)
Powers == <<1, B, B * B, B * B * B, B * B * B * B>>
Weight(k) == Powers[1 + (IF tile.big_endian THEN tile.bps - 1 - k ELSE k)]
Pixel == tile.samples * tile.bps
Stride == tile.row_width * Pixel
RowOf(i) == i \div Stride
ColumnOf(i) == (i % Stride) \div Pixel
CompOf(i) == (i % Pixel) \div tile.bps
Modulus == Powers[1 + tile.bps]

(* read_sample: bps is 1, 2 or 4.                                          *)
ReadSample(row, column, comp) ==
  LET at == row * Stride + column * Pixel + comp * tile.bps + 1
      byte(k) == IF k < tile.bps THEN data[at + k] * Weight(k) ELSE 0
  IN  byte(0) + byte(1) + byte(2) + byte(3)

(* write_sample, for each sample of a column.                              *)
WriteColumn(column, value) ==
  [i \in DOMAIN data |->
     IF ColumnOf(i - 1) # column THEN data[i]
     ELSE (value[RowOf(i - 1)][CompOf(i - 1)] \div Weight((i - 1) % tile.bps)) % B]

Rows == 0 .. (Size \div Stride) - 1
Comps == 0 .. tile.samples - 1
ZeroCarry == [r \in Rows |-> [c \in Comps |-> 0]]

(* Mutant: every row starts with the last sample of the row before.        *)
PreviousOfTile(r, c) ==
  IF col = 0 /\ r > 0 THEN ReadSample(r - 1, tile.row_width - 1, c) ELSE carry[r][c]

(* Each row starts over, at zero.                                          *)
Previous(r, c) == carry[r][c]

(* apply_horizontal_differencing, a column of every row.                   *)
ApplyColumn ==
  /\ stage = "apply" /\ predictor /\ col < tile.row_width
  /\ data' = WriteColumn(col, [r \in Rows |-> [c \in Comps |->
                                 (ReadSample(r, col, c) - Previous(r, c)) % Modulus]])
  /\ carry' = [r \in Rows |-> [c \in Comps |-> ReadSample(r, col, c)]]
  /\ col' = col + 1
  /\ UNCHANGED <<tile, scheme, predictor, foreign, stage, pos, coding>>

(* The encoder starts: encode_lzw with a clear code and the first byte.    *)
Applied ==
  /\ stage = "apply" /\ (predictor => col = tile.row_width)
  /\ stage' = "code" /\ col' = 0 /\ carry' = ZeroCarry
  /\ IF scheme = "Lzw" /\ ~foreign
       THEN codes' = <<ClearCode>> /\ enc' = [enc EXCEPT !.current = <<data[1]>>] /\ pos' = 1
       ELSE UNCHANGED <<codes, enc, pos>>
  /\ UNCHANGED <<tile, scheme, predictor, foreign, data, written, dec, output, noise>>

(* undo_horizontal_differencing.                                           *)
RunningSum ==
  [r \in Rows |-> [c \in Comps |-> (carry[r][c] + ReadSample(r, col, c)) % Modulus]]
UndoColumn ==
  /\ stage = "undo" /\ predictor /\ col < tile.row_width
  /\ data' = WriteColumn(col, RunningSum)
  /\ carry' = RunningSum
  /\ col' = col + 1
  /\ UNCHANGED <<tile, scheme, predictor, foreign, stage, pos, coding>>

Undone ==
  /\ stage = "undo" /\ (predictor => col = tile.row_width)
  /\ stage' = "done"
  /\ UNCHANGED <<tile, scheme, predictor, foreign, data, carry, col, pos, coding>>

------------------------------------------------------------------------------
(* Decoding ends: all of the output, or an error.                          *)
Succeeds == stage' = "undo" /\ data' = output'
Fails == stage' = "failed" /\ UNCHANGED data
GoesOn == UNCHANGED <<stage, data>>
setup == <<tile, scheme, predictor, foreign, carry, col>>

------------------------------------------------------------------------------
(* LZW.                                                                    *)

NoPhrases == [p \in {} |-> 0]

(* code_for_byte_sequence.                                                 *)
CodeOf(phrase) == IF Len(phrase) = 1 THEN phrase[1] ELSE enc.table[phrase]

(* Mutant: the dictionary is cleared one entry too late.                   *)
FullLate(next_code) == next_code > MaxDictionaryCode

(* The encoder's table is full when the last code is next.                 *)
Full(next_code) == next_code >= MaxDictionaryCode

(* encode_lzw: a byte that makes the current phrase longer, or ends it.    *)
LzwByte ==
  LET next == data[pos + 1]
      longer == Append(enc.current, next) IN
  /\ stage = "code" /\ scheme = "Lzw" /\ ~foreign
  /\ codes = << >> /\ pos < Size
  /\ \/ /\ longer \in DOMAIN enc.table
        /\ enc' = [enc EXCEPT !.current = longer]
        /\ UNCHANGED codes
     \/ /\ longer \notin DOMAIN enc.table
        /\ IF Full(enc.next_code + 1)
             THEN /\ codes' = <<CodeOf(enc.current), ClearCode>>
                  /\ enc' = [current |-> <<next>>, table |-> NoPhrases,
                             next_code |-> FirstDictionaryCode]
             ELSE /\ codes' = <<CodeOf(enc.current)>>
                  /\ enc' = [current |-> <<next>>,
                             table |-> [p \in DOMAIN enc.table \cup {longer} |->
                                IF p = longer THEN enc.next_code ELSE enc.table[p]],
                             next_code |-> enc.next_code + 1]
  /\ pos' = pos + 1
  /\ UNCHANGED <<setup, stage, data, written, dec, output, noise>>

(* The last phrase and the end-of-information code.                        *)
LzwEnd ==
  /\ stage = "code" /\ scheme = "Lzw" /\ ~foreign
  /\ codes = << >> /\ pos = Size
  /\ codes' = <<CodeOf(enc.current), EoiCode>>
  /\ pos' = pos + 1
  /\ UNCHANGED <<setup, stage, data, enc, written, dec, output, noise>>

(* write_codes_to_bits, after a code: the first one adds no entry.         *)
WriterAfter(code) ==
  IF code = ClearCode THEN [table_size |-> FirstDictionaryCode, have_previous |-> FALSE]
  ELSE IF code = EoiCode THEN written
  ELSE [table_size |-> IF written.have_previous /\ written.table_size < MaxDictionaryCode
                         THEN written.table_size + 1
                       ELSE written.table_size,
        have_previous |-> TRUE]

FreshDecoder ==
  [table |-> [c \in {} |-> << >>], next_code |-> FirstDictionaryCode,
   code_width |-> FirstWidth, old_entry |-> << >>]

(* The phrase of a code, or none.                                          *)
Entry(code) ==
  IF code \in Bytes THEN <<code>>
  ELSE IF code >= FirstDictionaryCode /\ code < dec.next_code THEN dec.table[code]
  ELSE IF code = dec.next_code /\ dec.old_entry # << >>
    THEN Append(dec.old_entry, dec.old_entry[1])
  ELSE << >>

(* decode_lzw: the dictionary after an entry.                              *)
DecoderAfter(entry) ==
  IF dec.old_entry = << >> THEN [dec EXCEPT !.old_entry = entry]
  ELSE [table |-> [c \in DOMAIN dec.table \cup {dec.next_code} |->
                     IF c = dec.next_code THEN Append(dec.old_entry, entry[1]) ELSE dec.table[c]],
        next_code |-> dec.next_code + 1,
        code_width |-> DecoderWidth(dec.next_code + 1),
        old_entry |-> entry]

(* decode_lzw, one code.                                                   *)
Decode(code) ==
  LET entry == Entry(code)
      full == dec.old_entry # << >> /\ dec.next_code > MaxDictionaryCode IN
  \/ /\ code = ClearCode
     /\ dec' = FreshDecoder /\ GoesOn /\ UNCHANGED output
  \/ /\ code = EoiCode
     /\ UNCHANGED <<dec, output>>
     /\ IF Len(output) = Size THEN Succeeds ELSE Fails
  \/ /\ code \notin {ClearCode, EoiCode}
     /\ IF entry = << >> \/ Len(output) + Len(entry) > Size \/ full
          THEN Fails /\ UNCHANGED <<dec, output>>
        ELSE /\ output' = output \o entry /\ dec' = DecoderAfter(entry) /\ GoesOn

(* A code is written with the writer's width and read with the decoder's:  *)
(* if they differ, what is read is not what was written.                   *)
LzwCode ==
  LET code == Head(codes) IN
  /\ stage = "code" /\ scheme = "Lzw" /\ codes # << >>
  /\ codes' = Tail(codes)
  /\ written' = WriterAfter(code)
  /\ IF CodeWidthFor(written.table_size) = dec.code_width THEN Decode(code)
     ELSE Fails /\ UNCHANGED <<dec, output>>
  /\ UNCHANGED <<setup, pos, enc, noise>>

(* A stream of another program is any codes, and ends anywhere.            *)
ForeignCode(code) ==
  /\ stage = "code" /\ scheme = "Lzw" /\ foreign /\ noise < MaxNoise
  /\ code < 2^dec.code_width
  /\ noise' = noise + 1
  /\ Decode(code)
  /\ UNCHANGED <<setup, pos, enc, codes, written>>

ForeignEnd ==
  /\ stage = "code" /\ foreign
  /\ Fails
  /\ UNCHANGED <<setup, pos, coding>>

------------------------------------------------------------------------------
(* PackBits. A control is written with the bytes that belong to it.        *)

RunAt(p) ==
  CHOOSE n \in 1 .. Size - p :
    /\ \A k \in 1 .. n : data[p + k] = data[p + 1]
    /\ n = Size - p \/ data[p + n + 1] # data[p + 1]

(* Up to MaxRun bytes, each unlike the one before it.                      *)
LiteralAt(p) ==
  CHOOSE n \in 1 .. Size - p :
    /\ \A k \in 2 .. n : data[p + k] # data[p + k - 1]
    /\ n = Size - p \/ n = MaxRun \/ data[p + n + 1] = data[p + n]
    /\ n <= MaxRun

Repeat(n, byte) == [control |-> 1 - n, bytes |-> <<byte>>]
Chunks(n) == (n + MaxRun - 1) \div MaxRun

(* Mutant: the rest of a long run is thought to be a whole chunk.          *)
ChunkWhole(n, k) == MaxRun

ChunkLen(n, k) == IF k < Chunks(n) THEN MaxRun ELSE n - MaxRun * (Chunks(n) - 1)

(* encode_pack_bits: a run, in chunks.                                     *)
PackRun ==
  LET n == RunAt(pos) IN
  /\ stage = "code" /\ scheme = "PackBits" /\ ~foreign
  /\ codes = << >> /\ pos < Size /\ n >= 2
  /\ codes' = [k \in 1 .. Chunks(n) |-> Repeat(ChunkLen(n, k), data[pos + 1])]
  /\ pos' = pos + n
  /\ UNCHANGED <<setup, stage, data, enc, written, dec, output, noise>>

PackLiteral ==
  LET n == LiteralAt(pos) IN
  /\ stage = "code" /\ scheme = "PackBits" /\ ~foreign
  /\ codes = << >> /\ pos < Size /\ RunAt(pos) = 1
  /\ codes' = <<[control |-> n - 1, bytes |-> SubSeq(data, pos + 1, pos + n)]>>
  /\ pos' = pos + n
  /\ UNCHANGED <<setup, stage, data, enc, written, dec, output, noise>>

(* decode_pack_bits: what a control stands for. -MaxRun is no operation.   *)
Unpacked(t) ==
  IF t.control >= 0 THEN t.bytes
  ELSE IF t.control = -MaxRun THEN << >>
  ELSE [k \in 1 .. 1 - t.control |-> t.bytes[1]]

(* Mutant: a run goes on behind the end of the tile.                       *)
UnpackUnbounded(t) ==
  /\ output' = output \o Unpacked(t)
  /\ IF Len(output') >= Size THEN Succeeds ELSE GoesOn

Unpack(t) ==
  IF Len(output) + Len(Unpacked(t)) > Size THEN Fails /\ UNCHANGED output
  ELSE /\ output' = output \o Unpacked(t)
       /\ IF Len(output') = Size THEN Succeeds ELSE GoesOn

PackCode ==
  /\ stage = "code" /\ scheme = "PackBits" /\ codes # << >>
  /\ codes' = Tail(codes)
  /\ Unpack(Head(codes))
  /\ UNCHANGED <<setup, pos, enc, written, dec, noise>>

ForeignControl(control, byte) ==
  /\ stage = "code" /\ scheme = "PackBits" /\ foreign /\ noise < MaxNoise
  /\ noise' = noise + 1
  /\ Unpack([control |-> control, bytes |-> [k \in 1 .. (IF control < 0 THEN 1 ELSE control + 1) |-> byte]])
  /\ UNCHANGED <<setup, pos, enc, codes, written, dec>>

------------------------------------------------------------------------------
Init ==
  /\ tile \in Tiles
  /\ scheme \in {"Lzw", "PackBits"} /\ predictor \in BOOLEAN /\ foreign \in BOOLEAN
  /\ foreign => \A i \in DOMAIN tile.bytes : tile.bytes[i] = 0
  /\ stage = (IF foreign THEN "code" ELSE "apply") /\ data = tile.bytes
  /\ carry = ZeroCarry /\ col = 0 /\ pos = 0
  /\ enc = [current |-> << >>, table |-> NoPhrases, next_code |-> FirstDictionaryCode]
  /\ codes = << >>
  /\ written = [table_size |-> FirstDictionaryCode, have_previous |-> FALSE]
  /\ dec = FreshDecoder
  /\ output = << >> /\ noise = 0

(* The caller has the tile, or an error.                                   *)
Over == stage \in {"done", "failed"} /\ UNCHANGED vars

Next ==
  \/ ApplyColumn \/ Applied \/ UndoColumn \/ Undone
  \/ LzwByte \/ LzwEnd \/ LzwCode
  \/ PackRun \/ PackLiteral \/ PackCode
  \/ \E code \in 0 .. 2^LastWidth - 1 : ForeignCode(code)
  \/ \E control \in -MaxRun .. MaxRun - 1, byte \in Bytes : ForeignControl(control, byte)
  \/ ForeignEnd
  \/ Over

Spec == Init /\ [][Next]_vars

------------------------------------------------------------------------------
TypeOK ==
  /\ stage \in {"apply", "code", "undo", "done", "failed"}
  /\ Len(data) = Size /\ \A i \in DOMAIN data : data[i] \in Bytes
  /\ col \in 0 .. tile.row_width /\ pos \in 0 .. Size + 1
  /\ \A p \in DOMAIN enc.table : enc.table[p] \in FirstDictionaryCode .. MaxDictionaryCode - 2
  /\ noise \in 0 .. MaxNoise

(* What the reader gets is what the writer was given, through predictor    *)
(* and codec, and no tile of the program's own fails to decode.            *)
Decoded ==
  ~foreign => stage # "failed" /\ (stage = "done" => data = tile.bytes)

(* Encoder, bit writer and decoder of LZW count alike: every code is read  *)
(* with the width it was written with and fits in it, and the decoder's    *)
(* dictionary is the encoder's but for the entry that needs the next code. *)
InStep ==
  scheme = "Lzw" /\ ~foreign /\ stage = "code" =>
    /\ CodeWidthFor(written.table_size) = dec.code_width
    /\ codes # << >> => Head(codes) < 2^dec.code_width
    /\ codes = << >> =>
         /\ \A c \in DOMAIN dec.table :
              dec.table[c] \in DOMAIN enc.table /\ enc.table[dec.table[c]] = c
         /\ Cardinality(DOMAIN enc.table) - Cardinality(DOMAIN dec.table) =
              (IF dec.old_entry = << >> THEN 0 ELSE 1)

(* Whatever the stream, the decoder writes no more than the tile and looks *)
(* up no code it has no phrase for.                                        *)
DecoderSafe ==
  /\ Len(output) <= Size
  /\ dec.next_code <= MaxDictionaryCode + 1
  /\ DOMAIN dec.table = FirstDictionaryCode .. dec.next_code - 1
  /\ \A c \in DOMAIN dec.table : dec.table[c] # << >>
  /\ stage = "undo" => Len(output) = Size
=============================================================================
