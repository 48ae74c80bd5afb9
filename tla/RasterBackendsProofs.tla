------------------------ MODULE RasterBackendsProofs -----------------------
(***************************************************************************)
(* What holds of every document of the five raster backends, however many  *)
(* images, tiles and payloads there are, wherever the reader's cursor is   *)
(* and whichever writes the transport cuts short, as long as a caller puts *)
(* one Zarr or OpenEXR document in a writer: the cursors stay within the   *)
(* extent, a used reader finds what a new one finds, what was written      *)
(* reads back and what was not is refused. The invariant says where every  *)
(* cell of the document comes from.                                        *)
(***************************************************************************)
EXTENDS RasterBackends, WellFoundedInduction, SequenceTheorems, TLAPS

(* What the backends leave to their callers and the theorems assume.       *)
CarefulCallers == {"zarr", "openexr"} \intersect Backends \subseteq Careful

(* A sequence of cells, whatever the cells are.                            *)
IsRun(s) == s \in Seq({s[k] : k \in DOMAIN s})

------------------------------------------------------------------------------
(* The invariant: where everything in a document is.                       *)

(* The header of the document, and where a sink puts an image's pixels.    *)
HeadOf == IF form = "array" THEN ModelJson("array", models) ELSE Header(backend, models)
StartOf(i) ==
  IF form = "array" THEN ImagePixelOffset(models, i, JsonLen("array", models)) ELSE Len(HeadOf)

(* A tile's place, the cells of a payload there and the cells it takes up. *)
Stride(i) == IF backend = "zarr" THEN SlotSize(models[i]) ELSE TileBytes(models[i])
PlaceOf(i, t) == StartOf(i) + t * Stride(i)
CellsOf(i, p) ==
  IF backend = "zarr" THEN Slot(models[i], Compressed(models[i], p))
  ELSE TileRun(p, TileBytes(models[i]))
Area(i, t) == PlaceOf(i, t) + 1 .. PlaceOf(i, t) + Stride(i)

(* Only a list stores more than the first image.                           *)
Stored(i) == i \in DOMAIN models /\ (form = "array" \/ i = 1)
NoneAcked == \A i \in DOMAIN models : \A t \in Tiles(models[i]) : ~Acked(i, t)

(* The header stays in front.                                              *)
Headed == Len(HeadOf) <= Len(bytes) /\ \A k \in 1 .. Len(HeadOf) : bytes[k] = HeadOf[k]

(* What was acknowledged is in its place, whole.                           *)
Fits(i, p) == backend = "zarr" => 1 + Len(Compressed(models[i], p)) <= SlotSize(models[i])
Holds(i, t, p) ==
  /\ Fits(i, p)
  /\ PlaceOf(i, t) + Stride(i) <= Len(bytes)
  /\ \A k \in 1 .. Stride(i) : bytes[PlaceOf(i, t) + k] = CellsOf(i, p)[k]
Kept ==
  \A i \in DOMAIN models : \A t \in Tiles(models[i]) : Acked(i, t) => Holds(i, t, acked[i][t])

(* Behind the header of the pixel tier there is nothing but pixels.        *)
Pixel(cell) == \E p \in PayloadsOf[backend] : cell = <<"pix", p, cell[3]>>
Pixels == backend \in Tier => \A c \in Len(HeadOf) + 1 .. Len(bytes) : Pixel(bytes[c])

(* Without a failed write, every cell behind the header is of a tile that  *)
(* was acknowledged.                                                       *)
Covered ==
  faults = 0 =>
    \A c \in Len(HeadOf) + 1 .. Len(bytes) :
      \E i \in DOMAIN models : \E t \in Tiles(models[i]) : Acked(i, t) /\ c \in Area(i, t)

Blocks ==
  backend # "openexr" /\ form # "none" => Headed /\ Kept /\ Pixels /\ Covered

(* An OpenEXR document is nothing, blank, cut short or one payload.        *)
Whole ==
  backend = "openexr" /\ form # "none" =>
    LET m == First(models)
    IN  /\ ExrInfoOk(m)
        /\ \/ NoneAcked /\ bytes = <<>>
           \/ NoneAcked /\ bytes = ExrHeaderOnly(m)
           \/ NoneAcked /\ faults # 0 /\ bytes # <<>> /\ bytes[1] = ExrHeader(m)
           \/ \E p \in PayloadsOf[backend] :
                (\A t \in Tiles(m) : acked[1][t] = p) /\ bytes = ExrDocument(m, TileRun(p, m.spp))

AckedOpen ==
  \A i \in DOMAIN models : \A t \in Tiles(models[i]) : Acked(i, t) => form # "none" /\ Stored(i)

Types ==
  /\ backend \in Backends /\ models \in ModelLists
  /\ form \in {"none", "object", "array"}
  /\ form = "array" => backend = "memory"
  /\ form = "none" => bytes = <<>>
  /\ IsRun(bytes) /\ wpos \in 0 .. Len(bytes)
  /\ acked = [i \in DOMAIN models |-> acked[i]]
  /\ \A i \in DOMAIN models :
       acked[i] \in [Tiles(models[i]) -> PayloadsOf[backend] \union {Unknown}]
  /\ faults \in 0 .. MaxFaults

(* An open sink is of a stored image and starts where that image does.     *)
SinkPlaced ==
  sink \notin {NoSink, Unwound} =>
    /\ form # "none" /\ Stored(sink.image)
    /\ sink = [image |-> sink.image, start |-> IF backend = "openexr" THEN 0 ELSE StartOf(sink.image)]
    /\ sink.start <= Len(bytes)

(* What a new reader opens. An open source has opened the same.            *)
FreshDoc == IF form = "array" THEN ReadJson(bytes, 0, "array") ELSE Document(backend, bytes, 0)
FreshStart(i) == IF form = "array" THEN ListStart(FreshDoc, i) ELSE FreshDoc.start

Reads ==
  /\ rpos \in {NoReader} \union 0 .. Len(bytes)
  /\ rpos # NoReader => sink = NoSink /\ form # "none"
  /\ got \in Contents
  /\ source # NoSource =>
       /\ rpos # NoReader /\ FreshDoc.ok
       /\ \E i \in DOMAIN models :
            /\ Stored(i)
            /\ source = [image |-> <<FreshDoc.images[i]>>, start |-> FreshStart(i)]

Inv == Types /\ AckedOpen /\ Blocks /\ Whole /\ SinkPlaced /\ Reads

------------------------------------------------------------------------------
(* Numbers.                                                                *)

LEMMA LeastElement ==
  ASSUME NEW T, T \subseteq Nat, T # {}
  PROVE  \E x \in T : \A y \in T : x <= y
<1> DEFINE R == OpToRel(<, Nat)
<1>1. PICK x \in T : \A y \in T : ~(<<y, x>> \in R)
  <2>1. IsWellFoundedOn(R, Nat)
    BY NatLessThanWellFounded
  <2> HIDE DEF R
  <2> QED BY <2>1, WFMin
<1>2. \A y \in T : ~(y < x)
  BY <1>1, Zenon DEF OpToRel
<1> HIDE DEF R
<1> QED BY <1>1, <1>2

LEMMA TimesNat ==
  ASSUME NEW a \in Nat, NEW b \in Nat
  PROVE  a * b \in Nat
OBVIOUS

(* The place of one of n equal parts ends where the next may start. *)
LEMMA PartsApart ==
  ASSUME NEW t \in Nat, NEW u \in Nat, NEW s \in Nat, t < u
  PROVE  t * s + s <= u * s
<1>1. PICK d \in Nat : u = (t + 1) + d
  <2>1. u - (t + 1) \in Nat /\ u = (t + 1) + (u - (t + 1))
    OBVIOUS
  <2> QED BY <2>1
<1>2. u * s = t * s + s + d * s
  BY <1>1
<1>3. d * s \in Nat /\ t * s \in Nat
  OBVIOUS
<1> QED BY <1>2, <1>3

------------------------------------------------------------------------------
(* Runs of cells.                                                          *)

LEMMA RunFacts ==
  ASSUME NEW s, IsRun(s)
  PROVE  /\ Len(s) \in Nat /\ DOMAIN s = 1 .. Len(s)
         /\ s = [k \in 1 .. Len(s) |-> s[k]]
         /\ s = <<>> <=> Len(s) = 0
BY DEF IsRun

LEMMA FunctionRun ==
  ASSUME NEW n \in Nat, NEW f, f = [k \in 1 .. n |-> f[k]]
  PROVE  IsRun(f) /\ Len(f) = n /\ DOMAIN f = 1 .. n
<1>1. DOMAIN f = 1 .. n
  OBVIOUS
<1> DEFINE S == {f[k] : k \in 1 .. n}
<1>2. f \in [1 .. n -> S]
  OBVIOUS
<1>3. f \in Seq(S)
  BY <1>2
<1>4. S = {f[k] : k \in DOMAIN f}
  BY <1>1
<1> HIDE DEF S
<1>5. Len(f) = n
  BY <1>2, <1>3, <1>1
<1> QED BY <1>1, <1>3, <1>4, <1>5 DEF IsRun

LEMMA SameRun ==
  ASSUME NEW s, NEW r, IsRun(s), IsRun(r), Len(s) = Len(r), \A k \in 1 .. Len(s) : s[k] = r[k]
  PROVE  s = r
<1>1. s = [k \in 1 .. Len(s) |-> s[k]] /\ r = [k \in 1 .. Len(r) |-> r[k]]
  BY RunFacts
<1> QED BY <1>1

LEMMA EmptyRun == IsRun(<<>>) /\ Len(<<>>) = 0
BY DEF IsRun

LEMMA ConcatRun ==
  ASSUME NEW s, NEW r, IsRun(s), IsRun(r)
  PROVE  /\ IsRun(s \o r) /\ Len(s \o r) = Len(s) + Len(r)
         /\ \A k \in 1 .. Len(s) : (s \o r)[k] = s[k]
         /\ \A k \in 1 .. Len(r) : (s \o r)[Len(s) + k] = r[k]
<1> DEFINE S == {s[k] : k \in DOMAIN s} \union {r[k] : k \in DOMAIN r}
<1>1. Len(s) \in Nat /\ Len(r) \in Nat /\ DOMAIN s = 1 .. Len(s) /\ DOMAIN r = 1 .. Len(r)
  BY RunFacts
<1>2. s \in Seq(S) /\ r \in Seq(S)
  <2>1. s = [k \in 1 .. Len(s) |-> s[k]] /\ r = [k \in 1 .. Len(r) |-> r[k]]
    BY RunFacts
  <2>2. s \in [1 .. Len(s) -> S] /\ r \in [1 .. Len(r) -> S]
    BY <1>1, <2>1
  <2> HIDE DEF S
  <2> QED BY <1>1, <2>2
<1> HIDE DEF S
<1>3. /\ s \o r \in Seq(S) /\ Len(s \o r) = Len(s) + Len(r)
  BY <1>2
<1>4. \A k \in 1 .. Len(s) + Len(r) : (s \o r)[k] = IF k <= Len(s) THEN s[k] ELSE r[k - Len(s)]
  BY <1>2
<1>5. s \o r = [k \in 1 .. Len(s) + Len(r) |-> (s \o r)[k]]
  <2> DEFINE q == s \o r
  <2>1. q = [k \in 1 .. Len(q) |-> q[k]]
    <3> HIDE DEF q
    <3>1. q \in Seq(S)
      BY <1>3 DEF q
    <3> QED BY <3>1
  <2> QED BY <1>3, <2>1
<1>6. IsRun(s \o r)
  BY <1>1, <1>5, FunctionRun
<1>7. \A k \in 1 .. Len(s) : (s \o r)[k] = s[k]
  BY <1>1, <1>4
<1>8. ASSUME NEW k \in 1 .. Len(r) PROVE (s \o r)[Len(s) + k] = r[k]
  <2>1. Len(s) + k \in 1 .. Len(s) + Len(r) /\ ~(Len(s) + k <= Len(s)) /\ (Len(s) + k) - Len(s) = k
    BY <1>1
  <2> QED BY <1>4, <2>1
<1> QED BY <1>3, <1>6, <1>7, <1>8

LEMMA OneCell ==
  ASSUME NEW x
  PROVE  IsRun(<<x>>) /\ Len(<<x>>) = 1 /\ <<x>>[1] = x
<1>1. <<x>> = [k \in 1 .. 1 |-> <<x>>[k]]
  OBVIOUS
<1> QED BY <1>1, FunctionRun

LEMMA CutRun ==
  ASSUME NEW s, IsRun(s), NEW n \in Nat, n <= Len(s)
  PROVE  /\ IsRun(SubSeq(s, 1, n)) /\ Len(SubSeq(s, 1, n)) = n
         /\ \A k \in 1 .. n : SubSeq(s, 1, n)[k] = s[k]
<1>1. SubSeq(s, 1, n) = [k \in 1 .. n |-> s[k]]
  BY DEF IsRun
<1>2. SubSeq(s, 1, n) = [k \in 1 .. n |-> SubSeq(s, 1, n)[k]]
  BY <1>1
<1> QED BY <1>1, <1>2, FunctionRun

LEMMA ReadRun ==
  ASSUME NEW s, IsRun(s), NEW from \in Nat, NEW n \in Nat, from + n <= Len(s)
  PROVE  /\ IsRun(ReadAt(s, from, n)) /\ Len(ReadAt(s, from, n)) = n
         /\ \A k \in 1 .. n : ReadAt(s, from, n)[k] = s[from + k]
<1>1. Len(s) \in Nat /\ DOMAIN s = 1 .. Len(s) /\ s \in Seq({s[k] : k \in DOMAIN s})
  BY RunFacts DEF IsRun
<1> DEFINE r == ReadAt(s, from, n)
<1>2. r = SubSeq(s, from + 1, from + n)
  BY <1>1 DEF ReadAt
<1>3. r = [k \in 1 .. n |-> s[from + k]]
  BY <1>1, <1>2
<1> HIDE DEF r
<1>4. r = [k \in 1 .. n |-> r[k]]
  BY <1>3
<1> QED BY <1>3, <1>4, FunctionRun DEF r

LEMMA OverwriteIs ==
  ASSUME NEW s, NEW run, IsRun(s), IsRun(run), NEW from \in Nat, from <= Len(s)
  PROVE  /\ IsRun(Overwrite(s, from, run))
         /\ Len(Overwrite(s, from, run)) = IF from + Len(run) > Len(s) THEN from + Len(run) ELSE Len(s)
         /\ \A k \in 1 .. Len(run) : Overwrite(s, from, run)[from + k] = run[k]
         /\ \A c \in 1 .. Len(s) : c \notin from + 1 .. from + Len(run) => Overwrite(s, from, run)[c] = s[c]
<1> DEFINE n == IF from + Len(run) > Len(s) THEN from + Len(run) ELSE Len(s)
           f == Overwrite(s, from, run)
<1>1. Len(s) \in Nat /\ Len(run) \in Nat
  BY RunFacts
<1>2. n \in Nat /\ n >= Len(s) /\ n >= from + Len(run)
  BY <1>1
<1>3. f = [c \in 1 .. n |-> IF c \in from + 1 .. from + Len(run) THEN run[c - from] ELSE s[c]]
  BY DEF Overwrite
<1> HIDE DEF f, n
<1>4. f = [c \in 1 .. n |-> f[c]]
  BY <1>3
<1>5. IsRun(f) /\ Len(f) = n
  BY <1>2, <1>4, FunctionRun
<1>6. ASSUME NEW k \in 1 .. Len(run) PROVE f[from + k] = run[k]
  <2>1. from + k \in 1 .. n /\ from + k \in from + 1 .. from + Len(run) /\ (from + k) - from = k
    BY <1>1, <1>2
  <2> QED BY <1>3, <2>1
<1>7. ASSUME NEW c \in 1 .. Len(s), c \notin from + 1 .. from + Len(run) PROVE f[c] = s[c]
  <2>1. c \in 1 .. n
    BY <1>1, <1>2
  <2> QED BY <1>3, <1>7, <2>1
<1> QED BY <1>5, <1>6, <1>7 DEF f, n

------------------------------------------------------------------------------
(* Where the pixels of an image of a list start.                           *)

Past(ms, prefix, g, k) == IF k = 0 THEN prefix ELSE g[k - 1] + ImagePixelBytes(ms[k])

IsPast(ms, prefix, g) == g = [k \in 0 .. Len(ms) |-> Past(ms, prefix, g, k)]

LEMMA PastExists ==
  ASSUME NEW ms, NEW prefix, NEW n \in Nat
  PROVE  \E g : g = [k \in 0 .. n |-> Past(ms, prefix, g, k)]
<1> DEFINE T == {m \in Nat : ~ \E g : g = [k \in 0 .. m |-> Past(ms, prefix, g, k)]}
<1> SUFFICES ASSUME T # {} PROVE FALSE
  OBVIOUS
<1>1. PICK m \in T : \A y \in T : m <= y
  BY LeastElement
<1>2. CASE m = 0
  <2> DEFINE g == [k \in 0 .. 0 |-> prefix]
  <2>1. g = [k \in 0 .. 0 |-> Past(ms, prefix, g, k)]
    BY DEF Past
  <2> QED BY <1>1, <1>2, <2>1
<1>3. CASE m # 0
  <2>0. m \in Nat
    BY <1>1
  <2>1. m - 1 \in Nat /\ m - 1 \notin T
    BY <1>1, <1>3
  <2>2. PICK g : g = [k \in 0 .. m - 1 |-> Past(ms, prefix, g, k)]
    BY <2>1
  <2> DEFINE h == [k \in 0 .. m |-> IF k < m THEN g[k] ELSE Past(ms, prefix, g, m)]
  <2>3. ASSUME NEW k \in 0 .. m PROVE h[k] = Past(ms, prefix, h, k)
    <3>1. h[k] = Past(ms, prefix, g, k)
      <4>1. k < m => k \in 0 .. m - 1
        BY <2>0
      <4> QED BY <2>0, <2>2, <4>1
    <3>2. k # 0 => h[k - 1] = g[k - 1]
      <4>1. k # 0 => k - 1 \in 0 .. m /\ k - 1 < m
        BY <2>0
      <4> QED BY <4>1
    <3> HIDE DEF h
    <3> QED BY <3>1, <3>2 DEF Past
  <2>4. h = [k \in 0 .. m |-> Past(ms, prefix, h, k)]
    <3>1. h = [k \in 0 .. m |-> h[k]]
      OBVIOUS
    <3> HIDE DEF h
    <3> QED BY <3>1, <2>3
  <2> QED BY <1>1, <2>4
<1> QED BY <1>2, <1>3

LEMMA OffsetIs ==
  ASSUME NEW ms, NEW prefix, Len(ms) \in Nat
  PROVE  \E g : IsPast(ms, prefix, g) /\ \A i : ImagePixelOffset(ms, i, prefix) = g[i - 1]
<1> DEFINE past == CHOOSE g : IsPast(ms, prefix, g)
<1>1. \E g : IsPast(ms, prefix, g)
  BY PastExists DEF IsPast
<1>2. \A i : ImagePixelOffset(ms, i, prefix) = past[i - 1]
  BY DEF ImagePixelOffset, Past, IsPast
<1>3. IsPast(ms, prefix, past)
  BY <1>1
<1> HIDE DEF past
<1> QED BY <1>2, <1>3

LEMMA ModelTypes ==
  ASSUME NEW m \in Model
  PROVE  /\ TileBytes(m) \in Nat \ {0} /\ m.tiles \in Nat /\ ImagePixelBytes(m) \in Nat
         /\ ImagePixelBytes(m) = m.tiles * TileBytes(m)
         /\ Tiles(m) \subseteq Nat
BY DEF Model, TileBytes, ImagePixelBytes, Tiles

LEMMA ImagesApart ==
  ASSUME NEW ms \in Seq(Model), NEW prefix \in Nat, NEW i \in DOMAIN ms
  PROVE  /\ ImagePixelOffset(ms, i, prefix) \in Nat
         /\ prefix <= ImagePixelOffset(ms, i, prefix)
         /\ \A j \in DOMAIN ms : i < j =>
              ImagePixelOffset(ms, i, prefix) + ImagePixelBytes(ms[i]) <= ImagePixelOffset(ms, j, prefix)
<1>1. Len(ms) \in Nat /\ DOMAIN ms = 1 .. Len(ms) /\ \A k \in 1 .. Len(ms) : ms[k] \in Model
  OBVIOUS
<1>2. PICK g : IsPast(ms, prefix, g) /\ \A k : ImagePixelOffset(ms, k, prefix) = g[k - 1]
  BY <1>1, OffsetIs
<1>3. g[0] = prefix
  BY <1>1, <1>2 DEF IsPast, Past
<1>4. \A k \in 1 .. Len(ms) : ImagePixelBytes(ms[k]) \in Nat /\ g[k] = g[k - 1] + ImagePixelBytes(ms[k])
  <2> SUFFICES ASSUME NEW k \in 1 .. Len(ms)
               PROVE  ImagePixelBytes(ms[k]) \in Nat /\ g[k] = g[k - 1] + ImagePixelBytes(ms[k])
    OBVIOUS
  <2>1. k \in 0 .. Len(ms) /\ k # 0
    BY <1>1
  <2> QED BY <1>1, <1>2, <2>1, ModelTypes DEF IsPast, Past
<1> DEFINE T == {k \in Nat : k \in 0 .. Len(ms) /\ ~(g[k] \in Nat /\ g[k] >= prefix)}
<1>5. ASSUME T # {} PROVE FALSE
  <2>1. PICK k \in T : \A y \in T : k <= y
    BY <1>5, LeastElement
  <2>2. k # 0 /\ k \in 1 .. Len(ms)
    BY <1>1, <1>3, <2>1
  <2>3. k - 1 \in Nat /\ k - 1 \in 0 .. Len(ms) /\ k - 1 \notin T
    BY <1>1, <2>1, <2>2
  <2>4. g[k - 1] \in Nat /\ g[k - 1] >= prefix
    BY <2>3
  <2> QED BY <1>4, <2>1, <2>2, <2>4
<1>6. \A k \in 0 .. Len(ms) : g[k] \in Nat /\ g[k] >= prefix
  BY <1>1, <1>5
<1>7. i \in 1 .. Len(ms) /\ i - 1 \in 0 .. Len(ms)
  BY <1>1
<1>8. ASSUME NEW j \in DOMAIN ms, i < j PROVE g[i] <= g[j - 1]
  <2> DEFINE U == {k \in Nat : k \in i .. Len(ms) /\ ~(g[i] <= g[k])}
  <2>1. ASSUME U # {} PROVE FALSE
    <3>1. PICK k \in U : \A y \in U : k <= y
      BY <2>1, LeastElement
    <3>2. i \in 0 .. Len(ms) /\ g[i] \in Nat
      BY <1>1, <1>6, <1>7
    <3>3. k # i /\ k \in 1 .. Len(ms)
      BY <1>1, <1>7, <3>1, <3>2
    <3>4. k - 1 \in i .. Len(ms) /\ k - 1 \in Nat /\ k - 1 \in 0 .. Len(ms) /\ k - 1 \notin U
      BY <1>1, <1>7, <3>1, <3>3
    <3>5. g[i] <= g[k - 1] /\ g[k - 1] \in Nat
      BY <1>6, <3>4
    <3>6. g[k] = g[k - 1] + ImagePixelBytes(ms[k]) /\ ImagePixelBytes(ms[k]) \in Nat
      BY <1>4, <3>3
    <3> HIDE DEF U
    <3>7. g[i] <= g[k]
      BY <3>2, <3>5, <3>6
    <3> QED BY <3>1, <3>7 DEF U
  <2>2. j - 1 \in i .. Len(ms) /\ j - 1 \in Nat
    BY <1>1, <1>7, <1>8
  <2> QED BY <2>1, <2>2
<1>9. g[i] = g[i - 1] + ImagePixelBytes(ms[i])
  BY <1>4, <1>7
<1> QED BY <1>2, <1>6, <1>7, <1>8, <1>9

------------------------------------------------------------------------------
(* The shape of headers.                                                   *)

LEMMA TextIs ==
  ASSUME NEW kind, NEW ms, NEW n \in Nat
  PROVE  /\ IsRun(TextRun(kind, ms, n)) /\ Len(TextRun(kind, ms, n)) = n
         /\ \A k \in 1 .. n : TextRun(kind, ms, n)[k] = <<kind, ms, k>>
<1> DEFINE f == TextRun(kind, ms, n)
<1>1. f = [k \in 1 .. n |-> <<kind, ms, k>>]
  BY DEF TextRun
<1> HIDE DEF f
<1>2. f = [k \in 1 .. n |-> f[k]]
  BY <1>1
<1> QED BY <1>1, <1>2, FunctionRun DEF f

LEMMA TileRunIs ==
  ASSUME NEW p, NEW n \in Nat
  PROVE  /\ IsRun(TileRun(p, n)) /\ Len(TileRun(p, n)) = n
         /\ \A k \in 1 .. n : TileRun(p, n)[k] = <<"pix", p, k>>
<1> DEFINE f == TileRun(p, n)
<1>1. f = [k \in 1 .. n |-> <<"pix", p, k>>]
  BY DEF TileRun
<1> HIDE DEF f
<1>2. f = [k \in 1 .. n |-> f[k]]
  BY <1>1
<1> QED BY <1>1, <1>2, FunctionRun DEF f

(* A length word and the text it measures. *)
LEMMA MeasuredIs ==
  ASSUME NEW kind, NEW ms, NEW n \in Nat \ {0}
  PROVE  LET head == <<LengthWord(Len(TextRun(kind, ms, n)))>> \o TextRun(kind, ms, n)
         IN  /\ IsRun(head) /\ Len(head) = 1 + n
             /\ head[1] = <<"len", n, 0>>
             /\ \A k \in 1 .. n : head[1 + k] = <<kind, ms, k>>
<1> DEFINE text == TextRun(kind, ms, n)
           word == <<LengthWord(Len(text))>>
           head == word \o text
<1>1. IsRun(text) /\ Len(text) = n /\ \A k \in 1 .. n : text[k] = <<kind, ms, k>>
  BY TextIs
<1>2. IsRun(word) /\ Len(word) = 1 /\ word[1] = <<"len", n, 0>>
  BY <1>1, OneCell DEF LengthWord
<1> HIDE DEF text, word
<1>3. /\ IsRun(head) /\ Len(head) = 1 + n /\ head[1] = word[1]
      /\ \A k \in 1 .. n : head[1 + k] = text[k]
  <2>1. IsRun(word) /\ IsRun(text)
    BY <1>1, <1>2
  <2>2. IsRun(head) /\ Len(head) = Len(word) + Len(text)
    BY <2>1, ConcatRun
  <2>3. \A k \in 1 .. Len(word) : head[k] = word[k]
    BY <2>1, ConcatRun
  <2>4. \A k \in 1 .. Len(text) : head[Len(word) + k] = text[k]
    BY <2>1, ConcatRun
  <2> HIDE DEF head
  <2> QED BY <1>1, <1>2, <2>2, <2>3, <2>4
<1> QED BY <1>1, <1>2, <1>3 DEF text, word

(* Tiles, chunks and slots.                                                *)

LEMMA ContentIs ==
  ASSUME NEW p \in Payloads, NEW n \in Nat \ {0}
  PROVE  ContentOf(TileRun(p, n)) = p
<1> DEFINE run == TileRun(p, n)
<1>1. Len(run) = n /\ run[1] = <<"pix", p, 1>>
  BY TileRunIs
<1>2. \A q : run = TileRun(q, n) => q = p
  <2> SUFFICES ASSUME NEW q, run = TileRun(q, n) PROVE q = p
    OBVIOUS
  <2>1. TileRun(q, n)[1] = <<"pix", q, 1>>
    BY TileRunIs
  <2> QED BY <1>1, <2>1
<1>3. \E q \in Payloads : run = TileRun(q, n)
  OBVIOUS
<1> HIDE DEF run
<1>4. (CHOOSE q \in Payloads : run = TileRun(q, n)) = p
  BY <1>2, <1>3
<1> QED BY <1>1, <1>3, <1>4 DEF ContentOf, run

LEMMA CompressedIs ==
  ASSUME NEW m \in Model, NEW p \in Payloads
  PROVE  /\ IsRun(Compressed(m, p)) /\ Len(Compressed(m, p)) \in Nat \ {0}
         /\ m.compression # "None" => Compressed(m, p)[1] = <<"enc", p, 1>>
         /\ Decompressed(m, Compressed(m, p)) = p
<1> DEFINE run == Compressed(m, p)
<1>1. TileBytes(m) \in Nat \ {0}
  BY ModelTypes
<1>2. CASE m.compression = "None"
  <2>1. run = TileRun(p, TileBytes(m))
    BY <1>2 DEF Compressed
  <2>2. IsRun(run) /\ Len(run) = TileBytes(m)
    BY <1>1, <2>1, TileRunIs
  <2>3. Decompressed(m, run) = p
    BY <1>1, <1>2, <2>1, <2>2, ContentIs DEF Decompressed
  <2> QED BY <1>1, <1>2, <2>2, <2>3
<1>3. CASE m.compression # "None"
  <2>1. \A q : Compressed(m, q) = [k \in 1 .. CompLen[q] |-> <<"enc", q, k>>]
    BY <1>3 DEF Compressed
  <2>2. \A q \in Payloads : CompLen[q] \in Nat \ {0}
    BY ChunksAssumption
  <2>3. ASSUME NEW q \in Payloads PROVE Compressed(m, q)[1] = <<"enc", q, 1>>
    <3>1. 1 \in 1 .. CompLen[q]
      BY <2>2
    <3> QED BY <2>1, <3>1
  <2>4. IsRun(run) /\ Len(run) = CompLen[p]
    <3>1. run = [k \in 1 .. CompLen[p] |-> run[k]]
      BY <2>1
    <3> HIDE DEF run
    <3> QED BY <2>2, <3>1, FunctionRun
  <2>5. \A q \in Payloads : run = Compressed(m, q) => q = p
    BY <2>3
  <2>6. (CHOOSE q \in Payloads : run = Compressed(m, q)) = p
    <3>1. \E q \in Payloads : run = Compressed(m, q)
      OBVIOUS
    <3> HIDE DEF run
    <3> QED BY <2>5, <3>1
  <2>7. Decompressed(m, run) = p
    BY <1>3, <2>6 DEF Decompressed
  <2> QED BY <2>2, <2>3, <2>4, <2>7
<1> QED BY <1>2, <1>3

LEMMA SlotTypes ==
  ASSUME NEW m \in Model
  PROVE  PayloadBound(m) \in Nat \ {0} /\ SlotSize(m) = 1 + PayloadBound(m) /\ SlotSize(m) \in Nat \ {0}
BY ModelTypes, ChunksAssumption DEF PayloadBound, SlotSize

LEMMA SlotIs ==
  ASSUME NEW m \in Model, NEW run, IsRun(run), 1 + Len(run) <= SlotSize(m)
  PROVE  /\ IsRun(Slot(m, run)) /\ Len(Slot(m, run)) = SlotSize(m)
         /\ Slot(m, run)[1] = <<"len", Len(run), 0>>
         /\ \A k \in 1 .. Len(run) : Slot(m, run)[1 + k] = run[k]
<1> DEFINE n == SlotSize(m) - 1 - Len(run)
           word == <<LengthWord(Len(run))>>
           pad == [k \in 1 .. n |-> <<"pad", 0, 0>>]
           front == word \o run
<1>1. n \in Nat /\ Len(run) \in Nat /\ SlotSize(m) \in Nat
  BY SlotTypes, RunFacts
<1>2. IsRun(word) /\ Len(word) = 1 /\ word[1] = <<"len", Len(run), 0>>
  BY OneCell DEF LengthWord
<1>3. IsRun(pad) /\ Len(pad) = n
  <2>1. pad = [k \in 1 .. n |-> pad[k]]
    OBVIOUS
  <2> HIDE DEF pad, n
  <2> QED BY <1>1, <2>1, FunctionRun
<1>4. Slot(m, run) = front \o pad
  BY DEF Slot
<1> HIDE DEF n, word, pad
<1>5. /\ IsRun(front) /\ Len(front) = Len(word) + Len(run)
      /\ \A k \in 1 .. Len(word) : front[k] = word[k]
      /\ \A k \in 1 .. Len(run) : front[Len(word) + k] = run[k]
  <2>0. IsRun(word) /\ IsRun(run)
    BY <1>2
  <2>1. IsRun(front) /\ Len(front) = Len(word) + Len(run)
    BY <2>0, ConcatRun
  <2>2. \A k \in 1 .. Len(word) : front[k] = word[k]
    BY <2>0, ConcatRun
  <2>3. \A k \in 1 .. Len(run) : front[Len(word) + k] = run[k]
    BY <2>0, ConcatRun
  <2> QED BY <2>1, <2>2, <2>3
<1> HIDE DEF front
<1>6. IsRun(front \o pad) /\ Len(front \o pad) = Len(front) + Len(pad)
  BY <1>3, <1>5, ConcatRun
<1>7. \A k \in 1 .. Len(front) : (front \o pad)[k] = front[k]
  BY <1>3, <1>5, ConcatRun
<1>8. Len(front) + Len(pad) = SlotSize(m)
  <2>1. Len(front) = 1 + Len(run) /\ Len(pad) = SlotSize(m) - 1 - Len(run)
    BY <1>2, <1>3, <1>5 DEF n
  <2> QED BY <1>1, <2>1
<1>9. (front \o pad)[1] = <<"len", Len(run), 0>>
  BY <1>1, <1>2, <1>5, <1>7
<1>10. ASSUME NEW k \in 1 .. Len(run) PROVE (front \o pad)[1 + k] = run[k]
  <2>1. 1 + k \in 1 .. Len(front)
    BY <1>1, <1>2, <1>5
  <2> QED BY <1>2, <1>5, <1>7, <2>1
<1> QED BY <1>4, <1>6, <1>8, <1>9, <1>10

(* What is read from a place that holds a tile, or its slot. *)
LEMMA BlockTileIs ==
  ASSUME NEW b, IsRun(b), NEW m \in Model, NEW start \in Nat, NEW t \in Tiles(m), NEW p \in Payloads,
         start + t * TileBytes(m) + TileBytes(m) <= Len(b),
         \A k \in 1 .. TileBytes(m) : b[start + t * TileBytes(m) + k] = TileRun(p, TileBytes(m))[k]
  PROVE  BlockTile(b, m, start, t) = p
<1> DEFINE n == TileBytes(m)
           from == TileOffset(m, start, t)
           run == ReadAt(b, from, n)
<1>1. n \in Nat \ {0} /\ t \in Nat
  BY ModelTypes
<1>2. from = start + t * n /\ from \in Nat
  BY <1>1, TimesNat DEF TileOffset
<1> HIDE DEF n, from
<1>3. from + n <= Len(b) /\ \A k \in 1 .. n : b[from + k] = TileRun(p, n)[k]
  BY <1>2 DEF n
<1>4. IsRun(run) /\ Len(run) = n /\ \A k \in 1 .. n : run[k] = b[from + k]
  BY <1>1, <1>2, <1>3, ReadRun
<1>5. IsRun(TileRun(p, n)) /\ Len(TileRun(p, n)) = n
  BY <1>1, TileRunIs
<1> HIDE DEF run
<1>6. run = TileRun(p, n)
  BY <1>3, <1>4, <1>5, SameRun
<1>7. ContentOf(run) = p
  BY <1>1, <1>6, ContentIs
<1>8. ~(from + n > Len(b))
  BY <1>1, <1>2, <1>3, RunFacts
<1> QED BY <1>7, <1>8 DEF BlockTile, run, from, n

LEMMA ZarrTileIs ==
  ASSUME NEW b, IsRun(b), NEW m \in Model, NEW start \in Nat, NEW t \in Tiles(m), NEW p \in Payloads,
         1 + Len(Compressed(m, p)) <= SlotSize(m),
         start + t * SlotSize(m) + SlotSize(m) <= Len(b),
         \A k \in 1 .. SlotSize(m) : b[start + t * SlotSize(m) + k] = Slot(m, Compressed(m, p))[k]
  PROVE  ZarrTile(b, m, start, t) = p
<1> DEFINE n == SlotSize(m)
           from == SlotOffset(m, start, t)
           run == Compressed(m, p)
           read == ReadAt(b, from + 1, Len(run))
<1>1. n \in Nat \ {0} /\ t \in Nat /\ Len(b) \in Nat
  BY ModelTypes, SlotTypes, RunFacts
<1>2. from = start + t * n /\ from \in Nat
  BY <1>1, TimesNat DEF SlotOffset
<1>3. IsRun(run) /\ Len(run) \in Nat \ {0} /\ 1 + Len(run) <= n /\ Decompressed(m, run) = p
  BY CompressedIs
<1>4. Slot(m, run)[1] = <<"len", Len(run), 0>> /\ \A k \in 1 .. Len(run) : Slot(m, run)[1 + k] = run[k]
  BY <1>3, SlotIs
<1> HIDE DEF n, from
<1>5. from + n <= Len(b) /\ \A k \in 1 .. n : b[from + k] = Slot(m, run)[k]
  BY <1>2 DEF n
<1> HIDE DEF run
<1>6. b[from + 1] = <<"len", Len(run), 0>>
  BY <1>1, <1>4, <1>5
<1>7. /\ IsRun(read) /\ Len(read) = Len(run)
      /\ \A k \in 1 .. Len(run) : read[k] = b[(from + 1) + k]
  <2>1. (from + 1) + Len(run) <= Len(b) /\ from + 1 \in Nat
    BY <1>1, <1>2, <1>3, <1>5
  <2> QED BY <1>3, <2>1, ReadRun
<1> HIDE DEF read
<1>8. read = run
  <2>1. ASSUME NEW k \in 1 .. Len(run) PROVE read[k] = run[k]
    <3>1. 1 + k \in 1 .. n /\ from + (1 + k) = (from + 1) + k
      BY <1>1, <1>2, <1>3
    <3> QED BY <1>4, <1>5, <1>7, <3>1
  <2> QED BY <1>3, <1>7, <2>1, SameRun
<1>9. Len(run) \in 1 .. n - 1 /\ ~(from + n > Len(b))
  BY <1>1, <1>2, <1>3, <1>5
<1> QED BY <1>3, <1>6, <1>8, <1>9 DEF ZarrTile, read, from, n

(* OpenEXR documents.                                                      *)

ChannelOf(spp, k) == CHOOSE c \in 1 .. spp : ChannelSlots(spp)[c] = k

LEMMA SlotOfChannel ==
  ASSUME NEW spp \in {1, 3, 4}, NEW k \in 1 .. spp
  PROVE  \E c \in 1 .. spp : ChannelSlots(spp)[c] = k
<1>1. CASE spp = 1
  BY <1>1 DEF ChannelSlots
<1>2. CASE spp = 3
  <2>1. ChannelSlots(spp) = <<3, 2, 1>> /\ k \in {1, 2, 3}
    BY <1>2 DEF ChannelSlots
  <2>2. 4 - k \in 1 .. spp /\ ChannelSlots(spp)[4 - k] = k
    BY <1>2, <2>1
  <2> QED BY <2>2
<1>3. CASE spp = 4
  <2>1. ChannelSlots(spp) = <<4, 3, 2, 1>> /\ k \in {1, 2, 3, 4}
    BY <1>3 DEF ChannelSlots
  <2>2. 5 - k \in 1 .. spp /\ ChannelSlots(spp)[5 - k] = k
    BY <1>3, <2>1
  <2> QED BY <2>2
<1> QED BY <1>1, <1>2, <1>3

LEMMA ExrSpp ==
  ASSUME NEW m \in Model, ExrInfoOk(m)
  PROVE  m.spp \in {1, 3, 4} /\ (m.tiles = 1 \/ ~m.extent)
BY DEF ExrInfoOk, Model

LEMMA ExrDocumentIs ==
  ASSUME NEW m \in Model, m.spp \in {1, 3, 4}, NEW samples
  PROVE  /\ IsRun(ExrDocument(m, samples)) /\ Len(ExrDocument(m, samples)) = 1 + m.spp
         /\ ExrDocument(m, samples) # <<>> /\ ExrDocument(m, samples)[1] = ExrHeader(m)
         /\ \A c \in 1 .. m.spp : ExrDocument(m, samples)[1 + c] = samples[ChannelSlots(m.spp)[c]]
<1> DEFINE n == m.spp
           front == <<ExrHeader(m)>>
           channels == [c \in 1 .. n |-> samples[ChannelSlots(n)[c]]]
           doc == front \o channels
<1>1. IsRun(front) /\ Len(front) = 1 /\ front[1] = ExrHeader(m)
  BY OneCell
<1>2. IsRun(channels) /\ Len(channels) = n
  <2>1. channels = [c \in 1 .. n |-> channels[c]]
    OBVIOUS
  <2>2. n \in Nat
    OBVIOUS
  <2> HIDE DEF channels, n
  <2> QED BY <2>1, <2>2, FunctionRun
<1>3. \A c \in 1 .. n : channels[c] = samples[ChannelSlots(n)[c]]
  OBVIOUS
<1>4. ExrDocument(m, samples) = doc /\ n \in Nat
  BY DEF ExrDocument
<1> HIDE DEF front, channels, n
<1>5. IsRun(doc) /\ Len(doc) = Len(front) + Len(channels)
  BY <1>1, <1>2, ConcatRun
<1>6. \A k \in 1 .. Len(front) : doc[k] = front[k]
  BY <1>1, <1>2, ConcatRun
<1>7. \A k \in 1 .. Len(channels) : doc[Len(front) + k] = channels[k]
  BY <1>1, <1>2, ConcatRun
<1> HIDE DEF doc
<1>8. Len(doc) = 1 + n /\ doc[1] = ExrHeader(m) /\ doc # <<>>
  BY <1>1, <1>2, <1>4, <1>5, <1>6, RunFacts
<1>9. \A c \in 1 .. n : doc[1 + c] = samples[ChannelSlots(n)[c]]
  BY <1>1, <1>2, <1>3, <1>7
<1> QED BY <1>4, <1>5, <1>8, <1>9 DEF n

LEMMA OpenedIs ==
  ASSUME NEW ms, NEW start, NEW cursor
  PROVE  LET doc == Opened(ms, start, cursor)
         IN  /\ (doc.ok <=> ms # <<>>) /\ doc.images = ms
             /\ doc.start = start /\ doc.cursor = cursor
BY DEF Opened

(* The image a document whose header survived opens with. *)
LEMMA ReadExrIs ==
  ASSUME NEW b, IsRun(b), b # <<>>, NEW m \in Model, m.spp \in {1, 3, 4}, b[1] = ExrHeader(m)
  PROVE  /\ ReadExr(b).ok /\ ReadExr(b).images # <<>>
         /\ ReadExr(b).images[1].spp = m.spp /\ Tiles(ReadExr(b).images[1]) = {0}
         /\ ReadExr(b).start = 1 /\ ReadExr(b).cursor = 1 /\ 1 <= Len(b)
<1>1. b[1][1] = "exr" /\ b[1][2] = ChannelNames(m.spp)
  BY DEF ExrHeader
<1> DEFINE image == [tiles |-> 1, spp |-> ExrSamples(b[1][2]), type |-> b[1][3],
                     compression |-> "None", extent |-> FALSE, tiled |-> FALSE]
<1>2. ReadExr(b) = Opened(<<image>>, 1, 1)
  BY <1>1 DEF ReadExr
<1>3. ExrSamples(ChannelNames(m.spp)) = m.spp
  <2>1. CASE m.spp = 1
    BY <2>1 DEF ExrSamples, ChannelNames
  <2>2. CASE m.spp = 3
    BY <2>2 DEF ExrSamples, ChannelNames
  <2>3. CASE m.spp = 4
    BY <2>3 DEF ExrSamples, ChannelNames
  <2> QED BY <2>1, <2>2, <2>3
<1>4. image.spp = m.spp /\ image.tiles = 1
  BY <1>1, <1>3
<1>5. Tiles(image) = {0}
  BY <1>4 DEF Tiles
<1>6. 1 <= Len(b)
  BY RunFacts
<1> HIDE DEF image
<1> DEFINE s == <<image>>
<1>7. s # <<>> /\ s[1] = image
  OBVIOUS
<1> HIDE DEF s
<1>8. /\ ReadExr(b).ok /\ ReadExr(b).images = s
      /\ ReadExr(b).start = 1 /\ ReadExr(b).cursor = 1
  <2>1. ReadExr(b) = Opened(s, 1, 1)
    BY <1>2 DEF s
  <2> QED BY <1>7, <2>1, OpenedIs
<1> QED BY <1>4, <1>5, <1>6, <1>7, <1>8

LEMMA ExrTileIs ==
  ASSUME NEW m \in Model, m.spp \in {1, 3, 4}, NEW pixel, pixel = [k \in 1 .. m.spp |-> pixel[k]],
         NEW i, i.spp = m.spp, Tiles(i) = {0}
  PROVE  ExrTile(ExrDocument(m, pixel), i, 0) =
           IF \A k \in 1 .. m.spp : pixel[k] = Blank THEN Blank ELSE ContentOf(pixel)
<1> DEFINE n == m.spp
           b == ExrDocument(m, pixel)
           stored == ReadAt(b, 1, n)
<1>1. /\ n \in Nat /\ n \in {1, 3, 4} /\ IsRun(b) /\ Len(b) = 1 + n
      /\ \A c \in 1 .. n : b[1 + c] = pixel[ChannelSlots(n)[c]]
  BY ExrDocumentIs
<1> HIDE DEF n, b
<1>2. \A c \in 1 .. n : stored[c] = pixel[ChannelSlots(n)[c]]
  BY <1>1, ReadRun
<1> HIDE DEF stored
<1>3. ExrPixel(i, stored) = [k \in 1 .. n |-> stored[ChannelOf(n, k)]]
  BY DEF ExrPixel, ChannelOf, n
<1>4. ASSUME NEW k \in 1 .. n
      PROVE  stored[ChannelOf(n, k)] = pixel[k]
  <2> DEFINE c == ChannelOf(n, k)
  <2>1. c \in 1 .. n /\ ChannelSlots(n)[c] = k
    <3>1. n \in {1, 3, 4}
      BY <1>1
    <3>2. \E d \in 1 .. n : ChannelSlots(n)[d] = k
      BY <3>1, SlotOfChannel
    <3> QED BY <3>2 DEF ChannelOf
  <2> HIDE DEF c
  <2>2. stored[c] = pixel[k]
    BY <1>2, <2>1
  <2> QED BY <2>2 DEF c
<1>5. ExrPixel(i, stored) = pixel
  <2>1. pixel = [k \in 1 .. n |-> pixel[k]]
    BY DEF n
  <2>2. DOMAIN ExrPixel(i, stored) = 1 .. n /\ \A k \in 1 .. n : ExrPixel(i, stored)[k] = pixel[k]
    BY <1>3, <1>4
  <2>3. ExrPixel(i, stored) = [k \in 1 .. n |-> ExrPixel(i, stored)[k]]
    BY <1>3
  <2> HIDE DEF n
  <2> QED BY <2>1, <2>2, <2>3
<1>6. ExrTile(b, i, 0) = IF \A k \in 1 .. n : pixel[k] = Blank THEN Blank ELSE ContentOf(pixel)
  <2>1. 0 \in Tiles(i) /\ ~(1 + i.spp > Len(b)) /\ i.spp = n
    BY <1>1 DEF n
  <2> QED BY <1>5, <2>1 DEF ExrTile, stored
<1> QED BY <1>6 DEF n, b

LEMMA ExrWritten ==
  ASSUME NEW m \in Model, m.spp \in {1, 3, 4}, NEW p \in Payloads,
         NEW i, i.spp = m.spp, Tiles(i) = {0}
  PROVE  ExrTile(ExrDocument(m, TileRun(p, m.spp)), i, 0) = p
<1>1. m.spp \in Nat \ {0}
  OBVIOUS
<1> DEFINE pixel == TileRun(p, m.spp)
<1>2. IsRun(pixel) /\ Len(pixel) = m.spp /\ pixel[1] = <<"pix", p, 1>>
  BY <1>1, TileRunIs
<1>3. ExrTile(ExrDocument(m, pixel), i, 0) =
        IF \A k \in 1 .. m.spp : pixel[k] = Blank THEN Blank ELSE ContentOf(pixel)
  <2> HIDE DEF pixel
  <2>1. pixel = [k \in 1 .. m.spp |-> pixel[k]]
    BY <1>2, RunFacts
  <2> QED BY <2>1, ExrTileIs
<1>4. pixel[1] # Blank
  BY <1>2 DEF Blank
<1>5. 1 \in 1 .. m.spp
  BY <1>1
<1> QED BY <1>1, <1>3, <1>4, <1>5, ContentIs

LEMMA ExrBlank ==
  ASSUME NEW m \in Model, m.spp \in {1, 3, 4}, NEW i, i.spp = m.spp, Tiles(i) = {0}
  PROVE  ExrTile(ExrHeaderOnly(m), i, 0) = Blank
<1> DEFINE blank == [k \in 1 .. m.spp |-> Blank]
<1>1. ExrTile(ExrDocument(m, blank), i, 0) =
        IF \A k \in 1 .. m.spp : blank[k] = Blank THEN Blank ELSE ContentOf(blank)
  <2>1. blank = [k \in 1 .. m.spp |-> blank[k]]
    OBVIOUS
  <2> HIDE DEF blank
  <2> QED BY <2>1, ExrTileIs
<1>2. \A k \in 1 .. m.spp : blank[k] = Blank
  OBVIOUS
<1> QED BY <1>1, <1>2 DEF ExrHeaderOnly

------------------------------------------------------------------------------
(* Documents.                                                              *)

LEMMA ModelsFacts ==
  ASSUME models \in ModelLists
  PROVE  /\ models \in Seq(Model) /\ Len(models) \in Nat \ {0} /\ DOMAIN models = 1 .. Len(models)
         /\ \A i \in DOMAIN models :
              models[i] \in Model /\ (models[i].extent \/ models[i].tiles = 0)
         /\ 1 \in DOMAIN models /\ First(models) = models[1] /\ First(models) \in Model
<1>1. models # <<>> /\ models \in Seq(Model)
      /\ \A i \in DOMAIN models : models[i].extent \/ models[i].tiles = 0
  BY DocumentsAssumption
<1>2. Len(models) \in Nat /\ DOMAIN models = 1 .. Len(models) /\ Len(models) # 0
  BY <1>1
<1>3. \A i \in DOMAIN models : models[i] \in Model
  BY <1>1
<1>4. 1 \in DOMAIN models
  BY <1>2
<1> QED BY <1>1, <1>2, <1>3, <1>4 DEF First

LEMMA BackendFacts ==
  ASSUME Types
  PROVE  /\ backend \in {"memory", "pds4", "isis", "zarr", "openexr"}
         /\ backend # "memory" => form # "array"
         /\ PayloadsOf[backend] \subseteq Payloads /\ Unknown \notin PayloadsOf[backend]
BY DocumentsAssumption DEF Types

LEMMA HeadIs ==
  ASSUME Types, form # "none", backend # "openexr"
  PROVE  /\ IsRun(HeadOf) /\ Len(HeadOf) \in Nat \ {0}
         /\ backend = "memory" =>
              /\ Len(HeadOf) = JsonLen(form, models)
              /\ \A k \in 1 .. Len(HeadOf) : HeadOf[k] = <<form, models, k>>
         /\ backend = "pds4" =>
              /\ Len(HeadOf) = 3 /\ HeadOf[1] = <<"len", 2, 0>>
              /\ \A k \in 1 .. 2 : HeadOf[1 + k] = <<"label", <<First(models)>>, k>>
         /\ backend = "isis" =>
              /\ Len(HeadOf) = 2
              /\ \A k \in 1 .. 2 : HeadOf[k] = <<"label", <<First(models)>>, k>>
         /\ backend = "zarr" =>
              /\ ShapeLen(First(models)) \in Nat \ {0} /\ Len(HeadOf) = 1 + ShapeLen(First(models))
              /\ HeadOf[1] = <<"len", ShapeLen(First(models)), 0>>
              /\ \A k \in 1 .. ShapeLen(First(models)) :
                   HeadOf[1 + k] = <<"shape", <<First(models)>>, k>>
<1> DEFINE m == First(models)
<1>1. form \in {"object", "array"} /\ Len(models) \in Nat \ {0} /\ m \in Model
  BY ModelsFacts DEF Types
<1>2. CASE backend = "memory"
  <2>1. HeadOf = TextRun(form, models, JsonLen(form, models))
    BY <1>1, <1>2 DEF HeadOf, Header, ModelJson
  <2>2. JsonLen(form, models) \in Nat \ {0}
    BY <1>1 DEF JsonLen
  <2>3. /\ IsRun(HeadOf) /\ Len(HeadOf) = JsonLen(form, models)
        /\ \A k \in 1 .. JsonLen(form, models) : HeadOf[k] = <<form, models, k>>
    BY <2>1, <2>2, TextIs
  <2> QED BY <1>2, <2>2, <2>3
<1>3. CASE backend = "pds4"
  <2>1. HeadOf = <<LengthWord(Len(TextRun("label", <<m>>, 2)))>> \o TextRun("label", <<m>>, 2)
    BY <1>3, BackendFacts DEF HeadOf, Header, Pds4Header, Pds4Label, LabelLen
  <2>2. /\ IsRun(HeadOf) /\ Len(HeadOf) = 1 + 2 /\ HeadOf[1] = <<"len", 2, 0>>
        /\ \A k \in 1 .. 2 : HeadOf[1 + k] = <<"label", <<m>>, k>>
    <3> DEFINE ms == <<m>>
               n == 2
    <3>1. HeadOf = <<LengthWord(Len(TextRun("label", ms, n)))>> \o TextRun("label", ms, n)
      BY <2>1
    <3>2. n \in Nat \ {0}
      OBVIOUS
    <3> HIDE DEF ms, n
    <3>3. /\ IsRun(HeadOf) /\ Len(HeadOf) = 1 + n /\ HeadOf[1] = <<"len", n, 0>>
          /\ \A k \in 1 .. n : HeadOf[1 + k] = <<"label", ms, k>>
      BY <3>1, <3>2, MeasuredIs
    <3> QED BY <3>3 DEF ms, n
  <2> QED BY <1>3, <2>2
<1>4. CASE backend = "isis"
  <2>1. HeadOf = TextRun("label", <<m>>, 2)
    BY <1>4, BackendFacts DEF HeadOf, Header, IsisLabel, LabelLen
  <2>2. IsRun(HeadOf) /\ Len(HeadOf) = 2 /\ \A k \in 1 .. 2 : HeadOf[k] = <<"label", <<m>>, k>>
    <3> DEFINE ms == <<m>>
               n == 2
    <3>1. HeadOf = TextRun("label", ms, n) /\ n \in Nat
      BY <2>1
    <3> HIDE DEF ms, n
    <3>2. IsRun(HeadOf) /\ Len(HeadOf) = n /\ \A k \in 1 .. n : HeadOf[k] = <<"label", ms, k>>
      BY <3>1, TextIs
    <3> QED BY <3>2 DEF ms, n
  <2> QED BY <1>4, <2>2
<1>5. CASE backend = "zarr"
  <2> DEFINE n == ShapeLen(m)
  <2>1. HeadOf = <<LengthWord(Len(TextRun("shape", <<m>>, n)))>> \o TextRun("shape", <<m>>, n)
    BY <1>5, BackendFacts DEF HeadOf, Header, ZarrHeader, ZarrShape
  <2>2. n \in Nat \ {0}
    BY ShapeAssumption DEF ShapeLen
  <2> HIDE DEF n
  <2>3. /\ IsRun(HeadOf) /\ Len(HeadOf) = 1 + n /\ HeadOf[1] = <<"len", n, 0>>
        /\ \A k \in 1 .. n : HeadOf[1 + k] = <<"shape", <<m>>, k>>
    BY <2>1, <2>2, MeasuredIs
  <2> QED BY <1>5, <2>2, <2>3 DEF n
<1> QED BY <1>2, <1>3, <1>4, <1>5, BackendFacts

(* The n pieces of a text are at a place. *)
TextAt(b, from, kind, n, ms) ==
  /\ from \in Nat /\ n \in Nat \ {0} /\ from + n <= Len(b)
  /\ \A k \in 1 .. n : b[from + k] = <<kind, ms, k>>

LEMMA ParsedIs ==
  ASSUME NEW b, IsRun(b), NEW from, NEW n, NEW kind, NEW ms, TextAt(b, from, kind, n, ms)
  PROVE  ParsedText(b, from, kind, n) = ms
<1> USE DEF TextAt
<1> DEFINE run == ReadAt(b, from, n)
<1>1. IsRun(run) /\ Len(run) = n /\ \A k \in 1 .. n : run[k] = <<kind, ms, k>>
  <2>1. IsRun(run) /\ Len(run) = n /\ \A k \in 1 .. n : run[k] = b[from + k]
    BY ReadRun
  <2> HIDE DEF run
  <2> QED BY <2>1
<1> HIDE DEF run
<1>2. run[1][1] = kind /\ run[1][2] = ms
  <2>1. run[1] = <<kind, ms, 1>>
    BY <1>1
  <2> QED BY <2>1
<1>3. run = TextRun(kind, ms, n)
  <2>1. /\ IsRun(TextRun(kind, ms, n)) /\ Len(TextRun(kind, ms, n)) = n
        /\ \A k \in 1 .. n : TextRun(kind, ms, n)[k] = <<kind, ms, k>>
    BY TextIs
  <2> QED BY <1>1, <2>1, SameRun
<1>4. ~(from + n > Len(b) \/ n = 0)
  BY RunFacts
<1> QED BY <1>2, <1>3, <1>4 DEF ParsedText, run

(* A text that parses starts with its own first piece. *)
LEMMA ParsedStart ==
  ASSUME NEW b, IsRun(b), NEW from \in Nat, NEW n \in Nat \ {0}, NEW kind,
         ParsedText(b, from, kind, n) # <<>>
  PROVE  from + n <= Len(b) /\ b[from + 1] = <<kind, b[from + 1][2], 1>>
<1> DEFINE run == ReadAt(b, from, n)
<1>1. /\ ~(from + n > Len(b))
      /\ run = TextRun(kind, run[1][2], n)
  BY DEF ParsedText
<1>2. from + n <= Len(b)
  BY <1>1, RunFacts
<1>3. run[1] = b[from + 1]
  BY <1>2, ReadRun
<1>4. run[1] = <<kind, run[1][2], 1>>
  <2>1. TextRun(kind, run[1][2], n)[1] = <<kind, run[1][2], 1>>
    BY TextIs
  <2> HIDE DEF run
  <2> QED BY <1>1, <2>1
<1> QED BY <1>2, <1>3, <1>4

(* The JSON of the Memory backend is found from the start of the document  *)
(* alone, and by who asks for the form it was written in.                  *)
LEMMA JsonDoc ==
  ASSUME Types, form # "none", backend = "memory", Headed, Pixels,
         NEW r \in 0 .. Len(bytes), NEW f \in {"object", "array"}
  PROVE  LET doc == ReadJson(bytes, r, f)
         IN  /\ doc.cursor = Len(bytes)
             /\ doc.ok => r = 0 /\ f = form
             /\ r = 0 /\ f = form => doc.ok /\ doc.images = models /\ doc.start = Len(HeadOf)
<1> DEFINE doc == ReadJson(bytes, r, f)
           h == Len(HeadOf)
<1>1. /\ IsRun(bytes) /\ Len(bytes) \in Nat /\ h \in Nat \ {0} /\ h = JsonLen(form, models)
      /\ h <= Len(bytes) /\ \A k \in 1 .. h : bytes[k] = <<form, models, k>>
      /\ models # <<>> /\ form \in {"object", "array"}
  <2>1. IsRun(bytes) /\ models # <<>> /\ form \in {"object", "array"}
    BY DocumentsAssumption DEF Types
  <2>2. /\ h \in Nat \ {0} /\ h = JsonLen(form, models)
        /\ \A k \in 1 .. h : HeadOf[k] = <<form, models, k>>
    BY HeadIs
  <2>3. h <= Len(bytes) /\ \A k \in 1 .. h : bytes[k] = HeadOf[k]
    BY DEF Headed
  <2> QED BY <2>1, <2>2, <2>3, RunFacts
<1>2. \A c \in h + 1 .. Len(bytes) : bytes[c][1] = "pix"
  BY DEF Pixels, Pixel, Tier
<1> HIDE DEF h
<1> DEFINE n == JsonLen(f, bytes[r + 1][2])
           ms == ParsedText(bytes, r, f, n)
<1>3. CASE r >= Len(bytes) \/ bytes[r + 1][1] # f
  <2>1. doc = NotOpened(Len(bytes))
    BY <1>3 DEF ReadJson
  <2>2. doc.cursor = Len(bytes) /\ ~doc.ok
    BY <2>1, OpenedIs DEF NotOpened
  <2>3. ~(r = 0 /\ f = form)
    <3> SUFFICES ASSUME r = 0, f = form PROVE FALSE
      OBVIOUS
    <3>1. bytes[1] = <<form, models, 1>>
      BY <1>1
    <3> QED BY <1>1, <1>3, <3>1
  <2> QED BY <2>2, <2>3
<1>4. CASE ~(r >= Len(bytes) \/ bytes[r + 1][1] # f)
  <2>1. doc = Opened(ms, n, Len(bytes))
    BY <1>4 DEF ReadJson
  <2>2. doc.cursor = Len(bytes) /\ (doc.ok <=> ms # <<>>) /\ doc.images = ms /\ doc.start = n
    <3> HIDE DEF ms, n
    <3> QED BY <2>1, OpenedIs
  <2>3. r + 1 \in 1 .. h
    <3>1. r + 1 \in 1 .. Len(bytes)
      BY <1>1, <1>4
    <3>2. r + 1 \notin h + 1 .. Len(bytes)
      BY <1>2, <1>4
    <3> QED BY <1>1, <3>1, <3>2
  <2>4. bytes[r + 1] = <<form, models, r + 1>>
    BY <1>1, <2>3
  <2>5. f = form /\ n = h
    BY <1>1, <1>4, <2>4
  <2>6. ms # <<>> => r = 0
    <3> SUFFICES ASSUME ms # <<>> PROVE r = 0
      OBVIOUS
    <3>1. bytes[r + 1] = <<f, bytes[r + 1][2], 1>>
      <4>1. r \in Nat /\ n \in Nat \ {0}
        BY <1>1, <2>5
      <4> HIDE DEF n
      <4> QED BY <1>1, <4>1, ParsedStart
    <3> QED BY <1>1, <2>4, <3>1
  <2>7. ASSUME r = 0 PROVE ms = models
    <3>1. TextAt(bytes, 0, f, h, models) /\ IsRun(bytes)
      BY <1>1, <2>5 DEF TextAt
    <3>2. ParsedText(bytes, 0, f, h) = models
      BY <3>1, ParsedIs
    <3> QED BY <2>5, <2>7, <3>2
  <2> HIDE DEF ms, n
  <2> QED BY <1>1, <2>2, <2>5, <2>6, <2>7 DEF h
<1> QED BY <1>3, <1>4

LEMMA LabelDoc ==
  ASSUME Types, form # "none", backend = "pds4", Headed
  PROVE  LET doc == ReadPds4(bytes)
         IN  /\ doc.cursor \in 0 .. Len(bytes)
             /\ doc.ok /\ doc.images = <<First(models)>> /\ doc.start = Len(HeadOf)
<1> DEFINE m == <<First(models)>>
<1>1. /\ IsRun(bytes) /\ Len(bytes) \in Nat /\ Len(HeadOf) = 3 /\ 3 <= Len(bytes)
      /\ bytes[1] = <<"len", 2, 0>>
      /\ \A k \in 1 .. 2 : bytes[1 + k] = <<"label", m, k>>
  <2>1. /\ Len(HeadOf) = 3 /\ HeadOf[1] = <<"len", 2, 0>>
        /\ \A k \in 1 .. 2 : HeadOf[1 + k] = <<"label", m, k>>
    BY HeadIs
  <2>2. 3 <= Len(bytes) /\ \A k \in 1 .. 3 : bytes[k] = HeadOf[k]
    BY <2>1 DEF Headed
  <2>3. IsRun(bytes) /\ Len(bytes) \in Nat
    BY RunFacts DEF Types
  <2> QED BY <2>1, <2>2, <2>3
<1>2. m # <<>>
  OBVIOUS
<1> HIDE DEF m
<1>3. ParsedPds4Label(bytes, 1, 2) = m
  <2>1. IsRun(bytes) /\ TextAt(bytes, 1, "label", 2, m)
    BY <1>1 DEF TextAt
  <2>2. ParsedText(bytes, 1, "label", 2) = m
    BY <2>1, ParsedIs
  <2> QED BY <2>2 DEF ParsedPds4Label
<1> DEFINE l == 3
<1>4. ReadPds4(bytes) = Opened(m, l, l)
  <2>1. bytes # <<>>
    BY <1>1, EmptyRun
  <2> QED BY <1>1, <1>3, <2>1 DEF ReadPds4
<1>5. l = Len(HeadOf) /\ l \in 0 .. Len(bytes)
  BY <1>1
<1> HIDE DEF l
<1>6. ReadPds4(bytes).ok /\ ReadPds4(bytes).images = m
      /\ ReadPds4(bytes).start = l /\ ReadPds4(bytes).cursor = l
  BY <1>2, <1>4, OpenedIs
<1> QED BY <1>5, <1>6 DEF m

LEMMA ZarrDoc ==
  ASSUME Types, form # "none", backend = "zarr", Headed
  PROVE  LET doc == ReadZarr(bytes)
         IN  /\ doc.cursor \in 0 .. Len(bytes)
             /\ doc.ok /\ doc.images = <<First(models)>> /\ doc.start = Len(HeadOf)
<1> DEFINE m == <<First(models)>>
           n == ShapeLen(First(models))
<1>1. /\ IsRun(bytes) /\ Len(bytes) \in Nat /\ n \in Nat \ {0} /\ Len(HeadOf) = 1 + n
      /\ 1 + n <= Len(bytes)
      /\ bytes[1] = <<"len", n, 0>>
      /\ \A k \in 1 .. n : bytes[1 + k] = <<"shape", m, k>>
  <2>1. /\ n \in Nat \ {0} /\ Len(HeadOf) = 1 + n /\ HeadOf[1] = <<"len", n, 0>>
        /\ \A k \in 1 .. n : HeadOf[1 + k] = <<"shape", m, k>>
    <3>1. /\ n \in Nat \ {0} /\ Len(HeadOf) = 1 + n /\ HeadOf[1] = <<"len", n, 0>>
          /\ \A k \in 1 .. n : HeadOf[1 + k] = <<"shape", <<First(models)>>, k>>
      BY HeadIs
    <3> HIDE DEF n
    <3> QED BY <3>1 DEF m
  <2> HIDE DEF n, m
  <2>2. 1 + n <= Len(bytes) /\ \A k \in 1 .. 1 + n : bytes[k] = HeadOf[k]
    BY <2>1 DEF Headed
  <2>3. IsRun(bytes) /\ Len(bytes) \in Nat
    BY RunFacts DEF Types
  <2>4. bytes[1] = <<"len", n, 0>>
    BY <2>1, <2>2
  <2>5. ASSUME NEW k \in 1 .. n PROVE bytes[1 + k] = <<"shape", m, k>>
    <3>1. 1 + k \in 1 .. 1 + n
      BY <2>1
    <3>2. bytes[1 + k] = HeadOf[1 + k]
      BY <2>2, <3>1
    <3> QED BY <2>1, <3>2
  <2>6. Len(HeadOf) = 1 + n /\ n \in Nat \ {0} /\ 1 + n <= Len(bytes)
    BY <2>1, <2>2
  <2> QED BY <2>3, <2>4, <2>5, <2>6
<1>2. m # <<>>
  OBVIOUS
<1> HIDE DEF m, n
<1>3. ParsedShape(bytes, 1, n) = m
  <2>1. IsRun(bytes) /\ TextAt(bytes, 1, "shape", n, m)
    BY <1>1 DEF TextAt
  <2>2. ParsedText(bytes, 1, "shape", n) = m
    BY <2>1, ParsedIs
  <2> QED BY <2>2 DEF ParsedShape
<1> DEFINE l == 1 + n
<1>4. ReadZarr(bytes) = Opened(m, l, l)
  <2>1. bytes # <<>>
    BY <1>1, EmptyRun
  <2> QED BY <1>1, <1>3, <2>1 DEF ReadZarr
<1>5. l = Len(HeadOf) /\ l \in 0 .. Len(bytes)
  BY <1>1
<1> HIDE DEF l
<1>6. ReadZarr(bytes).ok /\ ReadZarr(bytes).images = m
      /\ ReadZarr(bytes).start = l /\ ReadZarr(bytes).cursor = l
  BY <1>2, <1>4, OpenedIs
<1> QED BY <1>5, <1>6 DEF m

(* The payloads of ISIS documents that its label can be told from: text,   *)
(* without an End line.                                                    *)
Plain == PayloadsOf["isis"] \subseteq Text \ Ending

LEMMA IsisDoc ==
  ASSUME Types, form # "none", backend = "isis", Headed, Pixels
  PROVE  LET doc == ReadIsis(bytes)
         IN  /\ doc.cursor \in 0 .. Len(bytes)
             /\ doc.ok => doc.images = <<First(models)>> /\ doc.start \in Nat
             /\ Plain => doc.ok /\ doc.start = Len(HeadOf)
<1> DEFINE m == <<First(models)>>
           n == IF Len(bytes) < Scan THEN Len(bytes) ELSE Scan
           ends == {c \in 1 .. n : EndsHere(bytes[c])}
           last == CHOOSE c \in ends : \A d \in ends : d <= c
           doc == ReadIsis(bytes)
<1>1. /\ IsRun(bytes) /\ Len(bytes) \in Nat /\ Len(HeadOf) = 2 /\ 2 <= Len(bytes)
      /\ \A k \in 1 .. 2 : bytes[k] = <<"label", m, k>>
  <2>1. Len(HeadOf) = 2 /\ \A k \in 1 .. 2 : HeadOf[k] = <<"label", m, k>>
    BY HeadIs
  <2>2. 2 <= Len(bytes) /\ \A k \in 1 .. 2 : bytes[k] = HeadOf[k]
    BY <2>1 DEF Headed
  <2>3. IsRun(bytes) /\ Len(bytes) \in Nat
    BY RunFacts DEF Types
  <2> QED BY <2>1, <2>2, <2>3
<1>2. n \in Nat /\ 2 <= n /\ n <= Len(bytes)
  BY <1>1, ScanAssumption DEF LabelLen
<1>3. m # <<>>
  OBVIOUS
<1> HIDE DEF m, n
<1>4. ParsedIsisLabel(bytes, LabelLen) = m
  <2>1. IsRun(bytes) /\ TextAt(bytes, 0, "label", 2, m)
    BY <1>1 DEF TextAt
  <2>2. ParsedText(bytes, 0, "label", 2) = m
    BY <2>1, ParsedIs
  <2> QED BY <2>2 DEF ParsedIsisLabel, LabelLen
<1>5. /\ 2 \in ends
      /\ doc = IF ends = {} \/ \E c \in 1 .. n : ~IsText(bytes[c]) THEN NotOpened(n)
               ELSE Opened(m, last, n)
  <2>1. 2 \in ends
    BY <1>1, <1>2 DEF EndsHere, LabelLen
  <2> QED BY <1>4, <2>1 DEF ReadIsis, n
<1>6. doc.cursor = n
  <2> HIDE DEF last, ends
  <2> QED BY <1>5, OpenedIs DEF NotOpened
<1>7. doc.ok => doc.images = m
  <2> HIDE DEF last, ends
  <2> QED BY <1>5, OpenedIs DEF NotOpened
<1>8. doc.ok => doc.start \in Nat
  <2>1. doc.start \in {0, last}
    <3> HIDE DEF last, ends
    <3> QED BY <1>5, OpenedIs DEF NotOpened
  <2>2. ends \subseteq Nat /\ ends # {} /\ \A d \in ends : d <= n
    BY <1>2, <1>5
  <2>3. \E c \in ends : \A d \in ends : d <= c
    <3> DEFINE T == {x \in Nat : n - x \in ends}
    <3>1. n - 2 \in T
      BY <1>2, <1>5
    <3>2. PICK x \in T : \A y \in T : x <= y
      BY <3>1, LeastElement
    <3>3. ASSUME NEW d \in ends PROVE d <= n - x
      <4>1. n - d \in Nat /\ n - (n - d) = d
        BY <1>2, <2>2
      <4>2. n - d \in T
        BY <4>1
      <4>3. x <= n - d
        BY <3>2, <4>2
      <4> HIDE DEF ends, T
      <4>4. x \in Nat /\ d \in Nat
        BY <2>2, <3>2 DEF T
      <4> QED BY <1>2, <4>1, <4>3, <4>4
    <3> QED BY <3>2, <3>3
  <2>4. last \in ends
    <3> HIDE DEF ends
    <3> QED BY <2>3
  <2> HIDE DEF last, ends
  <2> QED BY <2>1, <2>2, <2>4
<1>9. ASSUME Plain PROVE doc.ok /\ doc.start = 2
  <2>1. \A c \in 3 .. Len(bytes) : \E p \in Text \ Ending : bytes[c] = <<"pix", p, bytes[c][3]>>
    <3>1. \A c \in 3 .. Len(bytes) : \E p \in PayloadsOf["isis"] : bytes[c] = <<"pix", p, bytes[c][3]>>
      BY <1>1 DEF Pixels, Pixel, Tier
    <3> QED BY <1>9, <3>1 DEF Plain
  <2>2. ASSUME NEW c \in 1 .. n PROVE IsText(bytes[c]) /\ (EndsHere(bytes[c]) <=> c = 2)
    <3>1. CASE c = 1
      <4>1. bytes[c] = <<"label", m, 1>>
        BY <1>1, <3>1
      <4> QED BY <3>1, <4>1 DEF IsText, EndsHere, LabelLen
    <3>2. CASE c = 2
      <4>1. bytes[c] = <<"label", m, 2>>
        BY <1>1, <3>2
      <4> QED BY <3>2, <4>1 DEF IsText, EndsHere, LabelLen
    <3>3. CASE c # 1 /\ c # 2
      <4>1. c \in 3 .. Len(bytes)
        BY <1>1, <1>2, <3>3
      <4>2. PICK p \in Text \ Ending : bytes[c] = <<"pix", p, bytes[c][3]>>
        BY <2>1, <4>1
      <4>3. bytes[c][1] = "pix" /\ bytes[c][2] = p
        BY <4>2
      <4> QED BY <3>3, <4>3 DEF IsText, EndsHere
    <3> QED BY <3>1, <3>2, <3>3
  <2>3. ends = {2}
    BY <1>2, <2>2
  <2>4. last = 2
    BY <2>3
  <2>5. doc = Opened(m, 2, n)
    <3> HIDE DEF ends, last
    <3> QED BY <1>5, <2>2, <2>3, <2>4
  <2> QED BY <1>3, <2>5, OpenedIs
<1> QED BY <1>1, <1>2, <1>6, <1>7, <1>8, <1>9 DEF m

LEMMA ExrOpens ==
  ASSUME Types, Whole, form # "none", backend = "openexr", bytes # <<>>
  PROVE  /\ First(models) \in Model /\ ExrInfoOk(First(models))
         /\ FreshDoc.ok /\ FreshDoc.images # <<>> /\ FreshDoc = ReadExr(bytes)
         /\ FreshDoc.images[1].spp = First(models).spp /\ Tiles(FreshDoc.images[1]) = {0}
         /\ FreshDoc.start = 1 /\ FreshDoc.cursor \in 0 .. Len(bytes)
<1> DEFINE m == First(models)
<1>1. m \in Model /\ IsRun(bytes) /\ form = "object"
  BY ModelsFacts, BackendFacts DEF Types
<1>2. ExrInfoOk(m) /\ m.spp \in {1, 3, 4}
  BY <1>1, ExrSpp DEF Whole
<1>3. bytes[1] = ExrHeader(m)
  <2>1. \A samples : ExrDocument(m, samples)[1] = ExrHeader(m)
    BY <1>1, <1>2, ExrDocumentIs
  <2>2. \/ bytes = ExrHeaderOnly(m)
        \/ bytes[1] = ExrHeader(m)
        \/ \E p \in PayloadsOf[backend] : bytes = ExrDocument(m, TileRun(p, m.spp))
    BY DEF Whole
  <2> QED BY <2>1, <2>2 DEF ExrHeaderOnly
<1>4. FreshDoc = ReadExr(bytes)
  BY <1>1 DEF FreshDoc, Document
<1> HIDE DEF m
<1>5. /\ ReadExr(bytes).ok /\ ReadExr(bytes).images # <<>>
      /\ ReadExr(bytes).images[1].spp = m.spp /\ Tiles(ReadExr(bytes).images[1]) = {0}
      /\ ReadExr(bytes).start = 1 /\ ReadExr(bytes).cursor = 1 /\ 1 <= Len(bytes)
  BY <1>1, <1>2, <1>3, ReadExrIs
<1>6. 1 \in 0 .. Len(bytes)
  BY <1>1, <1>5, RunFacts
<1> QED BY <1>1, <1>2, <1>4, <1>5, <1>6 DEF m

(* What opening a document leaves behind, wherever the reader's cursor is. *)
LEMMA DocIs ==
  ASSUME Types, Blocks, Whole, form # "none", NEW r \in 0 .. Len(bytes)
  PROVE  LET doc == Document(backend, bytes, r)
         IN  /\ doc.cursor \in 0 .. Len(bytes)
             /\ doc.ok => form = "object" /\ doc = FreshDoc
<1>1. Len(bytes) \in Nat /\ IsRun(bytes) /\ form \in {"object", "array"}
  BY RunFacts DEF Types
<1>2. CASE backend = "memory"
  <2> DEFINE doc == ReadJson(bytes, r, "object")
  <2>1. Document(backend, bytes, r) = doc
    BY <1>2 DEF Document
  <2>2. doc.cursor = Len(bytes) /\ (doc.ok => r = 0 /\ "object" = form)
    BY <1>2, JsonDoc DEF Blocks
  <2>3. doc.ok => doc = FreshDoc
    <3> HIDE DEF doc
    <3> SUFFICES ASSUME doc.ok PROVE doc = FreshDoc
      OBVIOUS
    <3>1. r = 0 /\ form = "object"
      BY <2>2
    <3> QED BY <2>1, <3>1 DEF FreshDoc
  <2> HIDE DEF doc
  <2> QED BY <1>1, <2>1, <2>2, <2>3
<1>3. CASE backend # "memory"
  <2>1. form = "object" /\ backend \in {"pds4", "isis", "zarr", "openexr"}
    BY <1>1, <1>3, BackendFacts
  <2>2. Document(backend, bytes, r) = FreshDoc
    BY <2>1 DEF FreshDoc, Document
  <2>3. FreshDoc.cursor \in 0 .. Len(bytes)
    <3>1. CASE backend = "pds4"
      <4>1. ReadPds4(bytes).cursor \in 0 .. Len(bytes)
        BY <3>1, LabelDoc DEF Blocks
      <4> QED BY <2>1, <3>1, <4>1 DEF FreshDoc, Document
    <3>2. CASE backend = "isis"
      <4>1. ReadIsis(bytes).cursor \in 0 .. Len(bytes)
        BY <3>2, IsisDoc DEF Blocks
      <4> QED BY <2>1, <3>2, <4>1 DEF FreshDoc, Document
    <3>3. CASE backend = "zarr"
      <4>1. ReadZarr(bytes).cursor \in 0 .. Len(bytes)
        BY <3>3, ZarrDoc DEF Blocks
      <4> QED BY <2>1, <3>3, <4>1 DEF FreshDoc, Document
    <3>4. CASE backend = "openexr"
      <4>1. FreshDoc = ReadExr(bytes)
        BY <2>1, <3>4 DEF FreshDoc, Document
      <4>2. CASE bytes = <<>>
        <5>1. ReadExr(bytes) = NotOpened(0)
          BY <4>2 DEF ReadExr
        <5>2. ReadExr(bytes).cursor = 0
          BY <5>1, OpenedIs DEF NotOpened
        <5> QED BY <1>1, <4>1, <5>2
      <4>3. CASE bytes # <<>>
        BY <1>1, <3>4, <4>1, <4>3, ExrOpens
      <4> QED BY <4>2, <4>3
    <3> QED BY <2>1, <3>1, <3>2, <3>3, <3>4
  <2> QED BY <2>1, <2>2, <2>3
<1> QED BY <1>2, <1>3

LEMMA ListDoc ==
  ASSUME Types, Blocks, Whole, form # "none", backend = "memory", NEW r \in 0 .. Len(bytes)
  PROVE  LET doc == ReadJson(bytes, r, "array")
         IN  /\ doc.cursor \in 0 .. Len(bytes)
             /\ doc.ok => form = "array" /\ doc = FreshDoc /\ doc.images = models
<1> DEFINE doc == ReadJson(bytes, r, "array")
<1>1. Len(bytes) \in Nat
  BY RunFacts DEF Types
<1>2. /\ doc.cursor = Len(bytes) /\ (doc.ok => r = 0 /\ "array" = form)
      /\ r = 0 /\ "array" = form => doc.images = models
  BY JsonDoc DEF Blocks
<1>3. r = 0 /\ "array" = form => doc = FreshDoc
  BY DEF FreshDoc
<1> HIDE DEF doc
<1>4. doc.cursor \in 0 .. Len(bytes)
  BY <1>1, <1>2
<1>5. doc.ok => form = "array" /\ doc = FreshDoc /\ doc.images = models
  BY <1>2, <1>3
<1> QED BY <1>4, <1>5 DEF doc

(* A new reader finds the images that were written, and their pixels where *)
(* the sinks put them.                                                     *)
LEMMA FreshIs ==
  ASSUME Types, Blocks, form # "none", backend # "openexr"
  PROVE  /\ FreshDoc.ok => /\ FreshDoc.images = IF backend = "memory" THEN models ELSE <<First(models)>>
                           /\ FreshDoc.start \in Nat
         /\ (backend = "isis" => Plain) => FreshDoc.ok /\ FreshDoc.start = Len(HeadOf)
<1>1. form \in {"object", "array"} /\ Len(HeadOf) \in Nat
  BY HeadIs DEF Types
<1>2. Headed /\ Pixels
  BY DEF Blocks
<1>3. CASE backend = "memory"
  <2>1. FreshDoc = ReadJson(bytes, 0, form)
    BY <1>1, <1>3 DEF FreshDoc, Document
  <2>2. 0 \in 0 .. Len(bytes)
    BY RunFacts DEF Types
  <2>3. /\ ReadJson(bytes, 0, form).ok /\ ReadJson(bytes, 0, form).images = models
        /\ ReadJson(bytes, 0, form).start = Len(HeadOf)
    BY <1>1, <1>2, <1>3, <2>2, JsonDoc
  <2> QED BY <1>1, <1>3, <2>1, <2>3
<1>4. CASE backend # "memory"
  <2>1. form = "object" /\ backend \in {"pds4", "isis", "zarr"}
    BY <1>1, <1>4, BackendFacts
  <2>2. CASE backend = "pds4"
    <3>1. FreshDoc = ReadPds4(bytes)
      BY <2>1, <2>2 DEF FreshDoc, Document
    <3>2. /\ ReadPds4(bytes).ok /\ ReadPds4(bytes).images = <<First(models)>>
          /\ ReadPds4(bytes).start = Len(HeadOf)
      BY <1>2, <2>2, LabelDoc
    <3> QED BY <1>1, <2>2, <3>1, <3>2
  <2>3. CASE backend = "zarr"
    <3>1. FreshDoc = ReadZarr(bytes)
      BY <2>1, <2>3 DEF FreshDoc, Document
    <3>2. /\ ReadZarr(bytes).ok /\ ReadZarr(bytes).images = <<First(models)>>
          /\ ReadZarr(bytes).start = Len(HeadOf)
      BY <1>2, <2>3, ZarrDoc
    <3> QED BY <1>1, <2>3, <3>1, <3>2
  <2>4. CASE backend = "isis"
    <3>1. FreshDoc = ReadIsis(bytes)
      BY <2>1, <2>4 DEF FreshDoc, Document
    <3>2. /\ ReadIsis(bytes).ok => ReadIsis(bytes).images = <<First(models)>>
                                   /\ ReadIsis(bytes).start \in Nat
          /\ Plain => ReadIsis(bytes).ok /\ ReadIsis(bytes).start = Len(HeadOf)
      BY <1>2, <2>4, IsisDoc
    <3> QED BY <2>4, <3>1, <3>2
  <2> QED BY <2>1, <2>2, <2>3, <2>4
<1> QED BY <1>3, <1>4

LEMMA FreshPlace ==
  ASSUME Types, Blocks, form # "none", backend # "openexr", NEW i, Stored(i)
  PROVE  /\ FreshDoc.ok => /\ i \in DOMAIN FreshDoc.images /\ FreshDoc.images[i] = models[i]
                           /\ FreshStart(i) \in Nat
         /\ (backend = "isis" => Plain) => FreshDoc.ok /\ FreshStart(i) = StartOf(i)
<1>1. i \in DOMAIN models /\ (form = "array" \/ i = 1) /\ models \in Seq(Model)
      /\ First(models) = models[1]
  BY ModelsFacts DEF Stored, Types
<1>2. backend # "memory" => form # "array"
  BY BackendFacts
<1>3. /\ FreshDoc.ok => /\ FreshDoc.images = IF backend = "memory" THEN models ELSE <<First(models)>>
                        /\ FreshDoc.start \in Nat
      /\ (backend = "isis" => Plain) => FreshDoc.ok /\ FreshDoc.start = Len(HeadOf)
  BY FreshIs
<1>4. CASE form = "array"
  <2>1. backend = "memory" /\ FreshDoc.ok /\ FreshDoc.images = models /\ FreshDoc.start = Len(HeadOf)
    BY <1>2, <1>3, <1>4
  <2>2. Len(HeadOf) = JsonLen("array", models) /\ Len(HeadOf) \in Nat
    BY <1>4, <2>1, HeadIs
  <2>3. FreshStart(i) = ImagePixelOffset(models, i, Len(HeadOf))
    BY <1>4, <2>1 DEF FreshStart, ListStart
  <2>4. FreshStart(i) = StartOf(i)
    BY <1>4, <2>2, <2>3 DEF StartOf
  <2>5. FreshStart(i) \in Nat
    BY <1>1, <2>2, <2>3, ImagesApart
  <2> QED BY <1>1, <2>1, <2>4, <2>5
<1>5. CASE form # "array"
  <2>1. i = 1 /\ FreshStart(i) = FreshDoc.start /\ StartOf(i) = Len(HeadOf)
    BY <1>1, <1>5 DEF FreshStart, StartOf
  <2>2. FreshDoc.ok => 1 \in DOMAIN FreshDoc.images /\ FreshDoc.images[1] = models[1]
    <3> DEFINE one == <<First(models)>>
    <3>1. DOMAIN one = {1} /\ one[1] = First(models)
      OBVIOUS
    <3> HIDE DEF one
    <3>2. FreshDoc.ok => FreshDoc.images = models \/ FreshDoc.images = one
      BY <1>3 DEF one
    <3> QED BY <1>1, <2>1, <3>1, <3>2
  <2> QED BY <1>3, <2>1, <2>2
<1> QED BY <1>4, <1>5

------------------------------------------------------------------------------
(* Places.                                                                 *)

LEMMA Starts ==
  ASSUME Types, form # "none", backend # "openexr", NEW i, Stored(i)
  PROVE  /\ i \in DOMAIN models /\ models[i] \in Model
         /\ StartOf(i) \in Nat /\ Len(HeadOf) \in Nat \ {0} /\ Len(HeadOf) <= StartOf(i)
         /\ Stride(i) \in Nat \ {0}
<1>1. /\ i \in DOMAIN models /\ models[i] \in Model /\ models \in Seq(Model)
      /\ (form = "array" => backend = "memory") /\ Len(HeadOf) \in Nat \ {0}
  BY ModelsFacts, HeadIs DEF Stored, Types
<1>2. StartOf(i) \in Nat /\ Len(HeadOf) <= StartOf(i)
  <2>1. CASE form = "array"
    <3>1. Len(HeadOf) = JsonLen("array", models)
      BY <1>1, <2>1, HeadIs
    <3>2. StartOf(i) = ImagePixelOffset(models, i, Len(HeadOf))
      BY <2>1, <3>1 DEF StartOf
    <3> QED BY <1>1, <3>2, ImagesApart
  <2>2. CASE form # "array"
    BY <1>1, <2>2 DEF StartOf
  <2> QED BY <2>1, <2>2
<1>3. Stride(i) \in Nat \ {0}
  BY <1>1, ModelTypes, SlotTypes DEF Stride
<1> QED BY <1>1, <1>2, <1>3

LEMMA Places ==
  ASSUME Types, form # "none", backend # "openexr", NEW i, Stored(i), NEW t \in Tiles(models[i])
  PROVE  /\ models[i] \in Model /\ t \in Nat
         /\ StartOf(i) \in Nat /\ Len(HeadOf) \in Nat \ {0} /\ Len(HeadOf) <= StartOf(i)
         /\ Stride(i) \in Nat \ {0} /\ PlaceOf(i, t) \in Nat /\ StartOf(i) <= PlaceOf(i, t)
<1>1. /\ models[i] \in Model
      /\ StartOf(i) \in Nat /\ Len(HeadOf) \in Nat \ {0} /\ Len(HeadOf) <= StartOf(i)
      /\ Stride(i) \in Nat \ {0}
  BY Starts
<1>2. t \in Nat
  BY <1>1, ModelTypes
<1>3. t * Stride(i) \in Nat
  BY <1>1, <1>2, TimesNat
<1>4. PlaceOf(i, t) = StartOf(i) + t * Stride(i)
  BY DEF PlaceOf
<1>5. PlaceOf(i, t) \in Nat /\ StartOf(i) <= PlaceOf(i, t)
  BY <1>1, <1>3, <1>4
<1> QED BY <1>1, <1>2, <1>5

(* No two tiles share a place.                                             *)
LEMMA TilesApart ==
  ASSUME Types, form # "none", backend # "openexr",
         NEW i, Stored(i), NEW t \in Tiles(models[i]),
         NEW j, Stored(j), NEW u \in Tiles(models[j]), i # j \/ t # u
  PROVE  \/ PlaceOf(i, t) + Stride(i) <= PlaceOf(j, u)
         \/ PlaceOf(j, u) + Stride(j) <= PlaceOf(i, t)
<1>1. /\ StartOf(i) \in Nat /\ Stride(i) \in Nat /\ t \in Nat /\ models[i] \in Model
      /\ StartOf(j) \in Nat /\ Stride(j) \in Nat /\ u \in Nat /\ models[j] \in Model
  BY Places
<1>2. /\ PlaceOf(i, t) = StartOf(i) + t * Stride(i)
      /\ PlaceOf(j, u) = StartOf(j) + u * Stride(j)
  BY DEF PlaceOf
<1>3. t * Stride(i) \in Nat /\ u * Stride(j) \in Nat
  BY <1>1, TimesNat
<1>4. CASE i = j
  <2>1. t < u \/ u < t
    BY <1>1, <1>4
  <2>2. t < u => t * Stride(i) + Stride(i) <= u * Stride(i)
    BY <1>1, PartsApart
  <2>3. u < t => u * Stride(i) + Stride(i) <= t * Stride(i)
    BY <1>1, PartsApart
  <2> QED BY <1>1, <1>2, <1>3, <1>4, <2>1, <2>2, <2>3
<1>5. CASE i # j
  <2>1. /\ form = "array" /\ backend = "memory" /\ models \in Seq(Model)
        /\ i \in DOMAIN models /\ j \in DOMAIN models /\ DOMAIN models = 1 .. Len(models)
    BY <1>5, ModelsFacts DEF Stored, Types
  <2>2. Len(HeadOf) = JsonLen("array", models) /\ Len(HeadOf) \in Nat
    BY <2>1, HeadIs
  <2>3. ASSUME NEW x \in DOMAIN models
        PROVE  /\ StartOf(x) = ImagePixelOffset(models, x, Len(HeadOf))
               /\ Stride(x) = TileBytes(models[x])
    BY <2>1, <2>2 DEF StartOf, Stride
  <2>4. ASSUME NEW x \in DOMAIN models, NEW y \in DOMAIN models, x < y
        PROVE  StartOf(x) + ImagePixelBytes(models[x]) <= StartOf(y)
    BY <2>1, <2>2, <2>3, <2>4, ImagesApart
  <2>5. ASSUME NEW x \in DOMAIN models, Stride(x) \in Nat, models[x] \in Model, NEW z \in Tiles(models[x])
        PROVE  z * Stride(x) + Stride(x) <= ImagePixelBytes(models[x])
    <3>1. /\ models[x].tiles \in Nat /\ z \in Nat
          /\ ImagePixelBytes(models[x]) = models[x].tiles * TileBytes(models[x])
      BY <2>5, ModelTypes
    <3>2. z < models[x].tiles
      BY <3>1 DEF Tiles
    <3>3. z * Stride(x) + Stride(x) <= models[x].tiles * Stride(x)
      BY <2>5, <3>1, <3>2, PartsApart
    <3> QED BY <2>3, <3>1, <3>3
  <2>6. /\ t * Stride(i) + Stride(i) <= ImagePixelBytes(models[i])
        /\ u * Stride(j) + Stride(j) <= ImagePixelBytes(models[j])
    BY <1>1, <2>1, <2>5
  <2>7. ImagePixelBytes(models[i]) \in Nat /\ ImagePixelBytes(models[j]) \in Nat
    BY <1>1, ModelTypes
  <2>8. i < j \/ j < i
    BY <1>5, <2>1
  <2>9. CASE i < j
    <3>1. StartOf(i) + ImagePixelBytes(models[i]) <= StartOf(j)
      BY <2>1, <2>4, <2>9
    <3> QED BY <1>1, <1>2, <1>3, <2>6, <2>7, <3>1
  <2>10. CASE j < i
    <3>1. StartOf(j) + ImagePixelBytes(models[j]) <= StartOf(i)
      BY <2>1, <2>4, <2>10
    <3> QED BY <1>1, <1>2, <1>3, <2>6, <2>7, <3>1
  <2> QED BY <2>8, <2>9, <2>10
<1> QED BY <1>4, <1>5

------------------------------------------------------------------------------
(* What the invariant says to a reader.                                    *)

(* The payloads an ISIS caller writes are text without an End line.        *)
PlainIsis == "isis" \in Backends => Plain

LEMMA FreshBlock ==
  ASSUME Types, Blocks, form # "none", backend # "openexr", NEW i, Stored(i), PlainIsis, NEW t
  PROVE  FreshRead(i, t) = IF backend = "zarr" THEN ZarrTile(bytes, models[i], StartOf(i), t)
                           ELSE BlockTile(bytes, models[i], StartOf(i), t)
<1>1. backend = "isis" => Plain
  BY DEF PlainIsis, Types
<1>2. FreshDoc.ok /\ i \in DOMAIN FreshDoc.images /\ FreshDoc.images[i] = models[i]
      /\ FreshStart(i) = StartOf(i)
  BY <1>1, FreshPlace
<1>3. i \in IF form = "array" THEN DOMAIN FreshDoc.images ELSE {1}
  BY <1>2 DEF Stored
<1>4. FreshRead(i, t) = SourceTile(backend, bytes, FreshDoc.images[i], FreshStart(i), t)
  BY <1>2, <1>3 DEF FreshRead, FreshDoc, FreshStart
<1>5. backend \in {"memory", "pds4", "isis", "zarr"}
  BY BackendFacts
<1> QED BY <1>2, <1>4, <1>5 DEF SourceTile

LEMMA InvRoundTrip ==
  ASSUME Inv, PlainIsis
  PROVE  RoundTrip
<1> SUFFICES ASSUME NEW i \in DOMAIN models, NEW t \in Tiles(models[i]), Acked(i, t)
             PROVE  FreshRead(i, t) = acked[i][t]
  BY DEF RoundTrip
<1> DEFINE p == acked[i][t]
<1>1. Types /\ Blocks /\ Whole /\ form # "none" /\ Stored(i)
  BY DEF Inv, AckedOpen
<1>2. p \in PayloadsOf[backend] /\ p \in Payloads /\ p # Unknown
  BY <1>1, BackendFacts DEF Types, Acked
<1>3. CASE backend = "openexr"
  <2> DEFINE m == First(models)
  <2>2. i = 1 /\ m = models[1] /\ m \in Model /\ ExrInfoOk(m) /\ m.spp \in {1, 3, 4}
    BY <1>1, <1>3, ModelsFacts, BackendFacts, ExrSpp DEF Stored, Types, Whole
  <2>3. PICK q \in PayloadsOf[backend] :
          (\A u \in Tiles(m) : acked[1][u] = q) /\ bytes = ExrDocument(m, TileRun(q, m.spp))
    <3>1. ~NoneAcked
      BY DEF NoneAcked
    <3> QED BY <1>1, <1>3, <3>1 DEF Whole
  <2>4. q = p
    BY <2>2, <2>3
  <2>5. bytes # <<>>
    BY <2>2, <2>3, ExrDocumentIs
  <2>6. /\ FreshDoc.ok /\ FreshDoc.images[1].spp = m.spp /\ Tiles(FreshDoc.images[1]) = {0}
    BY <1>1, <1>3, <2>5, ExrOpens
  <2>7. t = 0
    <3>1. m.tiles = 1 \/ m.tiles = 0
      BY <1>1, <2>2, ExrSpp, ModelsFacts DEF Types
    <3> QED BY <2>2, <3>1 DEF Tiles
  <2>8. ExrTile(bytes, FreshDoc.images[1], 0) = p
    BY <1>2, <2>2, <2>3, <2>4, <2>6, ExrWritten
  <2>9. form # "array"
    BY <1>1, <1>3, BackendFacts
  <2>10. FreshRead(i, t) = SourceTile(backend, bytes, FreshDoc.images[1], FreshDoc.start, t)
    BY <2>2, <2>6, <2>9 DEF FreshRead, FreshDoc
  <2> QED BY <1>3, <2>7, <2>8, <2>10 DEF SourceTile
<1>4. CASE backend # "openexr"
  <2>1. Holds(i, t, p)
    BY <1>1, <1>4 DEF Blocks, Kept
  <2>2. models[i] \in Model /\ StartOf(i) \in Nat /\ IsRun(bytes)
    BY <1>1, <1>4, Places DEF Types
  <2>3. PlaceOf(i, t) = StartOf(i) + t * Stride(i)
    BY DEF PlaceOf
  <2>4. CASE backend = "zarr"
    <3>1. Stride(i) = SlotSize(models[i])
      BY <2>4 DEF Stride
    <3>2. /\ 1 + Len(Compressed(models[i], p)) <= SlotSize(models[i])
          /\ StartOf(i) + t * SlotSize(models[i]) + SlotSize(models[i]) <= Len(bytes)
          /\ \A k \in 1 .. SlotSize(models[i]) :
               bytes[StartOf(i) + t * SlotSize(models[i]) + k] = Slot(models[i], Compressed(models[i], p))[k]
      BY <2>1, <2>3, <2>4, <3>1 DEF Holds, Fits, CellsOf
    <3>3. ZarrTile(bytes, models[i], StartOf(i), t) = p
      BY <1>2, <2>2, <3>2, ZarrTileIs
    <3> QED BY <1>1, <1>4, <2>4, <3>3, FreshBlock
  <2>5. CASE backend # "zarr"
    <3>1. Stride(i) = TileBytes(models[i])
      BY <2>5 DEF Stride
    <3>2. /\ StartOf(i) + t * TileBytes(models[i]) + TileBytes(models[i]) <= Len(bytes)
          /\ \A k \in 1 .. TileBytes(models[i]) :
               bytes[StartOf(i) + t * TileBytes(models[i]) + k] = TileRun(p, TileBytes(models[i]))[k]
      BY <2>1, <2>3, <2>5, <3>1 DEF Holds, CellsOf
    <3>3. BlockTile(bytes, models[i], StartOf(i), t) = p
      BY <1>2, <2>2, <3>2, BlockTileIs
    <3> QED BY <1>1, <1>4, <2>5, <3>3, FreshBlock
  <2> QED BY <2>4, <2>5
<1> QED BY <1>3, <1>4

LEMMA InvSourceAligned ==
  ASSUME Inv
  PROVE  SourceAligned
<1> SUFFICES ASSUME source # NoSource
             PROVE  \E i \in DOMAIN models : \A t \in Tiles(models[i]) :
                      SourceTile(backend, bytes, source.image[1], source.start, t) = FreshRead(i, t)
  BY DEF SourceAligned
<1>1. Types /\ Blocks /\ Whole /\ form # "none" /\ FreshDoc.ok
  BY DEF Inv, Reads
<1>2. PICK i \in DOMAIN models :
        Stored(i) /\ source = [image |-> <<FreshDoc.images[i]>>, start |-> FreshStart(i)]
  BY DEF Inv, Reads
<1>3. source.image[1] = FreshDoc.images[i] /\ source.start = FreshStart(i)
  <2> DEFINE x == FreshDoc.images[i]
             y == FreshStart(i)
  <2>1. source = [image |-> <<x>>, start |-> y]
    BY <1>2
  <2> HIDE DEF x, y
  <2>2. source.image = <<x>> /\ source.start = y
    BY <2>1
  <2> QED BY <2>2 DEF x, y
<1>4. i \in IF form = "array" THEN DOMAIN FreshDoc.images ELSE {1}
  <2>1. CASE form = "array"
    <3>1. backend # "openexr"
      BY <1>1, <2>1, BackendFacts
    <3> QED BY <1>1, <1>2, <2>1, <3>1, FreshPlace
  <2>2. CASE form # "array"
    BY <1>2, <2>2 DEF Stored
  <2> QED BY <2>1, <2>2
<1>5. ASSUME NEW t
      PROVE  SourceTile(backend, bytes, source.image[1], source.start, t) = FreshRead(i, t)
  BY <1>1, <1>3, <1>4 DEF FreshRead, FreshDoc, FreshStart
<1> QED BY <1>5

(* Where no write failed, a place nothing acknowledged was written to is   *)
(* beyond the bytes.                                                       *)
LEMMA UnwrittenPlace ==
  ASSUME Types, Blocks, AckedOpen, form # "none", backend # "openexr", faults = 0,
         NEW i, Stored(i), NEW t \in Tiles(models[i]), ~Acked(i, t)
  PROVE  Len(bytes) < PlaceOf(i, t) + Stride(i)
<1>1. /\ Len(HeadOf) \in Nat /\ Stride(i) \in Nat \ {0} /\ PlaceOf(i, t) \in Nat
      /\ Len(HeadOf) <= PlaceOf(i, t) /\ Len(bytes) \in Nat
  BY Places, RunFacts DEF Types
<1> SUFFICES ASSUME PlaceOf(i, t) + Stride(i) <= Len(bytes)
             PROVE  FALSE
  BY <1>1
<1> DEFINE c == PlaceOf(i, t) + 1
<1>2. c \in Area(i, t) /\ c \in Len(HeadOf) + 1 .. Len(bytes)
  BY <1>1 DEF Area
<1> HIDE DEF c
<1>3. PICK j \in DOMAIN models : \E u \in Tiles(models[j]) : Acked(j, u) /\ c \in Area(j, u)
  BY <1>2 DEF Blocks, Covered
<1>4. PICK u \in Tiles(models[j]) : Acked(j, u) /\ c \in Area(j, u)
  BY <1>3
<1>5. Stored(j) /\ (i # j \/ t # u)
  BY <1>4 DEF AckedOpen
<1>6. Stride(j) \in Nat /\ PlaceOf(j, u) \in Nat
  BY <1>5, Places
<1>7. \/ PlaceOf(i, t) + Stride(i) <= PlaceOf(j, u)
      \/ PlaceOf(j, u) + Stride(j) <= PlaceOf(i, t)
  BY <1>5, TilesApart
<1> QED BY <1>1, <1>2, <1>4, <1>6, <1>7 DEF Area

LEMMA InvNothingInvented ==
  ASSUME Inv, PlainIsis
  PROVE  NothingInvented
<1> DEFINE allowed == {Refused} \union IF backend = "openexr" THEN {Blank} ELSE {}
<1> SUFFICES ASSUME faults = 0,
                    NEW i \in DOMAIN models, NEW t \in Tiles(models[i]), ~Acked(i, t)
             PROVE  FreshRead(i, t) \in allowed
  BY DEF NothingInvented
<1>1. Types /\ Blocks /\ Whole /\ AckedOpen
  BY DEF Inv
<1>2. CASE form = "none"
  <2>1. bytes = <<>> /\ form # "array"
    BY <1>1, <1>2 DEF Types
  <2>2. ~Document(backend, bytes, 0).ok
    <3>1. Len(bytes) = 0 /\ Scan \in Nat
      BY <2>1, ScanAssumption
    <3>2. \A c : ~NotOpened(c).ok
      BY OpenedIs DEF NotOpened
    <3>3. CASE backend = "memory"
      <4>1. Document(backend, bytes, 0) = NotOpened(Len(bytes))
        BY <3>1, <3>3 DEF Document, ReadJson
      <4> QED BY <3>2, <4>1
    <3>4. CASE backend = "pds4"
      <4>1. Document(backend, bytes, 0) = NotOpened(0)
        BY <2>1, <3>4 DEF Document, ReadPds4
      <4> QED BY <3>2, <4>1
    <3>5. CASE backend = "isis"
      <4> DEFINE n == IF Len(bytes) < Scan THEN Len(bytes) ELSE Scan
                 ends == {c \in 1 .. n : EndsHere(bytes[c])}
      <4>1. n = 0
        BY <3>1
      <4>2. ends = {}
        BY <4>1
      <4>3. ReadIsis(bytes) = NotOpened(n)
        BY <4>2 DEF ReadIsis
      <4> HIDE DEF n
      <4>4. Document(backend, bytes, 0) = NotOpened(n)
        BY <3>5, <4>3 DEF Document
      <4> QED BY <3>2, <4>4
    <3>6. CASE backend = "zarr"
      <4>1. Document(backend, bytes, 0) = NotOpened(0)
        BY <2>1, <3>6 DEF Document, ReadZarr
      <4> QED BY <3>2, <4>1
    <3>7. CASE backend = "openexr"
      <4>1. Document(backend, bytes, 0) = NotOpened(0)
        BY <2>1, <3>7 DEF Document, ReadExr
      <4> QED BY <3>2, <4>1
    <3> QED BY <1>1, <3>3, <3>4, <3>5, <3>6, <3>7, BackendFacts
  <2> QED BY <2>1, <2>2 DEF FreshRead
<1>3. CASE form # "none" /\ ~Stored(i)
  <2>1. form # "array" /\ i # 1
    BY <1>3 DEF Stored
  <2> QED BY <2>1 DEF FreshRead
<1>4. CASE form # "none" /\ Stored(i) /\ backend = "openexr"
  <2> DEFINE m == First(models)
  <2>1. form # "array" /\ i = 1 /\ m = models[1] /\ m \in Model
    BY <1>1, <1>4, BackendFacts, ModelsFacts DEF Stored, Types
  <2>2. FreshRead(i, t) = IF FreshDoc.ok THEN ExrTile(bytes, FreshDoc.images[1], t) ELSE Refused
    BY <1>4, <2>1 DEF FreshRead, FreshDoc, SourceTile
  <2>3. CASE bytes = <<>>
    <3>1. FreshDoc = NotOpened(0)
      BY <1>4, <2>1, <2>3 DEF FreshDoc, Document, ReadExr
    <3>2. ~FreshDoc.ok
      BY <3>1, OpenedIs DEF NotOpened
    <3> QED BY <2>2, <3>2
  <2>4. CASE bytes # <<>>
    <3>1. ExrInfoOk(m) /\ m.spp \in {1, 3, 4}
      BY <1>1, <1>4, <2>1, ExrSpp DEF Whole
    <3>2. bytes = ExrHeaderOnly(m)
      <4>1. bytes = ExrHeaderOnly(m) \/ \E p \in PayloadsOf[backend] : acked[1][t] = p
        BY <1>1, <1>4, <2>1, <2>4 DEF Whole
      <4>2. acked[1][t] \notin PayloadsOf[backend]
        BY <1>1, <2>1, BackendFacts DEF Acked
      <4> QED BY <4>1, <4>2
    <3>3. /\ FreshDoc.ok /\ FreshDoc.images[1].spp = m.spp /\ Tiles(FreshDoc.images[1]) = {0}
      BY <1>1, <1>4, <2>4, ExrOpens
    <3>4. t = 0
      <4>1. m.tiles = 1 \/ m.tiles = 0
        BY <1>1, <2>1, <3>1, ExrSpp, ModelsFacts DEF Types
      <4> QED BY <2>1, <4>1 DEF Tiles
    <3>5. ExrTile(bytes, FreshDoc.images[1], 0) = Blank
      BY <2>1, <3>1, <3>2, <3>3, ExrBlank
    <3> QED BY <1>4, <2>2, <3>3, <3>4, <3>5
  <2> QED BY <2>3, <2>4
<1>5. CASE form # "none" /\ Stored(i) /\ backend # "openexr"
  <2>1. /\ Stride(i) \in Nat \ {0} /\ PlaceOf(i, t) \in Nat /\ Len(bytes) \in Nat /\ IsRun(bytes)
        /\ PlaceOf(i, t) = StartOf(i) + t * Stride(i)
    BY <1>1, <1>5, Places, RunFacts DEF Types, PlaceOf
  <2>2. PlaceOf(i, t) + Stride(i) > Len(bytes)
    <3>1. Len(bytes) < PlaceOf(i, t) + Stride(i)
      BY <1>1, <1>5, UnwrittenPlace
    <3> QED BY <2>1, <3>1
  <2>3. CASE backend = "zarr"
    <3>1. ZarrTile(bytes, models[i], StartOf(i), t) = Refused
      BY <2>1, <2>2, <2>3 DEF ZarrTile, SlotOffset, Stride
    <3> QED BY <1>1, <1>5, <2>3, <3>1, FreshBlock
  <2>4. CASE backend # "zarr"
    <3>1. BlockTile(bytes, models[i], StartOf(i), t) = Refused
      BY <2>1, <2>2, <2>4 DEF BlockTile, TileOffset, Stride
    <3> QED BY <1>1, <1>5, <2>4, <3>1, FreshBlock
  <2> QED BY <2>3, <2>4
<1> QED BY <1>2, <1>3, <1>4, <1>5

(* What depends on the document's images and form alone.                   *)
LEMMA PlacesKept ==
  ASSUME UNCHANGED <<backend, models, form>>
  PROVE  /\ HeadOf' = HeadOf
         /\ \A i : StartOf(i)' = StartOf(i) /\ Stride(i)' = Stride(i) /\ (Stored(i)' <=> Stored(i))
         /\ \A i, t : PlaceOf(i, t)' = PlaceOf(i, t) /\ Area(i, t)' = Area(i, t)
         /\ \A i, p : CellsOf(i, p)' = CellsOf(i, p) /\ (Fits(i, p)' <=> Fits(i, p))
<1>1. HeadOf' = HeadOf
  BY DEF HeadOf
<1>2. \A i : StartOf(i)' = StartOf(i) /\ Stride(i)' = Stride(i)
  BY <1>1 DEF StartOf, Stride
<1>3. \A i : Stored(i)' <=> Stored(i)
  BY DEF Stored
<1>4. \A i, t : PlaceOf(i, t)' = PlaceOf(i, t)
  BY <1>2 DEF PlaceOf
<1>5. \A i, t : Area(i, t)' = Area(i, t)
  BY <1>2, <1>4 DEF Area
<1>6. \A i, p : CellsOf(i, p)' = CellsOf(i, p)
  BY DEF CellsOf
<1>7. \A i, p : Fits(i, p)' <=> Fits(i, p)
  BY DEF Fits
<1> QED BY <1>1, <1>2, <1>3, <1>4, <1>5, <1>6, <1>7

LEMMA WritingKept ==
  ASSUME Types, AckedOpen, Blocks, Whole, UNCHANGED <<backend, models, form, bytes, acked, faults>>,
         wpos' \in 0 .. Len(bytes)
  PROVE  Types' /\ AckedOpen' /\ Blocks' /\ Whole'
<1>1. Types'
  BY DEF Types, IsRun
<1>2. /\ HeadOf' = HeadOf
      /\ \A i : StartOf(i)' = StartOf(i) /\ Stride(i)' = Stride(i) /\ (Stored(i)' <=> Stored(i))
      /\ \A i, t : PlaceOf(i, t)' = PlaceOf(i, t) /\ Area(i, t)' = Area(i, t)
      /\ \A i, p : CellsOf(i, p)' = CellsOf(i, p) /\ (Fits(i, p)' <=> Fits(i, p))
  BY PlacesKept
<1>3. \A i, t : Acked(i, t)' <=> Acked(i, t)
  BY DEF Acked
<1>4. AckedOpen'
  BY <1>2, <1>3 DEF AckedOpen
<1>5. NoneAcked' <=> NoneAcked
  BY <1>3 DEF NoneAcked
<1>6. Headed' <=> Headed
  BY <1>2 DEF Headed
<1>7. Kept' <=> Kept
  BY <1>2, <1>3 DEF Kept, Holds
<1>8. Pixels' <=> Pixels
  BY <1>2 DEF Pixels, Pixel
<1>9. Covered' <=> Covered
  BY <1>2, <1>3 DEF Covered
<1>10. Blocks'
  BY <1>6, <1>7, <1>8, <1>9 DEF Blocks
<1>11. Whole'
  BY <1>5 DEF Whole
<1> QED BY <1>1, <1>4, <1>10, <1>11

LEMMA HeaderRun ==
  ASSUME NEW be \in Backends, NEW ms \in ModelLists, be = "openexr" => ExrInfoOk(First(ms))
  PROVE  /\ IsRun(Header(be, ms)) /\ Len(Header(be, ms)) \in Nat \ {0}
         /\ IsRun(ModelJson("array", ms)) /\ Len(ModelJson("array", ms)) \in Nat \ {0}
<1> DEFINE m == First(ms)
<1>1. /\ be \in {"memory", "pds4", "isis", "zarr", "openexr"}
      /\ ms \in Seq(Model) /\ ms # <<>> /\ Len(ms) \in Nat
  BY DocumentsAssumption
<1>2. m \in Model
  BY <1>1 DEF First
<1>3. ASSUME NEW f \in {"object", "array"}
      PROVE  IsRun(ModelJson(f, ms)) /\ Len(ModelJson(f, ms)) \in Nat \ {0}
  <2>1. JsonLen(f, ms) \in Nat \ {0}
    BY <1>1 DEF JsonLen
  <2> QED BY <2>1, TextIs DEF ModelJson
<1>4. CASE be = "memory"
  BY <1>3, <1>4 DEF Header
<1>5. CASE be = "pds4"
  <2> DEFINE ds == <<m>>
             n == 2
  <2>1. Header(be, ms) = <<LengthWord(Len(TextRun("label", ds, n)))>> \o TextRun("label", ds, n)
    BY <1>5 DEF Header, Pds4Header, Pds4Label, LabelLen
  <2>2. n \in Nat \ {0}
    OBVIOUS
  <2> HIDE DEF ds, n
  <2>3. IsRun(Header(be, ms)) /\ Len(Header(be, ms)) = 1 + n
    BY <2>1, <2>2, MeasuredIs
  <2> QED BY <1>3, <2>2, <2>3
<1>6. CASE be = "isis"
  <2> DEFINE ds == <<m>>
             n == 2
  <2>1. Header(be, ms) = TextRun("label", ds, n) /\ n \in Nat \ {0}
    BY <1>6 DEF Header, IsisLabel, LabelLen
  <2> HIDE DEF ds, n
  <2>2. IsRun(Header(be, ms)) /\ Len(Header(be, ms)) = n
    BY <2>1, TextIs
  <2> QED BY <1>3, <2>1, <2>2
<1>7. CASE be = "zarr"
  <2> DEFINE ds == <<m>>
             n == ShapeLen(m)
  <2>1. Header(be, ms) = <<LengthWord(Len(TextRun("shape", ds, n)))>> \o TextRun("shape", ds, n)
    BY <1>7 DEF Header, ZarrHeader, ZarrShape
  <2>2. n \in Nat \ {0}
    BY ShapeAssumption DEF ShapeLen
  <2> HIDE DEF ds, n
  <2>3. IsRun(Header(be, ms)) /\ Len(Header(be, ms)) = 1 + n
    BY <2>1, <2>2, MeasuredIs
  <2> QED BY <1>3, <2>2, <2>3
<1>8. CASE be = "openexr"
  <2>1. Header(be, ms) = ExrDocument(m, [k \in 1 .. m.spp |-> Blank])
    BY <1>8 DEF Header, ExrHeaderOnly
  <2>2. m.spp \in {1, 3, 4}
    BY <1>2, <1>8, ExrSpp
  <2> DEFINE doc == ExrDocument(m, [k \in 1 .. m.spp |-> Blank])
  <2>3. IsRun(doc) /\ Len(doc) = 1 + m.spp
    BY <1>2, <2>2, ExrDocumentIs
  <2> HIDE DEF doc
  <2>4. Len(doc) \in Nat \ {0}
    BY <2>2, <2>3
  <2> QED BY <1>3, <2>1, <2>3, <2>4 DEF doc
<1> QED BY <1>1, <1>4, <1>5, <1>6, <1>7, <1>8

(* Writing to an empty buffer leaves what was written.                     *)
LEMMA FirstWrite ==
  ASSUME NEW run, IsRun(run)
  PROVE  Overwrite(<<>>, 0, run) = run
<1> DEFINE b == Overwrite(<<>>, 0, run)
           e == <<>>
<1>1. IsRun(e) /\ Len(e) = 0 /\ 0 \in Nat /\ Len(run) \in Nat
  BY RunFacts DEF IsRun
<1> HIDE DEF e
<1>2. /\ IsRun(Overwrite(e, 0, run))
      /\ Len(Overwrite(e, 0, run)) = IF 0 + Len(run) > Len(e) THEN 0 + Len(run) ELSE Len(e)
      /\ \A k \in 1 .. Len(run) : Overwrite(e, 0, run)[0 + k] = run[k]
  BY <1>1, OverwriteIs
<1>3. IsRun(b) /\ Len(b) = Len(run) /\ \A k \in 1 .. Len(run) : b[k] = run[k]
  <2>1. b = Overwrite(e, 0, run)
    BY DEF e
  <2> HIDE DEF b
  <2>2. Len(b) = Len(run)
    BY <1>1, <1>2, <2>1
  <2>3. \A k \in 1 .. Len(run) : b[k] = run[k]
    BY <1>1, <1>2, <2>1
  <2> QED BY <1>2, <2>1, <2>2, <2>3
<1> HIDE DEF b
<1>4. b = run
  BY <1>3, SameRun
<1> QED BY <1>4 DEF b

(* A write within a tile's place leaves the header and the other tiles.    *)
TileWritten(b, i, t, run) ==
  /\ IsRun(b) /\ Len(bytes) <= Len(b) /\ PlaceOf(i, t) + Len(run) <= Len(b)
  /\ PlaceOf(i, t) + Len(run) \in Nat
  /\ \A k \in 1 .. Len(HeadOf) : b[k] = bytes[k]
  /\ \A k \in 1 .. Len(run) : b[PlaceOf(i, t) + k] = run[k]
  /\ \A j : Stored(j) => \A u \in Tiles(models[j]) :
       (i # j \/ t # u) /\ PlaceOf(j, u) + Stride(j) <= Len(bytes) =>
         \A k \in 1 .. Stride(j) : b[PlaceOf(j, u) + k] = bytes[PlaceOf(j, u) + k]
  /\ \A c \in 1 .. Len(b) :
       \/ c - PlaceOf(i, t) \in 1 .. Len(run) /\ b[c] = run[c - PlaceOf(i, t)]
       \/ c \in 1 .. Len(bytes) /\ b[c] = bytes[c]

LEMMA TileWrite ==
  ASSUME Types, form # "none", backend # "openexr", Len(HeadOf) <= Len(bytes),
         NEW i, Stored(i), NEW t \in Tiles(models[i]),
         NEW run, IsRun(run), Len(run) <= Stride(i), PlaceOf(i, t) <= Len(bytes),
         NEW b, b = Overwrite(bytes, PlaceOf(i, t), run)
  PROVE  TileWritten(b, i, t, run)
<1> DEFINE at == PlaceOf(i, t)
           l == Len(run)
<1>1. /\ at \in Nat /\ Len(HeadOf) \in Nat /\ Len(HeadOf) <= at /\ Stride(i) \in Nat /\ IsRun(bytes)
      /\ Len(bytes) \in Nat /\ l \in Nat /\ at <= Len(bytes)
  BY Places, RunFacts DEF Types
<1>2. /\ IsRun(b)
      /\ Len(b) = IF at + l > Len(bytes) THEN at + l ELSE Len(bytes)
      /\ \A k \in 1 .. l : b[at + k] = run[k]
      /\ \A c \in 1 .. Len(bytes) : c \notin at + 1 .. at + l => b[c] = bytes[c]
  BY <1>1, OverwriteIs
<1> HIDE DEF at, l
<1>3. Len(bytes) <= Len(b) /\ at + l <= Len(b) /\ at + l \in Nat
  BY <1>1, <1>2
<1>4. \A k \in 1 .. Len(HeadOf) : b[k] = bytes[k]
  BY <1>1, <1>2
<1>5. ASSUME NEW j, Stored(j), NEW u \in Tiles(models[j]), i # j \/ t # u,
             PlaceOf(j, u) + Stride(j) <= Len(bytes), NEW k \in 1 .. Stride(j)
      PROVE  b[PlaceOf(j, u) + k] = bytes[PlaceOf(j, u) + k]
  <2> DEFINE c == PlaceOf(j, u) + k
  <2>1. PlaceOf(j, u) \in Nat /\ Stride(j) \in Nat
    BY <1>5, Places
  <2>2. \/ at + Stride(i) <= PlaceOf(j, u)
        \/ PlaceOf(j, u) + Stride(j) <= at
    BY <1>5, TilesApart DEF at
  <2>3. c \in 1 .. Len(bytes) /\ c \notin at + 1 .. at + l
    BY <1>1, <1>5, <2>1, <2>2 DEF l
  <2> HIDE DEF c
  <2>4. b[c] = bytes[c]
    BY <1>2, <2>3
  <2> QED BY <2>4 DEF c
<1>6. ASSUME NEW c \in 1 .. Len(b)
      PROVE  \/ c - at \in 1 .. l /\ b[c] = run[c - at]
             \/ c \in 1 .. Len(bytes) /\ b[c] = bytes[c]
  <2>1. CASE c \in at + 1 .. at + l
    <3> DEFINE k == c - at
    <3>1. k \in 1 .. l /\ at + k = c
      BY <1>1, <2>1
    <3> HIDE DEF k
    <3>2. b[c] = run[k]
      BY <1>2, <3>1
    <3> QED BY <3>1, <3>2 DEF k
  <2>2. CASE c \notin at + 1 .. at + l
    <3>1. c \in 1 .. Len(bytes)
      BY <1>1, <1>2, <2>2
    <3> QED BY <1>2, <2>2, <3>1
  <2> QED BY <2>1, <2>2
<1> QED BY <1>2, <1>3, <1>4, <1>5, <1>6 DEF at, l, TileWritten

(* What becomes of the promises when one tile's changes.                   *)
Promised(i, t, v) == [acked EXCEPT ![i][t] = v]

PromisesAre(new, i, t, v) ==
  /\ new = [j \in DOMAIN models |-> new[j]]
  /\ \A j \in DOMAIN models : new[j] \in [Tiles(models[j]) -> PayloadsOf[backend] \union {Unknown}]
  /\ \A j \in DOMAIN models : \A u \in Tiles(models[j]) :
       new[j][u] = IF j = i /\ u = t THEN v ELSE acked[j][u]

LEMMA PromiseChanged ==
  ASSUME Types, NEW i \in DOMAIN models, NEW t \in Tiles(models[i]),
         NEW v \in PayloadsOf[backend] \union {Unknown}, NEW new, new = Promised(i, t, v)
  PROVE  PromisesAre(new, i, t, v)
<1> DEFINE V == PayloadsOf[backend] \union {Unknown}
<1>1. /\ acked = [j \in DOMAIN models |-> acked[j]]
      /\ \A j \in DOMAIN models : acked[j] \in [Tiles(models[j]) -> V]
  BY DEF Types
<1> HIDE DEF V
<1>2. new = [j \in DOMAIN models |-> IF j = i THEN [acked[i] EXCEPT ![t] = v] ELSE acked[j]]
  BY <1>1 DEF Promised
<1>3. v \in V
  BY DEF V
<1>4. [acked[i] EXCEPT ![t] = v] \in [Tiles(models[i]) -> V]
      /\ \A u \in Tiles(models[i]) : [acked[i] EXCEPT ![t] = v][u] = IF u = t THEN v ELSE acked[i][u]
  BY <1>1, <1>3
<1> DEFINE f == [acked[i] EXCEPT ![t] = v]
<1> HIDE DEF f
<1>5. /\ DOMAIN new = DOMAIN models
      /\ \A j \in DOMAIN models : new[j] = IF j = i THEN f ELSE acked[j]
  BY <1>2 DEF f
<1>6. new = [j \in DOMAIN models |-> new[j]]
  BY <1>2
<1>7. \A j \in DOMAIN models : new[j] \in [Tiles(models[j]) -> V]
  BY <1>1, <1>4, <1>5 DEF f
<1>8. ASSUME NEW j \in DOMAIN models, NEW u \in Tiles(models[j])
      PROVE  new[j][u] = IF j = i /\ u = t THEN v ELSE acked[j][u]
  BY <1>4, <1>5 DEF f
<1> QED BY <1>6, <1>7, <1>8 DEF V, PromisesAre

------------------------------------------------------------------------------
(* What the writing steps keep.                                            *)

Written == Types /\ AckedOpen /\ Blocks /\ Whole

LEMMA NoneOpen ==
  ASSUME AckedOpen, form = "none"
  PROVE  NoneAcked
BY DEF NoneAcked, AckedOpen

(* The first header a document gets.                                       *)
LEMMA FirstHeader ==
  ASSUME Written, form = "none", NEW f \in {"object", "array"}, f = "array" => backend = "memory",
         backend = "openexr" => ExrInfoOk(First(models)),
         NEW run, run = (IF f = "array" THEN ModelJson("array", models) ELSE Header(backend, models)),
         form' = f, bytes' = Overwrite(bytes, 0, run),
         wpos' = Len(run) \/ (backend = "openexr" /\ wpos' = 1),
         UNCHANGED <<backend, models, acked, faults>>
  PROVE  Written'
<1>1. Types /\ AckedOpen /\ bytes = <<>>
  BY DEF Written, Types
<1>2. /\ IsRun(run) /\ Len(run) \in Nat \ {0}
  BY <1>1, HeaderRun DEF Types
<1>3. bytes' = run
  BY <1>1, <1>2, FirstWrite
<1>4. HeadOf' = run
  BY DEF HeadOf
<1>5. Types'
  <2>1. IsRun(bytes)' /\ wpos' \in 0 .. Len(bytes')
    BY <1>2, <1>3 DEF IsRun
  <2>2. /\ backend' \in Backends /\ models' \in ModelLists
        /\ form' \in {"none", "object", "array"} /\ (form' = "array" => backend' = "memory") /\ form' # "none"
    BY <1>1 DEF Types
  <2>3. /\ acked' = [i \in DOMAIN models' |-> acked'[i]]
        /\ \A i \in DOMAIN models' :
             acked'[i] \in [Tiles(models'[i]) -> PayloadsOf[backend'] \union {Unknown}]
        /\ faults' \in 0 .. MaxFaults
    BY <1>1 DEF Types
  <2> QED BY <2>1, <2>2, <2>3 DEF Types
<1>6. NoneAcked /\ NoneAcked'
  <2>1. NoneAcked
    BY <1>1, NoneOpen
  <2> QED BY <2>1 DEF NoneAcked, Acked
<1>7. AckedOpen'
  BY <1>6 DEF AckedOpen, NoneAcked
<1>8. Blocks'
  <2>1. Headed'
    BY <1>2, <1>3, <1>4 DEF Headed
  <2>2. Kept'
    BY <1>6 DEF Kept, NoneAcked
  <2>3. Pixels' /\ Covered'
    <3>1. Len(HeadOf') + 1 .. Len(bytes') = {}
      BY <1>2, <1>3, <1>4
    <3> QED BY <3>1 DEF Pixels, Covered
  <2> QED BY <2>1, <2>2, <2>3 DEF Blocks
<1>9. Whole'
  <2> SUFFICES ASSUME backend = "openexr" PROVE Whole'
    BY DEF Whole
  <2>1. run = ExrHeaderOnly(First(models))
    BY DEF Header
  <2> QED BY <1>3, <1>6, <2>1 DEF Whole
<1> QED BY <1>5, <1>7, <1>8, <1>9 DEF Written

LEMMA CellsAre ==
  ASSUME Types, form # "none", backend # "openexr", NEW i, Stored(i),
         NEW p \in PayloadsOf[backend], Fits(i, p)
  PROVE  /\ IsRun(CellsOf(i, p)) /\ Len(CellsOf(i, p)) = Stride(i)
         /\ backend \in Tier => \A k \in 1 .. Stride(i) : CellsOf(i, p)[k] = <<"pix", p, k>>
<1>1. models[i] \in Model /\ p \in Payloads
  BY Starts, BackendFacts
<1>2. CASE backend = "zarr"
  <2> DEFINE run == Compressed(models[i], p)
  <2>1. IsRun(run) /\ 1 + Len(run) <= SlotSize(models[i])
    BY <1>1, <1>2, CompressedIs DEF Fits
  <2> HIDE DEF run
  <2>2. IsRun(Slot(models[i], run)) /\ Len(Slot(models[i], run)) = SlotSize(models[i])
    BY <1>1, <2>1, SlotIs
  <2> QED BY <1>2, <2>2 DEF CellsOf, Stride, Tier, run
<1>3. CASE backend # "zarr"
  <2>1. TileBytes(models[i]) \in Nat
    BY <1>1, ModelTypes
  <2>2. CellsOf(i, p) = TileRun(p, TileBytes(models[i])) /\ Stride(i) = TileBytes(models[i])
    BY <1>3 DEF CellsOf, Stride
  <2> QED BY <2>1, <2>2, TileRunIs
<1> QED BY <1>2, <1>3

(* A tile that is put whole, or the beginning of one that fails.           *)
PutWhole(i, t, p) == faults' = faults /\ acked' = Promised(i, t, p)
PutFails(i, t) ==
  faults < MaxFaults /\ faults' = faults + 1 /\ acked' = Promised(i, t, Unknown)

LEMMA TilePut ==
  ASSUME Written, form # "none", backend # "openexr", NEW i, Stored(i), NEW t \in Tiles(models[i]),
         NEW p \in PayloadsOf[backend], Fits(i, p),
         NEW run, IsRun(run), Len(run) <= Stride(i), \A k \in 1 .. Len(run) : run[k] = CellsOf(i, p)[k],
         PutFails(i, t) \/ (PutWhole(i, t, p) /\ Len(run) = Stride(i)),
         PlaceOf(i, t) <= Len(bytes),
         bytes' = Overwrite(bytes, PlaceOf(i, t), run), wpos' = PlaceOf(i, t) + Len(run),
         UNCHANGED <<backend, models, form>>
  PROVE  Written' /\ Len(bytes) <= Len(bytes')
<1> DEFINE at == PlaceOf(i, t)
           v == IF PutFails(i, t) THEN Unknown ELSE p
<1>1. Types /\ AckedOpen /\ Headed /\ Kept /\ Pixels /\ Covered /\ i \in DOMAIN models
  BY DEF Written, Blocks, Stored
<1>2. Len(HeadOf) <= Len(bytes) /\ Len(HeadOf) \in Nat /\ Stride(i) \in Nat \ {0} /\ at \in Nat
      /\ Len(bytes) \in Nat /\ Len(run) \in Nat /\ Len(HeadOf) <= at
  BY <1>1, Places, RunFacts DEF Types, Headed
<1>3. /\ IsRun(bytes') /\ Len(bytes) <= Len(bytes') /\ at + Len(run) <= Len(bytes')
      /\ at + Len(run) \in Nat
      /\ \A k \in 1 .. Len(HeadOf) : bytes'[k] = bytes[k]
      /\ \A k \in 1 .. Len(run) : bytes'[at + k] = run[k]
      /\ \A j : Stored(j) => \A u \in Tiles(models[j]) :
           (i # j \/ t # u) /\ PlaceOf(j, u) + Stride(j) <= Len(bytes) =>
             \A k \in 1 .. Stride(j) : bytes'[PlaceOf(j, u) + k] = bytes[PlaceOf(j, u) + k]
      /\ \A c \in 1 .. Len(bytes') :
           \/ c - at \in 1 .. Len(run) /\ bytes'[c] = run[c - at]
           \/ c \in 1 .. Len(bytes) /\ bytes'[c] = bytes[c]
  <2> DEFINE b == Overwrite(bytes, PlaceOf(i, t), run)
  <2>1. bytes' = b
    OBVIOUS
  <2>2. b = Overwrite(bytes, PlaceOf(i, t), run)
    OBVIOUS
  <2> HIDE DEF b
  <2>3. TileWritten(b, i, t, run)
    BY <1>1, <1>2, <2>2, TileWrite
  <2> QED BY <2>1, <2>3 DEF TileWritten
<1>4. v \in PayloadsOf[backend] \union {Unknown} /\ acked' = Promised(i, t, v)
      /\ (~PutFails(i, t) => v = p /\ faults' = faults /\ Len(run) = Stride(i))
      /\ (PutFails(i, t) => v = Unknown /\ faults' = faults + 1 /\ faults < MaxFaults)
  BY DEF PutFails, PutWhole
<1> HIDE DEF at, v
<1>5. /\ acked' = [j \in DOMAIN models |-> acked'[j]]
      /\ \A j \in DOMAIN models :
           acked'[j] \in [Tiles(models[j]) -> PayloadsOf[backend] \union {Unknown}]
      /\ \A j \in DOMAIN models : \A u \in Tiles(models[j]) :
           acked'[j][u] = IF j = i /\ u = t THEN v ELSE acked[j][u]
  <2>1. PromisesAre(acked', i, t, v)
    BY <1>1, <1>4, PromiseChanged
  <2> QED BY <2>1 DEF PromisesAre
<1>6. /\ HeadOf' = HeadOf
      /\ \A j : StartOf(j)' = StartOf(j) /\ Stride(j)' = Stride(j) /\ (Stored(j)' <=> Stored(j))
      /\ \A j, u : PlaceOf(j, u)' = PlaceOf(j, u) /\ Area(j, u)' = Area(j, u)
      /\ \A j, q : CellsOf(j, q)' = CellsOf(j, q) /\ (Fits(j, q)' <=> Fits(j, q))
  BY PlacesKept
<1>7. Types'
  <2>1. faults \in 0 .. MaxFaults /\ MaxFaults \in Nat
    BY <1>1, DocumentsAssumption DEF Types
  <2>2. faults' \in 0 .. MaxFaults
    BY <1>4, <2>1
  <2>3. wpos' \in 0 .. Len(bytes')
    BY <1>2, <1>3 DEF at
  <2>4. IsRun(bytes)'
    BY <1>3 DEF IsRun
  <2>5. /\ backend' \in Backends /\ models' \in ModelLists /\ form' \in {"none", "object", "array"}
        /\ (form' = "array" => backend' = "memory") /\ form' # "none"
    BY <1>1 DEF Types
  <2>6. /\ acked' = [j \in DOMAIN models' |-> acked'[j]]
        /\ \A j \in DOMAIN models' :
             acked'[j] \in [Tiles(models'[j]) -> PayloadsOf[backend'] \union {Unknown}]
    BY <1>5
  <2> QED BY <2>2, <2>3, <2>4, <2>5, <2>6 DEF Types
<1>8. AckedOpen'
  <2> SUFFICES ASSUME NEW j \in DOMAIN models, NEW u \in Tiles(models[j]), Acked(j, u)'
               PROVE  form' # "none" /\ Stored(j)'
    BY DEF AckedOpen
  <2>1. acked'[j][u] # Unknown
    BY DEF Acked
  <2>2. (j = i /\ u = t) \/ Acked(j, u)
    BY <1>5, <2>1 DEF Acked
  <2> QED BY <1>1, <1>6, <2>2 DEF AckedOpen
<1>9. Headed'
  <2>1. Len(HeadOf) <= Len(bytes') /\ \A k \in 1 .. Len(HeadOf) : bytes'[k] = HeadOf[k]
    <3>1. Len(bytes') \in Nat
      BY <1>3, RunFacts
    <3>2. Len(HeadOf) <= Len(bytes')
      BY <1>2, <1>3, <3>1
    <3> QED BY <1>1, <1>3, <3>2 DEF Headed
  <2> QED BY <1>6, <2>1 DEF Headed
<1>10. Kept'
  <2> SUFFICES ASSUME NEW j \in DOMAIN models, NEW u \in Tiles(models[j]), Acked(j, u)',
                      NEW CONSTANT q, q = acked'[j][u]
               PROVE  Holds(j, u, q)'
    BY DEF Kept, Holds, Fits, CellsOf
  <2>1. q # Unknown
    BY DEF Acked
  <2>2. Stored(j)
    BY <1>6, <1>8 DEF AckedOpen
  <2>3. CASE j = i /\ u = t
    <3>1. q = p /\ Len(run) = Stride(i)
      BY <1>4, <1>5, <2>1, <2>3
    <3>2. \A k \in 1 .. Stride(i) : bytes'[at + k] = CellsOf(i, p)[k]
      BY <1>3, <3>1
    <3>3. Fits(i, p)' /\ PlaceOf(i, t)' = at /\ Stride(i)' = Stride(i)
      BY <1>6 DEF at
    <3>4. Fits(j, q)' /\ PlaceOf(j, u)' = at /\ Stride(j)' = Stride(j)
          /\ CellsOf(j, q)' = CellsOf(i, p) /\ j = i
      BY <1>6, <2>3, <3>1, <3>3
    <3>5. at + Stride(j) <= Len(bytes')
      BY <1>3, <3>1, <3>4
    <3> QED BY <3>2, <3>4, <3>5 DEF Holds
  <2>4. CASE ~(j = i /\ u = t)
    <3>1. q = acked[j][u]
      BY <1>5, <2>4
    <3>2. Acked(j, u)
      BY <2>1, <3>1 DEF Acked
    <3>3. Holds(j, u, q)
      BY <1>1, <3>1, <3>2 DEF Kept
    <3>4. /\ Fits(j, q) /\ PlaceOf(j, u) + Stride(j) <= Len(bytes)
          /\ \A k \in 1 .. Stride(j) : bytes[PlaceOf(j, u) + k] = CellsOf(j, q)[k]
      BY <3>3 DEF Holds
    <3>5. \A k \in 1 .. Stride(j) : bytes'[PlaceOf(j, u) + k] = bytes[PlaceOf(j, u) + k]
      BY <1>3, <2>2, <2>4, <3>4
    <3>6. PlaceOf(j, u) + Stride(j) <= Len(bytes')
      <4>1. PlaceOf(j, u) \in Nat /\ Stride(j) \in Nat /\ Len(bytes') \in Nat
        BY <1>1, <1>3, <2>2, Places, RunFacts
      <4> QED BY <1>2, <1>3, <3>4, <4>1
    <3>7. Fits(j, q)' /\ PlaceOf(j, u)' = PlaceOf(j, u) /\ Stride(j)' = Stride(j)
          /\ CellsOf(j, q)' = CellsOf(j, q)
      BY <1>6, <3>4
    <3> QED BY <3>4, <3>5, <3>6, <3>7 DEF Holds
  <2> QED BY <2>3, <2>4
<1>11. Pixels'
  <2> SUFFICES ASSUME backend \in Tier, NEW c \in Len(HeadOf) + 1 .. Len(bytes')
               PROVE  \E q \in PayloadsOf[backend] : bytes'[c] = <<"pix", q, bytes'[c][3]>>
    BY <1>6 DEF Pixels, Pixel
  <2>1. c \in 1 .. Len(bytes')
    BY <1>2
  <2>2. CASE c - at \in 1 .. Len(run) /\ bytes'[c] = run[c - at]
    <3> DEFINE k == c - at
    <3>1. k \in 1 .. Len(run) /\ bytes'[c] = run[k] /\ k \in 1 .. Stride(i)
      BY <1>2, <2>2
    <3> HIDE DEF k
    <3>2. bytes'[c] = CellsOf(i, p)[k]
      BY <3>1
    <3>3. CellsOf(i, p)[k] = <<"pix", p, k>>
      BY <1>1, <3>1, CellsAre
    <3> QED BY <3>2, <3>3
  <2>3. CASE c \in 1 .. Len(bytes) /\ bytes'[c] = bytes[c]
    <3>1. c \in Len(HeadOf) + 1 .. Len(bytes)
      BY <1>2, <2>1, <2>3
    <3> QED BY <1>1, <2>3, <3>1 DEF Pixels, Pixel
  <2> QED BY <1>3, <2>1, <2>2, <2>3
<1>12. Covered'
  <2> SUFFICES ASSUME faults' = 0, NEW c \in Len(HeadOf) + 1 .. Len(bytes')
               PROVE  \E j \in DOMAIN models : \E u \in Tiles(models[j]) :
                        Acked(j, u)' /\ c \in Area(j, u)'
    BY <1>6 DEF Covered
  <2>1. ~PutFails(i, t) /\ faults = 0 /\ v = p /\ Len(run) = Stride(i)
    <3>1. faults \in Nat
      BY <1>1, DocumentsAssumption DEF Types
    <3> QED BY <1>4, <3>1
  <2>2. Acked(i, t)'
    <3>1. p # Unknown
      BY <1>1, BackendFacts
    <3> QED BY <1>1, <1>5, <2>1, <3>1 DEF Acked
  <2>3. ASSUME NEW j \in DOMAIN models, NEW u \in Tiles(models[j]), Acked(j, u)
        PROVE  Acked(j, u)'
    <3>1. CASE j = i /\ u = t
      BY <2>2, <3>1
    <3>2. CASE ~(j = i /\ u = t)
      BY <1>5, <2>3, <3>2 DEF Acked
    <3> QED BY <3>1, <3>2
  <2>4. c \in 1 .. Len(bytes')
    BY <1>2
  <2>5. CASE c - at \in 1 .. Len(run)
    <3>1. c \in Area(i, t)
      BY <1>2, <2>1, <2>5 DEF Area, at
    <3> QED BY <1>1, <1>6, <2>2, <3>1
  <2>6. CASE c \in 1 .. Len(bytes) /\ bytes'[c] = bytes[c]
    <3>1. c \in Len(HeadOf) + 1 .. Len(bytes)
      BY <1>2, <2>4, <2>6
    <3>2. \E j \in DOMAIN models : \E u \in Tiles(models[j]) : Acked(j, u) /\ c \in Area(j, u)
      BY <1>1, <2>1, <3>1 DEF Covered
    <3> QED BY <1>6, <2>3, <3>2
  <2> QED BY <1>3, <2>4, <2>5, <2>6
<1>13. Blocks' /\ Whole'
  BY <1>9, <1>10, <1>11, <1>12 DEF Blocks, Whole
<1> QED BY <1>3, <1>7, <1>8, <1>13 DEF Written

(* OpenEXR: one whole document onto an empty buffer, or the start of it.   *)
ExrCells(i, p) == ExrDocument(models[i], TileRun(p, models[i].spp))
ExrRun(i, t, p, run) ==
  \/ PutWhole(i, t, p) /\ run = ExrCells(i, p)
  \/ PutFails(i, t) /\ \E n \in 0 .. Len(ExrCells(i, p)) - 1 : run = SubSeq(ExrCells(i, p), 1, n)

LEMMA ExrCellsAre ==
  ASSUME Written, form # "none", backend = "openexr", NEW i, i = 1, NEW p \in PayloadsOf[backend]
  PROVE  IsRun(ExrCells(i, p)) /\ Len(ExrCells(i, p)) \in Nat \ {0} /\ ExrCells(i, p) # <<>>
<1> DEFINE m == models[1]
           pixel == TileRun(p, m.spp)
           cells == ExrCells(i, p)
<1>1. m \in Model /\ m = First(models)
  BY ModelsFacts DEF Written, Types
<1>2. m.spp \in {1, 3, 4}
  BY <1>1, ExrSpp DEF Written, Whole
<1>3. cells = ExrDocument(m, pixel)
  BY DEF ExrCells
<1> HIDE DEF m, pixel, cells
<1>4. IsRun(cells) /\ Len(cells) = 1 + m.spp /\ cells # <<>>
  BY <1>1, <1>2, <1>3, ExrDocumentIs
<1> QED BY <1>2, <1>4 DEF cells

LEMMA ExrPut ==
  ASSUME Written, form # "none", backend = "openexr", bytes = <<>>, Stored(1),
         NEW t \in Tiles(models[1]), NEW p \in PayloadsOf[backend],
         NEW run, ExrRun(1, t, p, run),
         bytes' = Overwrite(bytes, wpos, run),
         wpos' = wpos + Len(run) \/ (wpos' = 1 /\ run # <<>>),
         UNCHANGED <<backend, models, form>>
  PROVE  Written'
<1> DEFINE m == First(models)
           doc == ExrCells(1, p)
<1>1. /\ Types /\ AckedOpen /\ 1 \in DOMAIN models /\ m = models[1] /\ m \in Model
      /\ models[1].extent \/ m.tiles = 0
  BY ModelsFacts DEF Written, Types
<1>2. ExrInfoOk(m) /\ m.spp \in {1, 3, 4}
  BY <1>1, ExrSpp DEF Written, Whole
<1>3. wpos = 0
  <2>1. Len(bytes) = 0
    OBVIOUS
  <2> QED BY <1>1, <2>1 DEF Types
<1>4. Tiles(m) = {0} /\ t = 0
  <2>1. m.tiles = 1 \/ m.tiles = 0
    BY <1>1, <1>2, ExrSpp, ModelsFacts DEF Types
  <2>2. t \in 0 .. m.tiles - 1
    BY <1>1 DEF Tiles
  <2>3. m.tiles = 1
    BY <2>1, <2>2
  <2>4. Tiles(m) = 0 .. 0
    BY <2>3 DEF Tiles
  <2> QED BY <2>2, <2>3, <2>4
<1>5. /\ IsRun(doc) /\ Len(doc) = 1 + m.spp /\ Len(doc) \in Nat \ {0}
      /\ doc # <<>> /\ doc[1] = ExrHeader(m)
  <2> DEFINE run0 == TileRun(p, m.spp)
  <2>1. doc = ExrDocument(m, run0)
    BY <1>1 DEF ExrCells
  <2> HIDE DEF run0, m, doc
  <2>2. /\ IsRun(doc) /\ Len(doc) = 1 + m.spp /\ doc # <<>> /\ doc[1] = ExrHeader(m)
    BY <1>1, <1>2, <2>1, ExrDocumentIs
  <2> QED BY <1>2, <2>2
<1> HIDE DEF doc
<1>6. /\ IsRun(run) /\ Len(run) \in Nat
      /\ PutFails(1, t) => run = <<>> \/ (run # <<>> /\ run[1] = ExrHeader(m))
      /\ ~PutFails(1, t) => run = doc
  <2>1. CASE run = doc
    BY <1>5, <2>1
  <2>2. ASSUME NEW n \in 0 .. Len(doc) - 1, run = SubSeq(doc, 1, n)
        PROVE  /\ IsRun(run) /\ Len(run) \in Nat
               /\ run = <<>> \/ (run # <<>> /\ run[1] = ExrHeader(m))
    <3>1. n \in Nat /\ n <= Len(doc)
      BY <1>5
    <3>2. IsRun(run) /\ Len(run) = n /\ \A k \in 1 .. n : run[k] = doc[k]
      BY <1>5, <2>2, <3>1, CutRun
    <3>3. n # 0 => run[1] = ExrHeader(m)
      BY <1>5, <3>1, <3>2
    <3>4. run = <<>> <=> n = 0
      BY <3>2, RunFacts
    <3> QED BY <3>1, <3>2, <3>3, <3>4
  <2>3. \/ PutWhole(1, t, p) /\ run = doc
        \/ PutFails(1, t) /\ \E n \in 0 .. Len(doc) - 1 : run = SubSeq(doc, 1, n)
    BY DEF ExrRun, doc
  <2> QED BY <2>1, <2>2, <2>3
<1>7. bytes' = run /\ wpos' \in 0 .. Len(run)
  <2>1. bytes' = run
    BY <1>3, <1>6, FirstWrite
  <2>2. wpos' = Len(run) \/ (wpos' = 1 /\ Len(run) # 0)
    BY <1>3, <1>6, RunFacts
  <2> QED BY <1>6, <2>1, <2>2
<1>8. PICK v \in PayloadsOf[backend] \union {Unknown} :
        /\ acked' = Promised(1, t, v)
        /\ ~PutFails(1, t) => v = p /\ faults' = faults
        /\ PutFails(1, t) => v = Unknown /\ faults' = faults + 1 /\ faults < MaxFaults
  BY DEF PutFails, PutWhole, ExrRun
<1> HIDE DEF m
<1>9. /\ acked' = [j \in DOMAIN models |-> acked'[j]]
      /\ \A j \in DOMAIN models :
           acked'[j] \in [Tiles(models[j]) -> PayloadsOf[backend] \union {Unknown}]
      /\ \A j \in DOMAIN models : \A u \in Tiles(models[j]) :
           acked'[j][u] = IF j = 1 /\ u = t THEN v ELSE acked[j][u]
  <2>1. Types /\ 1 \in DOMAIN models /\ acked' = Promised(1, t, v)
    BY <1>1, <1>8
  <2>2. PromisesAre(acked', 1, t, v)
    BY <2>1, PromiseChanged
  <2> QED BY <2>2 DEF PromisesAre
<1>10. faults \in 0 .. MaxFaults /\ MaxFaults \in Nat
  BY <1>1, DocumentsAssumption DEF Types
<1>11. Types'
  <2>1. faults' \in 0 .. MaxFaults
    BY <1>8, <1>10
  <2>2. IsRun(bytes)' /\ wpos' \in 0 .. Len(bytes')
    BY <1>6, <1>7 DEF IsRun
  <2>3. /\ backend' \in Backends /\ models' \in ModelLists /\ form' \in {"none", "object", "array"}
        /\ (form' = "array" => backend' = "memory") /\ form' # "none"
    BY <1>1 DEF Types
  <2>4. /\ acked' = [j \in DOMAIN models' |-> acked'[j]]
        /\ \A j \in DOMAIN models' :
             acked'[j] \in [Tiles(models'[j]) -> PayloadsOf[backend'] \union {Unknown}]
    BY <1>9
  <2> QED BY <2>1, <2>2, <2>3, <2>4 DEF Types
<1>12. ASSUME NEW j \in DOMAIN models, NEW u \in Tiles(models[j]), acked'[j][u] # Unknown
       PROVE  Stored(j) /\ j = 1 /\ u = t /\ acked'[j][u] = v
  <2>1. (j = 1 /\ u = t) \/ Acked(j, u)
    BY <1>9, <1>12 DEF Acked
  <2>2. Stored(j)
    BY <1>1, <2>1 DEF AckedOpen
  <2>3. form # "array"
    BY <1>1, BackendFacts
  <2>4. j = 1 /\ u = 0
    BY <1>1, <1>4, <2>2, <2>3 DEF Stored, m
  <2> QED BY <1>4, <1>9, <2>2, <2>4
<1>13. AckedOpen'
  BY <1>12 DEF AckedOpen, Acked, Stored
<1>14. Whole'
  <2>1. CASE PutFails(1, t)
    <3>1. NoneAcked'
      BY <1>8, <1>12, <2>1 DEF NoneAcked, Acked
    <3>2. faults' # 0
      BY <1>8, <1>10, <2>1
    <3> QED BY <1>2, <1>6, <1>7, <2>1, <3>1, <3>2 DEF Whole, m
  <2>2. CASE ~PutFails(1, t)
    <3>1. bytes' = ExrDocument(m, TileRun(p, m.spp))
      BY <1>1, <1>6, <1>7, <2>2 DEF m, doc, ExrCells
    <3>2. \A u \in Tiles(m) : acked'[1][u] = p
      BY <1>1, <1>4, <1>8, <1>9, <2>2
    <3>3. \E q \in PayloadsOf[backend] :
            (\A u \in Tiles(m) : acked'[1][u] = q) /\ bytes' = ExrDocument(m, TileRun(q, m.spp))
      BY <3>1, <3>2
    <3> QED BY <1>2, <3>3 DEF Whole, m
  <2> QED BY <2>1, <2>2
<1>15. Blocks'
  BY DEF Blocks
<1> QED BY <1>11, <1>13, <1>14, <1>15 DEF Written

------------------------------------------------------------------------------
(* The steps, one by one.                                                  *)

LEMMA WrittenKept ==
  ASSUME Written, UNCHANGED <<backend, models, form, bytes, acked, faults>>,
         wpos' \in 0 .. Len(bytes)
  PROVE  Written'
BY WritingKept DEF Written

(* A step that writes finds no reader and leaves none.                     *)
LEMMA NoReaderKept ==
  ASSUME Reads, rpos = NoReader, UNCHANGED reading
  PROVE  Reads'
<1>1. rpos' = NoReader /\ source' = NoSource /\ got' \in Contents
  BY DEF Reads, reading
<1> QED BY <1>1 DEF Reads

LEMMA SinkStarts ==
  ASSUME Types, form = "object"
  PROVE  /\ Stored(1) /\ SinkStart(backend, models) = IF backend = "openexr" THEN 0 ELSE StartOf(1)
         /\ HeadOf = Header(backend, models)
BY ModelsFacts DEF Types, Stored, SinkStart, StartOf, HeadOf

LEMMA SerializeModelStep ==
  ASSUME Inv, SerializeModel
  PROVE  Inv'
<1> USE DEF SerializeModel
<1>1. Written /\ Reads /\ Types /\ wpos = 0 /\ rpos = NoReader /\ sink' = NoSink
  <2>1. Written /\ Reads /\ Types /\ bytes = <<>> /\ rpos = NoReader /\ sink' = NoSink
    BY DEF Inv, Written, CanWrite
  <2>2. Len(bytes) = 0
    BY <2>1
  <2> QED BY <2>1, <2>2 DEF Types
<1>2. backend = "openexr" => ExrInfoOk(First(models))
  BY DEF HeaderOk
<1>3. Len(Header(backend, models)) \in Nat
  BY <1>1, <1>2, HeaderRun DEF Types
<1> DEFINE f == "object"
           run == IF f = "array" THEN ModelJson("array", models) ELSE Header(backend, models)
<1>4. /\ bytes' = Overwrite(bytes, 0, run) /\ form' = f
      /\ wpos' = Len(run) \/ (backend = "openexr" /\ wpos' = 1)
      /\ form = "none" /\ f \in {"object", "array"} /\ (f = "array" => backend = "memory")
      /\ UNCHANGED <<backend, models, acked, faults>>
      /\ run = IF f = "array" THEN ModelJson("array", models) ELSE Header(backend, models)
  BY <1>1, <1>3 DEF Write, CursorAfter
<1> HIDE DEF f, run
<1>5. Written'
  BY <1>1, <1>2, <1>4, FirstHeader
<1>6. Reads'
  BY <1>1, NoReaderKept
<1>7. SinkPlaced'
  BY <1>1 DEF SinkPlaced
<1> QED BY <1>5, <1>6, <1>7 DEF Inv, Written

LEMMA SerializeModelListStep ==
  ASSUME Inv, SerializeModelList
  PROVE  Inv'
<1> USE DEF SerializeModelList
<1>1. Written /\ Reads /\ Types /\ wpos = 0 /\ rpos = NoReader /\ sink' = NoSink
  <2>1. Written /\ Reads /\ Types /\ bytes = <<>> /\ rpos = NoReader /\ sink' = NoSink
    BY DEF Inv, Written, CanWrite
  <2>2. Len(bytes) = 0
    BY <2>1
  <2> QED BY <2>1, <2>2 DEF Types
<1>2. backend = "memory" /\ (backend = "openexr" => ExrInfoOk(First(models)))
  OBVIOUS
<1>3. Len(ModelJson("array", models)) \in Nat
  BY <1>1, <1>2, HeaderRun DEF Types
<1> DEFINE f == "array"
           run == IF f = "array" THEN ModelJson("array", models) ELSE Header(backend, models)
<1>4. /\ bytes' = Overwrite(bytes, 0, run) /\ form' = f
      /\ wpos' = Len(run) \/ (backend = "openexr" /\ wpos' = 1)
      /\ form = "none" /\ f \in {"object", "array"} /\ (f = "array" => backend = "memory")
      /\ UNCHANGED <<backend, models, acked, faults>>
      /\ run = IF f = "array" THEN ModelJson("array", models) ELSE Header(backend, models)
  BY <1>1, <1>3 DEF Write, CursorAfter
<1> HIDE DEF f, run
<1>5. Written'
  BY <1>1, <1>2, <1>4, FirstHeader
<1>6. Reads'
  BY <1>1, NoReaderKept
<1>7. SinkPlaced'
  BY <1>1 DEF SinkPlaced
<1> QED BY <1>5, <1>6, <1>7 DEF Inv, Written

LEMMA OpenSinkStep ==
  ASSUME Inv, CarefulCallers, OpenSink
  PROVE  Inv'
<1> USE DEF OpenSink
<1> DEFINE start == SinkStart(backend, models)
<1>1. /\ Written /\ Reads /\ Types /\ AckedOpen /\ rpos = NoReader /\ form \in {"none", "object"} /\ form' = "object"
      /\ UNCHANGED <<backend, models, acked, faults, reading>>
      /\ sink' = [image |-> 1, start |-> start] /\ start <= Len(bytes')
      /\ wpos' = IF backend = "openexr" THEN wpos ELSE start
      /\ bytes' = IF backend = "zarr" THEN Overwrite(bytes, wpos, Header(backend, models)) ELSE bytes
      /\ SinkOk(backend, models)
      /\ backend = "zarr" => form = "none"
  <2>1. backend = "zarr" => bytes = <<>>
    BY DEF WriterIsFresh, CarefulCallers, Inv, Types
  <2>2. backend = "zarr" => form = "none"
    <3> SUFFICES ASSUME backend = "zarr", form # "none" PROVE FALSE
      OBVIOUS
    <3>1. Len(HeadOf) \in Nat \ {0} /\ Len(HeadOf) <= Len(bytes)
      BY HeadIs DEF Inv, Blocks, Headed
    <3>2. Len(bytes) = 0
      BY <2>1
    <3> QED BY <3>1, <3>2
  <2> QED BY <2>2 DEF Inv, Written, Types, CanWrite, SeekOk
<1>2. backend \in {"memory", "pds4", "isis", "zarr", "openexr"}
  BY <1>1, BackendFacts
<1>3. start = IF backend = "openexr" THEN 0 ELSE Len(Header(backend, models))
  BY DEF SinkStart
<1>4. backend = "openexr" => ExrInfoOk(First(models))
  BY <1>1 DEF SinkOk
<1>5. Len(Header(backend, models)) \in Nat \ {0}
  BY <1>1, <1>4, HeaderRun DEF Types
<1> HIDE DEF start
<1> HIDE DEF OpenSink
<1>6. Written'
  <2>1. CASE backend \in Tier
    <3>1. Len(bytes') = Len(bytes) /\ bytes' = bytes /\ wpos' = start /\ start \in Nat \ {0}
      BY <1>1, <1>3, <1>5, <2>1 DEF Tier
    <3>2. form = "object"
      <4>1. form = "none" => Len(bytes) = 0
        BY <1>1 DEF Types
      <4> QED BY <1>1, <3>1, <4>1
    <3>3. wpos' \in 0 .. Len(bytes)
      BY <1>1, <2>1, <3>1, RunFacts DEF Types, Tier
    <3> QED BY <1>1, <3>1, <3>2, <3>3, WrittenKept
  <2>2. CASE backend = "zarr"
    <3> DEFINE f == "object"
               run == IF f = "array" THEN ModelJson("array", models) ELSE Header(backend, models)
    <3>1. wpos = 0
      <4>1. Len(bytes) = 0
        BY <1>1, <2>2 DEF Types
      <4> QED BY <1>1, <4>1 DEF Types
    <3>2. /\ bytes' = Overwrite(bytes, 0, run) /\ wpos' = Len(run) /\ form' = f
          /\ form = "none" /\ f \in {"object", "array"} /\ (f = "array" => backend = "memory")
          /\ UNCHANGED <<backend, models, acked, faults>>
          /\ run = IF f = "array" THEN ModelJson("array", models) ELSE Header(backend, models)
      BY <1>1, <1>3, <2>2, <3>1
    <3> HIDE DEF f, run
    <3> QED BY <1>1, <1>4, <3>2, FirstHeader
  <2>3. CASE backend = "openexr" /\ form = "object"
    <3>1. wpos' \in 0 .. Len(bytes) /\ UNCHANGED <<backend, models, form, bytes, acked, faults>>
      BY <1>1, <2>3 DEF Types
    <3> QED BY <1>1, <3>1, WrittenKept
  <2>4. CASE backend = "openexr" /\ form = "none"
    <3>1. wpos' = wpos /\ bytes' = <<>> /\ bytes = <<>> /\ backend' = "openexr"
      BY <1>1, <2>4 DEF Types
    <3>2. NoneAcked
      BY <1>1, <2>4, NoneOpen
    <3>3. NoneAcked' /\ AckedOpen'
      BY <1>1, <3>2 DEF NoneAcked, Acked, AckedOpen
    <3>4. Types'
      BY <1>1, <3>1 DEF Types, IsRun
    <3>5. Whole'
      BY <1>1, <1>4, <2>4, <3>1, <3>3 DEF Whole
    <3>6. Blocks'
      BY <3>1 DEF Blocks
    <3> QED BY <3>3, <3>4, <3>5, <3>6 DEF Written
  <2> QED BY <1>1, <1>2, <2>1, <2>2, <2>3, <2>4 DEF Tier
<1>7. Reads'
  BY <1>1, NoReaderKept
<1>8. SinkPlaced'
  <2>1. Stored(1)'
    BY <1>1, ModelsFacts DEF Stored, Types
  <2>2. backend # "openexr" => StartOf(1)' = start
    BY <1>1, <1>3 DEF StartOf, HeadOf
  <2>3. start = (IF backend = "openexr" THEN 0 ELSE StartOf(1))'
    BY <1>1, <1>3, <2>2
  <2>4. sink'.image = 1 /\ sink'.start = start
    BY <1>1
  <2> QED BY <1>1, <2>1, <2>3, <2>4 DEF SinkPlaced
<1> QED BY <1>6, <1>7, <1>8 DEF Inv, Written

LEMMA OpenSinkAtStep ==
  ASSUME Inv, NEW i \in DOMAIN models, OpenSinkAt(i)
  PROVE  Inv'
<1> USE DEF OpenSinkAt
<1> DEFINE start == ImagePixelOffset(models, i, JsonLen("array", models))
<1>1. /\ Written /\ Reads /\ Types /\ rpos = NoReader /\ form = "array" /\ backend = "memory"
      /\ UNCHANGED <<backend, models, form, bytes, acked, faults, reading>>
      /\ wpos' = start /\ sink' = [image |-> i, start |-> start] /\ start <= Len(bytes)
  BY DEF Inv, Written, Types, CanWrite, SeekOk
<1>2. start = StartOf(i)
  BY <1>1 DEF StartOf
<1>3. Stored(i)
  BY <1>1 DEF Stored
<1>4. start \in Nat /\ Len(bytes) \in Nat
  BY <1>1, <1>2, <1>3, Starts, RunFacts DEF Types
<1> HIDE DEF start
<1> HIDE DEF OpenSinkAt
<1>5. Written'
  <2>1. wpos' \in 0 .. Len(bytes)
    BY <1>1, <1>4
  <2> QED BY <1>1, <2>1, WrittenKept
<1>6. Reads'
  BY <1>1, NoReaderKept
<1>7. SinkPlaced'
  <2>1. StartOf(i)' = start /\ Stored(i)'
    BY <1>1, <1>2, <1>3, PlacesKept
  <2>2. sink'.image = i /\ sink'.start = start /\ backend' = "memory"
    BY <1>1
  <2> QED BY <1>1, <2>1, <2>2 DEF SinkPlaced
<1> QED BY <1>5, <1>6, <1>7 DEF Inv, Written

(* The place and the cells of a tile, as the sink works them out.          *)
LEMMA SinkPlace ==
  ASSUME Inv, CarefulCallers, sink.image # 0, NEW t, NEW p, Writable(models[sink.image], t, p)
  PROVE  LET i == sink.image
         IN  /\ Written /\ Types /\ form # "none" /\ rpos = NoReader /\ Stored(i) /\ i \in DOMAIN models
             /\ t \in Tiles(models[i]) /\ p \in PayloadsOf[backend]
             /\ sink = [image |-> i, start |-> IF backend = "openexr" THEN 0 ELSE StartOf(i)]
             /\ backend # "openexr" =>
                  /\ TileAt(models[i], t) = PlaceOf(i, t) /\ PlaceOf(i, t) <= Len(bytes)
                  /\ TileCells(models[i], p) = CellsOf(i, p) /\ Fits(i, p)
             /\ backend = "openexr" => bytes = <<>> /\ i = 1
<1> DEFINE i == sink.image
           m == models[i]
<1>1. /\ sink \notin {NoSink, Unwound} /\ t \in Tiles(m) /\ p \in PayloadsOf[backend]
      /\ (backend = "zarr" => 1 + Len(Compressed(m, p)) <= SlotSize(m))
      /\ (backend = "openexr" => bytes = <<>>) /\ TileAt(m, t) <= Len(bytes)
  <2>1. sink \notin {NoSink, Unwound}
    BY DEF NoSink, Unwound
  <2>2. backend = "openexr" => bytes = <<>>
    BY DEF Writable, WriterIsFresh, CarefulCallers, Inv, Types
  <2> QED BY <2>1, <2>2 DEF Writable, SeekOk
<1>2. /\ Written /\ Types /\ form # "none" /\ rpos = NoReader /\ Stored(i)
      /\ sink = [image |-> i, start |-> IF backend = "openexr" THEN 0 ELSE StartOf(i)]
  BY <1>1 DEF Inv, Written, SinkPlaced, Reads
<1>3. i \in DOMAIN models
  BY <1>2 DEF Stored
<1>4. ASSUME backend # "openexr"
      PROVE  TileAt(m, t) = PlaceOf(i, t) /\ TileCells(m, p) = CellsOf(i, p) /\ Fits(i, p)
  <2>1. sink.start = StartOf(i)
    BY <1>2, <1>4
  <2>2. CASE backend = "zarr"
    <3>1. backend \notin Tier
      BY <2>2 DEF Tier
    <3>2. TileAt(m, t) = SlotOffset(m, sink.start, t)
      BY <2>2, <3>1 DEF TileAt
    <3>3. TileCells(m, p) = CellsOf(i, p)
      BY <2>2, <3>1 DEF TileCells, CellsOf
    <3>4. SlotOffset(m, sink.start, t) = PlaceOf(i, t)
      BY <2>1, <2>2 DEF SlotOffset, PlaceOf, Stride
    <3> QED BY <1>1, <3>2, <3>3, <3>4 DEF Fits
  <2>3. CASE backend # "zarr"
    <3>1. backend \in Tier
      BY <1>2, <1>4, <2>3, BackendFacts DEF Tier
    <3>2. TileAt(m, t) = TileOffset(m, sink.start, t)
      BY <1>4, <2>3, <3>1 DEF TileAt
    <3>3. TileCells(m, p) = CellsOf(i, p)
      BY <1>4, <2>3, <3>1 DEF TileCells, CellsOf
    <3>4. TileOffset(m, sink.start, t) = PlaceOf(i, t)
      BY <2>1, <2>3 DEF TileOffset, PlaceOf, Stride
    <3> QED BY <2>3, <3>2, <3>3, <3>4 DEF Fits
  <2> QED BY <2>2, <2>3
<1>5. backend = "openexr" => i = 1
  BY <1>2, BackendFacts DEF Stored
<1> QED BY <1>1, <1>2, <1>3, <1>4, <1>5

(* What is left of the invariant once the bytes are right.                 *)
LEMMA SinkKept ==
  ASSUME Inv, form # "none", rpos = NoReader, Written', Len(bytes) <= Len(bytes') \/ backend = "openexr",
         UNCHANGED <<backend, models, form, reading>>, sink' = sink \/ sink' = Unwound
  PROVE  Inv'
<1>1. Reads'
  BY NoReaderKept DEF Inv
<1>2. SinkPlaced'
  <2> SUFFICES ASSUME sink \notin {NoSink, Unwound}, sink' = sink PROVE SinkPlaced'
    BY DEF SinkPlaced
  <2> DEFINE i == sink.image
  <2>1. /\ Stored(i) /\ sink = [image |-> i, start |-> IF backend = "openexr" THEN 0 ELSE StartOf(i)]
        /\ sink.start <= Len(bytes)
    BY DEF Inv, SinkPlaced
  <2>2. StartOf(i)' = StartOf(i) /\ (Stored(i)' <=> Stored(i)) /\ i' = i
    <3>1. \A j : StartOf(j)' = StartOf(j) /\ (Stored(j)' <=> Stored(j))
      BY PlacesKept
    <3>2. i' = i
      OBVIOUS
    <3> QED BY <3>1, <3>2 DEF StartOf, Stored
  <2>3. Len(bytes') \in Nat /\ Len(bytes) \in Nat
    BY RunFacts DEF Inv, Types, Written, IsRun
  <2>4. sink.start \in Nat
    <3>1. CASE backend = "openexr"
      BY <2>1, <3>1
    <3>2. CASE backend # "openexr"
      BY <2>1, <3>2, Starts DEF Inv
    <3> QED BY <3>1, <3>2
  <2>5. sink.start <= Len(bytes')
    <3>1. CASE backend = "openexr"
      BY <2>1, <2>3, <3>1
    <3>2. CASE backend # "openexr"
      BY <2>1, <2>3, <2>4, <3>2
    <3> QED BY <3>1, <3>2
  <2> QED BY <2>1, <2>2, <2>5 DEF SinkPlaced, Stored, StartOf, HeadOf
<1> QED BY <1>1, <1>2 DEF Inv, Written

LEMMA WriteTileStep ==
  ASSUME Inv, CarefulCallers, NEW t, NEW p, WriteTile(t, p)
  PROVE  Inv'
<1>1. PICK i : i = sink.image
  OBVIOUS
<1>2. /\ sink.image # 0 /\ Writable(models[i], t, p)
      /\ bytes' = Overwrite(bytes, TileAt(models[i], t), TileCells(models[i], p))
      /\ \/ wpos' = TileAt(models[i], t) + Len(TileCells(models[i], p))
         \/ backend = "openexr" /\ wpos' = 1
      /\ acked' = [acked EXCEPT ![i][t] = p]
      /\ UNCHANGED <<backend, models, form, sink, faults, reading>>
  BY <1>1 DEF WriteTile, CursorAfter
<1>3. /\ Written /\ Types /\ form # "none" /\ rpos = NoReader /\ Stored(i) /\ i \in DOMAIN models
      /\ t \in Tiles(models[i]) /\ p \in PayloadsOf[backend]
      /\ backend # "openexr" =>
           /\ TileAt(models[i], t) = PlaceOf(i, t) /\ PlaceOf(i, t) <= Len(bytes)
           /\ TileCells(models[i], p) = CellsOf(i, p) /\ Fits(i, p)
      /\ backend = "openexr" => bytes = <<>> /\ i = 1
  BY <1>1, <1>2, SinkPlace
<1>4. PutWhole(i, t, p)
  BY <1>2 DEF PutWhole, Promised
<1>5. CASE backend # "openexr"
  <2>1. /\ IsRun(CellsOf(i, p)) /\ Len(CellsOf(i, p)) = Stride(i) /\ Stride(i) \in Nat
    BY <1>3, <1>5, CellsAre, Starts
  <2> DEFINE run == CellsOf(i, p)
  <2>2. /\ IsRun(run) /\ Len(run) <= Stride(i) /\ Len(run) = Stride(i)
        /\ \A k \in 1 .. Len(run) : run[k] = CellsOf(i, p)[k]
        /\ bytes' = Overwrite(bytes, PlaceOf(i, t), run) /\ wpos' = PlaceOf(i, t) + Len(run)
    BY <1>2, <1>3, <1>5, <2>1
  <2> HIDE DEF run
  <2>3. Written' /\ Len(bytes) <= Len(bytes')
    <3>1. UNCHANGED <<backend, models, form>>
      BY <1>2
    <3> QED BY <1>3, <1>4, <1>5, <2>2, <3>1, TilePut
  <2> QED BY <1>2, <1>3, <2>3, SinkKept
<1>6. CASE backend = "openexr"
  <2> DEFINE run == TileCells(models[i], p)
  <2>1. /\ run = ExrCells(i, p) /\ TileAt(models[i], t) = wpos
    BY <1>6 DEF TileCells, TileAt, ExrCells, Tier
  <2>2. ExrRun(i, t, p, run)
    BY <1>4, <2>1 DEF ExrRun
  <2>3. /\ bytes' = Overwrite(bytes, wpos, run)
        /\ wpos' = wpos + Len(run) \/ (wpos' = 1 /\ run # <<>>)
        /\ UNCHANGED <<backend, models, form>>
    <3>1. run # <<>>
      BY <1>3, <1>6, <2>1, ExrCellsAre
    <3> QED BY <1>2, <2>1, <3>1
  <2> HIDE DEF run
  <2>4. Written'
    <3>1. i = 1 /\ bytes = <<>>
      BY <1>3, <1>6
    <3>2. /\ Stored(1) /\ t \in Tiles(models[1]) /\ ExrRun(1, t, p, run)
      BY <1>3, <2>2, <3>1
    <3> QED BY <1>3, <1>6, <2>3, <3>1, <3>2, ExrPut
  <2> QED BY <1>2, <1>3, <1>6, <2>4, SinkKept
<1> QED BY <1>5, <1>6

LEMMA WriteTileFailsStep ==
  ASSUME Inv, CarefulCallers, NEW t, NEW p, WriteTileFails(t, p)
  PROVE  Inv'
<1>1. PICK i : i = sink.image
  OBVIOUS
<1> DEFINE cells == TileCells(models[i], p)
<1>2. /\ sink.image # 0 /\ Writable(models[i], t, p)
      /\ acked' = [acked EXCEPT ![i][t] = Unknown]
      /\ faults < MaxFaults /\ faults' = faults + 1
      /\ UNCHANGED <<backend, models, form, reading>>
      /\ sink' = sink \/ sink' = Unwound
      /\ \E n \in 0 .. Len(cells) - 1 :
           /\ bytes' = Overwrite(bytes, TileAt(models[i], t), SubSeq(cells, 1, n))
           /\ wpos' = TileAt(models[i], t) + n
  BY <1>1 DEF WriteTileFails
<1>3. /\ Written /\ Types /\ form # "none" /\ rpos = NoReader /\ Stored(i) /\ i \in DOMAIN models
      /\ t \in Tiles(models[i]) /\ p \in PayloadsOf[backend]
      /\ backend # "openexr" =>
           /\ TileAt(models[i], t) = PlaceOf(i, t) /\ PlaceOf(i, t) <= Len(bytes)
           /\ TileCells(models[i], p) = CellsOf(i, p) /\ Fits(i, p)
      /\ backend = "openexr" => bytes = <<>> /\ i = 1
  BY <1>1, <1>2, SinkPlace
<1>4. PutFails(i, t)
  BY <1>2 DEF PutFails, Promised
<1>5. PICK n \in 0 .. Len(cells) - 1 :
        /\ bytes' = Overwrite(bytes, TileAt(models[i], t), SubSeq(cells, 1, n))
        /\ wpos' = TileAt(models[i], t) + n
  BY <1>2
<1> HIDE DEF cells
<1>6. CASE backend # "openexr"
  <2>1. /\ IsRun(cells) /\ Len(cells) = Stride(i) /\ Stride(i) \in Nat /\ cells = CellsOf(i, p)
    BY <1>3, <1>6, CellsAre, Starts DEF cells
  <2> DEFINE run == SubSeq(cells, 1, n)
  <2>2. n \in Nat /\ n <= Len(cells)
    BY <2>1
  <2>3. IsRun(run) /\ Len(run) = n /\ \A k \in 1 .. n : run[k] = cells[k]
    BY <2>1, <2>2, CutRun
  <2>4. /\ bytes' = Overwrite(bytes, PlaceOf(i, t), run) /\ wpos' = PlaceOf(i, t) + n
    BY <1>3, <1>5, <1>6
  <2> HIDE DEF run
  <2>5. /\ IsRun(run) /\ Len(run) <= Stride(i)
        /\ \A k \in 1 .. Len(run) : run[k] = CellsOf(i, p)[k]
        /\ bytes' = Overwrite(bytes, PlaceOf(i, t), run) /\ wpos' = PlaceOf(i, t) + Len(run)
    BY <2>1, <2>2, <2>3, <2>4
  <2>6. Written' /\ Len(bytes) <= Len(bytes')
    <3>1. UNCHANGED <<backend, models, form>>
      BY <1>2
    <3> QED BY <1>3, <1>4, <1>6, <2>5, <3>1, TilePut
  <2> QED BY <1>2, <1>3, <2>6, SinkKept
<1>7. CASE backend = "openexr"
  <2> DEFINE run == SubSeq(cells, 1, n)
  <2>1. cells = ExrCells(i, p) /\ TileAt(models[i], t) = wpos /\ i = 1 /\ bytes = <<>>
    BY <1>3, <1>7 DEF TileCells, TileAt, ExrCells, Tier, cells
  <2>2. ExrRun(i, t, p, run)
    BY <1>4, <2>1 DEF ExrRun
  <2>3. Len(run) = n
    <3>1. IsRun(cells) /\ Len(cells) \in Nat \ {0}
      BY <1>3, <1>7, <2>1, ExrCellsAre
    <3>2. n \in Nat /\ n <= Len(cells)
      BY <3>1
    <3> QED BY <3>1, <3>2, CutRun DEF run
  <2>4. /\ bytes' = Overwrite(bytes, wpos, run) /\ wpos' = wpos + Len(run)
        /\ UNCHANGED <<backend, models, form>>
    BY <1>2, <1>5, <2>1, <2>3
  <2> HIDE DEF run
  <2>5. Written'
    <3>1. /\ Stored(1) /\ t \in Tiles(models[1]) /\ ExrRun(1, t, p, run)
      BY <1>3, <2>1, <2>2
    <3> QED BY <1>3, <1>7, <2>1, <2>4, <3>1, ExrPut
  <2> QED BY <1>2, <1>3, <1>7, <2>5, SinkKept
<1> QED BY <1>6, <1>7

(* A step that reads leaves the document alone; whoever holds a reader has *)
(* no sink.                                                                *)
LEMMA ReaderKept ==
  ASSUME Inv, UNCHANGED <<backend, models, writing>>,
         sink = NoSink, form # "none",
         rpos' \in 0 .. Len(bytes), got' \in Contents,
         source' # NoSource =>
           /\ FreshDoc.ok
           /\ \E i \in DOMAIN models :
                Stored(i) /\ source' = [image |-> <<FreshDoc.images[i]>>, start |-> FreshStart(i)]
  PROVE  Inv'
<1>1. UNCHANGED <<backend, models, form, bytes, wpos, sink, acked, faults>>
  BY DEF writing
<1>2. Written'
  <2>1. Written /\ wpos' \in 0 .. Len(bytes)
    BY <1>1 DEF Inv, Written, Types
  <2> QED BY <1>1, <2>1, WrittenKept
<1>3. SinkPlaced'
  BY <1>1 DEF SinkPlaced
<1>4. FreshDoc' = FreshDoc
  BY <1>1 DEF FreshDoc
<1>5. \A i : FreshStart(i)' = FreshStart(i) /\ (Stored(i)' <=> Stored(i))
  BY <1>1, <1>4 DEF FreshStart, Stored
<1>6. Reads'
  <2>1. rpos' \in {NoReader} \union 0 .. Len(bytes') /\ got' \in Contents
    BY <1>1
  <2>2. sink' = NoSink /\ form' # "none"
    BY <1>1
  <2>3. rpos' # NoReader
    BY RunFacts DEF Inv, Types, NoReader
  <2>4. source' # NoSource =>
          /\ FreshDoc'.ok
          /\ \E i \in DOMAIN models' :
               Stored(i)' /\ source' = [image |-> <<FreshDoc'.images[i]>>, start |-> FreshStart(i)']
    BY <1>1, <1>4, <1>5
  <2> QED BY <2>1, <2>2, <2>3, <2>4 DEF Reads
<1> QED BY <1>2, <1>3, <1>6 DEF Inv, Written

LEMMA ContentTypes ==
  ASSUME NEW run
  PROVE  ContentOf(run) \in Payloads \union {Garbled}
BY DEF ContentOf

LEMMA TileContents ==
  ASSUME NEW be \in {"memory", "pds4", "isis", "zarr", "openexr"},
         NEW b, NEW m, NEW start, NEW t
  PROVE  SourceTile(be, b, m, start, t) \in Contents
<1>1. \A run : ContentOf(run) \in Contents
  BY ContentTypes DEF Contents
<1>2. Refused \in Contents /\ Blank \in Contents /\ Payloads \subseteq Contents
  BY DEF Contents
<1>3. BlockTile(b, m, start, t) \in Contents
  BY <1>1, <1>2 DEF BlockTile
<1>4. \A run : Decompressed(m, run) \in Contents
  <2> SUFFICES ASSUME NEW run PROVE Decompressed(m, run) \in Contents
    OBVIOUS
  <2>1. CASE m.compression = "None"
    BY <1>1, <1>2, <2>1 DEF Decompressed
  <2>2. CASE m.compression # "None"
    <3>1. CASE \E p \in Payloads : run = Compressed(m, p)
      <4>1. (CHOOSE p \in Payloads : run = Compressed(m, p)) \in Payloads
        BY <3>1
      <4> QED BY <1>2, <2>2, <3>1, <4>1 DEF Decompressed
    <3>2. CASE ~\E p \in Payloads : run = Compressed(m, p)
      BY <1>2, <2>2, <3>2 DEF Decompressed
    <3> QED BY <3>1, <3>2
  <2> QED BY <2>1, <2>2
<1>5. ZarrTile(b, m, start, t) \in Contents
  BY <1>2, <1>4 DEF ZarrTile
<1>6. ExrTile(b, m, t) \in Contents
  BY <1>1, <1>2 DEF ExrTile
<1> QED BY <1>3, <1>5, <1>6 DEF SourceTile

LEMMA DropSinkStep ==
  ASSUME Inv, DropSink
  PROVE  Inv'
<1>1. /\ sink # NoSink /\ sink' = NoSink
      /\ UNCHANGED <<backend, models, form, bytes, wpos, acked, faults, reading>>
  BY DEF DropSink
<1>2. rpos = NoReader
  BY <1>1 DEF Inv, Reads
<1>3. Written'
  <2>1. Written /\ wpos' \in 0 .. Len(bytes)
    BY <1>1 DEF Inv, Written, Types
  <2> QED BY <1>1, <2>1, WrittenKept
<1>4. Reads'
  BY <1>1, <1>2, NoReaderKept DEF Inv
<1>5. SinkPlaced'
  BY <1>1 DEF SinkPlaced
<1> QED BY <1>3, <1>4, <1>5 DEF Inv, Written

LEMMA NewReaderStep ==
  ASSUME Inv, NewReader
  PROVE  Inv'
<1>1. /\ sink = NoSink /\ form # "none" /\ rpos' = 0 /\ source' = NoSource /\ got' = Unknown
      /\ UNCHANGED <<backend, models, writing>>
  BY DEF NewReader
<1>2. rpos' \in 0 .. Len(bytes) /\ got' \in Contents
  BY <1>1, RunFacts DEF Inv, Types, Contents
<1> QED BY <1>1, <1>2, ReaderKept

(* What a call that opens a document finds.                                *)
LEMMA Opening ==
  ASSUME Inv, CanOpen
  PROVE  /\ Types /\ Blocks /\ Whole /\ sink = NoSink /\ form # "none"
         /\ rpos \in 0 .. Len(bytes) /\ got \in Contents /\ source = NoSource
BY DEF Inv, CanOpen, Reads

LEMMA DeserializeModelStep ==
  ASSUME Inv, DeserializeModel
  PROVE  Inv'
<1>1. /\ CanOpen /\ rpos' = Document(backend, bytes, rpos).cursor
      /\ UNCHANGED <<backend, models, writing, source, got>>
  BY DEF DeserializeModel
<1>2. /\ Types /\ Blocks /\ Whole /\ sink = NoSink /\ form # "none"
      /\ rpos \in 0 .. Len(bytes) /\ got' \in Contents /\ source' = NoSource
  BY <1>1, Opening
<1>3. rpos' \in 0 .. Len(bytes)
  BY <1>1, <1>2, DocIs
<1> QED BY <1>1, <1>2, <1>3, ReaderKept

LEMMA OpenSourceStep ==
  ASSUME Inv, OpenSource
  PROVE  Inv'
<1> DEFINE doc == Document(backend, bytes, rpos)
<1>1. /\ CanOpen /\ rpos' = doc.cursor
      /\ source' = NoSource \/ (doc.ok /\ source' = [image |-> <<doc.images[1]>>, start |-> doc.start])
      /\ UNCHANGED <<backend, models, writing, got>>
  BY DEF OpenSource
<1>2. /\ Types /\ Blocks /\ Whole /\ sink = NoSink /\ form # "none"
      /\ rpos \in 0 .. Len(bytes) /\ got' \in Contents
  BY <1>1, Opening
<1>3. doc.cursor \in 0 .. Len(bytes) /\ (doc.ok => form = "object" /\ doc = FreshDoc)
  BY <1>2, DocIs
<1> HIDE DEF doc
<1>4. source' # NoSource =>
        /\ FreshDoc.ok
        /\ \E i \in DOMAIN models :
             Stored(i) /\ source' = [image |-> <<FreshDoc.images[i]>>, start |-> FreshStart(i)]
  <2> SUFFICES ASSUME source' # NoSource
               PROVE  /\ FreshDoc.ok
                      /\ \E i \in DOMAIN models :
                           Stored(i) /\ source' = [image |-> <<FreshDoc.images[i]>>, start |-> FreshStart(i)]
    OBVIOUS
  <2>1. doc.ok /\ form = "object" /\ doc = FreshDoc
    BY <1>1, <1>3
  <2>2. Stored(1) /\ 1 \in DOMAIN models /\ FreshStart(1) = FreshDoc.start
    BY <1>2, <2>1, ModelsFacts DEF Types, Stored, FreshStart
  <2>3. source' = [image |-> <<FreshDoc.images[1]>>, start |-> FreshStart(1)]
    BY <1>1, <2>1, <2>2
  <2> QED BY <2>1, <2>2, <2>3
<1>5. rpos' \in 0 .. Len(bytes)
  BY <1>1, <1>3
<1> QED BY <1>1, <1>2, <1>4, <1>5, ReaderKept

LEMMA OpenSourceAtStep ==
  ASSUME Inv, NEW i, OpenSourceAt(i)
  PROVE  Inv'
<1> DEFINE doc == ReadJson(bytes, rpos, "array")
<1>1. /\ CanOpen /\ rpos' = doc.cursor /\ backend = "memory"
      /\ source' = NoSource \/ (doc.ok /\ i \in DOMAIN doc.images
                                /\ source' = [image |-> <<doc.images[i]>>, start |-> ListStart(doc, i)])
      /\ UNCHANGED <<backend, models, writing, got>>
  BY DEF OpenSourceAt
<1>2. /\ Types /\ Blocks /\ Whole /\ sink = NoSink /\ form # "none"
      /\ rpos \in 0 .. Len(bytes) /\ got' \in Contents
  BY <1>1, Opening
<1>3. doc.cursor \in 0 .. Len(bytes)
      /\ (doc.ok => form = "array" /\ doc = FreshDoc /\ doc.images = models)
  BY <1>1, <1>2, ListDoc
<1> HIDE DEF doc
<1>4. source' # NoSource =>
        /\ FreshDoc.ok
        /\ \E j \in DOMAIN models :
             Stored(j) /\ source' = [image |-> <<FreshDoc.images[j]>>, start |-> FreshStart(j)]
  <2> SUFFICES ASSUME source' # NoSource
               PROVE  /\ FreshDoc.ok
                      /\ \E j \in DOMAIN models :
                           Stored(j) /\ source' = [image |-> <<FreshDoc.images[j]>>, start |-> FreshStart(j)]
    OBVIOUS
  <2>1. doc.ok /\ form = "array" /\ doc = FreshDoc /\ i \in DOMAIN models
    BY <1>1, <1>3
  <2>2. Stored(i) /\ FreshStart(i) = ListStart(FreshDoc, i)
    BY <2>1 DEF Stored, FreshStart
  <2>3. source' = [image |-> <<FreshDoc.images[i]>>, start |-> FreshStart(i)]
    BY <1>1, <2>1, <2>2
  <2> QED BY <2>1, <2>2, <2>3
<1>5. rpos' \in 0 .. Len(bytes)
  BY <1>1, <1>3
<1> QED BY <1>1, <1>2, <1>4, <1>5, ReaderKept

(* What an open source holds.                                              *)
LEMMA SourceHolds ==
  ASSUME Inv, source # NoSource
  PROVE  /\ Len(source.image) = 1 /\ source.start \in Nat
         /\ backend # "openexr" => source.image[1] \in Model
         /\ Types /\ sink = NoSink /\ form # "none" /\ rpos \in 0 .. Len(bytes)
         /\ FreshDoc.ok
         /\ \E i \in DOMAIN models :
              Stored(i) /\ source = [image |-> <<FreshDoc.images[i]>>, start |-> FreshStart(i)]
<1>1. /\ Types /\ Blocks /\ Whole /\ sink = NoSink /\ form # "none" /\ rpos \in 0 .. Len(bytes)
      /\ FreshDoc.ok
      /\ \E i \in DOMAIN models :
           Stored(i) /\ source = [image |-> <<FreshDoc.images[i]>>, start |-> FreshStart(i)]
  BY DEF Inv, Reads
<1>2. PICK i \in DOMAIN models :
        Stored(i) /\ source = [image |-> <<FreshDoc.images[i]>>, start |-> FreshStart(i)]
  BY <1>1
<1> DEFINE x == FreshDoc.images[i]
           y == FreshStart(i)
<1>3. source = [image |-> <<x>>, start |-> y]
  BY <1>2
<1>4. y \in Nat /\ (backend # "openexr" => x \in Model)
  <2>1. CASE backend = "openexr"
    <3>1. FreshDoc = ReadExr(bytes) /\ form = "object"
      BY <1>1, <2>1, BackendFacts DEF Types, FreshDoc, Document
    <3>2. bytes # <<>>
      <4>1. bytes = <<>> => FreshDoc = NotOpened(0)
        BY <3>1 DEF ReadExr
      <4>2. ~NotOpened(0).ok
        BY OpenedIs DEF NotOpened
      <4> QED BY <1>1, <4>1, <4>2
    <3>3. FreshDoc.start = 1
      BY <1>1, <2>1, <3>2, ExrOpens
    <3> QED BY <2>1, <3>1, <3>3 DEF FreshStart
  <2>2. CASE backend # "openexr"
    <3>1. x = models[i] /\ y \in Nat
      BY <1>1, <1>2, <2>2, FreshPlace
    <3>2. models[i] \in Model
      BY <1>1, <1>2, <2>2, Starts
    <3> QED BY <3>1, <3>2
  <2> QED BY <2>1, <2>2
<1> HIDE DEF x, y
<1>5. source.image = <<x>> /\ source.start = y
  BY <1>3
<1>6. Len(<<x>>) = 1 /\ <<x>>[1] = x
  BY OneCell
<1> QED BY <1>1, <1>4, <1>5, <1>6

LEMMA ReadTileStep ==
  ASSUME Inv, NEW t, ReadTile(t)
  PROVE  Inv'
<1> DEFINE m == source.image[1]
           at == TileOffset(m, source.start, t)
<1>1. /\ source # NoSource
      /\ got' = SourceTile(backend, bytes, m, source.start, t)
      /\ rpos' = IF got' = Refused \/ backend \notin Tier THEN rpos ELSE at + TileBytes(m)
      /\ UNCHANGED <<backend, models, writing, source>>
  BY DEF ReadTile
<1>2. /\ source.start \in Nat /\ (backend # "openexr" => m \in Model)
      /\ Types /\ sink = NoSink /\ form # "none" /\ rpos \in 0 .. Len(bytes)
      /\ FreshDoc.ok
      /\ \E i \in DOMAIN models :
           Stored(i) /\ source = [image |-> <<FreshDoc.images[i]>>, start |-> FreshStart(i)]
  BY <1>1, SourceHolds
<1>3. got' \in Contents
  BY <1>1, <1>2, TileContents, BackendFacts
<1>4. rpos' \in 0 .. Len(bytes)
  <2>1. CASE got' = Refused \/ backend \notin Tier
    BY <1>1, <1>2, <2>1
  <2>2. CASE ~(got' = Refused \/ backend \notin Tier)
    <3>1. got' = BlockTile(bytes, m, source.start, t) /\ backend # "openexr"
      BY <1>1, <2>2 DEF SourceTile, Tier
    <3>2. t \in Tiles(m) /\ ~(at + TileBytes(m) > Len(bytes))
      BY <2>2, <3>1 DEF BlockTile
    <3>3. TileBytes(m) \in Nat /\ t \in Nat
      BY <1>2, <3>1, <3>2, ModelTypes
    <3>4. t * TileBytes(m) \in Nat
      BY <3>3, TimesNat
    <3>5. at = source.start + t * TileBytes(m)
      BY DEF TileOffset
    <3>6. at \in Nat
      BY <1>2, <3>4, <3>5
    <3>7. Len(bytes) \in Nat
      BY <1>2, RunFacts DEF Types
    <3> HIDE DEF at
    <3>8. rpos' = at + TileBytes(m)
      BY <1>1, <2>2 DEF at
    <3> QED BY <3>2, <3>3, <3>6, <3>7, <3>8
  <2> QED BY <2>1, <2>2
<1>5. source' = source
  BY <1>1
<1> QED BY <1>1, <1>2, <1>3, <1>4, <1>5, ReaderKept

LEMMA DropSourceStep ==
  ASSUME Inv, DropSource
  PROVE  Inv'
<1>1. /\ source # NoSource /\ source' = NoSource
      /\ UNCHANGED <<backend, models, writing, rpos, got>>
  BY DEF DropSource
<1>2. sink = NoSink /\ form # "none" /\ rpos' \in 0 .. Len(bytes) /\ got' \in Contents
  BY <1>1 DEF Inv, Reads
<1> QED BY <1>1, <1>2, ReaderKept

------------------------------------------------------------------------------
(* The invariant holds, and what follows.                                  *)

LEMMA StutterStep ==
  ASSUME Inv, UNCHANGED vars
  PROVE  Inv'
<1>1. UNCHANGED <<backend, models, form, bytes, wpos, sink, acked, faults, rpos, source, got>>
  BY DEF vars, writing, reading
<1>2. Written'
  <2>1. Written /\ wpos' \in 0 .. Len(bytes)
    BY <1>1 DEF Inv, Written, Types
  <2> QED BY <1>1, <2>1, WrittenKept
<1>3. CASE rpos = NoReader
  <2>1. Reads'
    BY <1>1, <1>3, NoReaderKept DEF Inv, reading
  <2>2. SinkPlaced'
    <3>1. HeadOf' = HeadOf
      BY <1>1 DEF HeadOf
    <3>2. StartOf(sink.image)' = StartOf(sink.image) /\ (Stored(sink.image)' <=> Stored(sink.image))
      BY <1>1, <3>1 DEF StartOf, Stored
    <3> QED BY <1>1, <3>2 DEF Inv, SinkPlaced
  <2> QED BY <1>2, <2>1, <2>2 DEF Inv, Written
<1>4. CASE rpos # NoReader
  <2>1. /\ sink = NoSink /\ form # "none" /\ rpos' \in 0 .. Len(bytes) /\ got' \in Contents
        /\ UNCHANGED <<backend, models, writing>> /\ source' = source
    BY <1>1, <1>4 DEF Inv, Reads, writing
  <2>2. source' # NoSource =>
          /\ FreshDoc.ok
          /\ \E i \in DOMAIN models :
               Stored(i) /\ source' = [image |-> <<FreshDoc.images[i]>>, start |-> FreshStart(i)]
    BY <2>1 DEF Inv, Reads
  <2> QED BY <2>1, <2>2, ReaderKept
<1> QED BY <1>3, <1>4

LEMMA InvInit ==
  ASSUME Init
  PROVE  Inv
<1> USE DEF Init
<1>1. Types
  <2>1. IsRun(bytes) /\ wpos \in 0 .. Len(bytes)
    BY DEF IsRun
  <2>2. \A i \in DOMAIN models : acked[i] = [t \in Tiles(models[i]) |-> Unknown]
    OBVIOUS
  <2>3. \A i \in DOMAIN models : acked[i] \in [Tiles(models[i]) -> PayloadsOf[backend] \union {Unknown}]
    BY <2>2
  <2>4. faults \in 0 .. MaxFaults
    BY DocumentsAssumption
  <2> QED BY <2>1, <2>3, <2>4 DEF Types
<1>2. AckedOpen
  BY DEF AckedOpen, Acked
<1>3. Blocks /\ Whole /\ SinkPlaced
  BY DEF Blocks, Whole, SinkPlaced
<1>4. Reads
  BY DEF Reads, Contents
<1> QED BY <1>1, <1>2, <1>3, <1>4 DEF Inv

LEMMA InvNext ==
  ASSUME Inv, CarefulCallers, [Next]_vars
  PROVE  Inv'
<1>1. CASE SerializeModel
  BY <1>1, SerializeModelStep
<1>2. CASE SerializeModelList
  BY <1>2, SerializeModelListStep
<1>3. CASE OpenSink
  BY <1>3, OpenSinkStep
<1>4. CASE DropSink
  BY <1>4, DropSinkStep
<1>5. ASSUME NEW i \in DOMAIN models, OpenSinkAt(i) \/ OpenSourceAt(i)
      PROVE  Inv'
  BY <1>5, OpenSinkAtStep, OpenSourceAtStep
<1>6. ASSUME NEW t, NEW p, WriteTile(t, p) \/ WriteTileFails(t, p)
      PROVE  Inv'
  BY <1>6, WriteTileStep, WriteTileFailsStep
<1>7. ASSUME NEW t, ReadTile(t)
      PROVE  Inv'
  BY <1>7, ReadTileStep
<1>8. CASE NewReader
  BY <1>8, NewReaderStep
<1>9. CASE DeserializeModel
  BY <1>9, DeserializeModelStep
<1>10. CASE OpenSource
  BY <1>10, OpenSourceStep
<1>11. CASE DropSource
  BY <1>11, DropSourceStep
<1>12. CASE UNCHANGED vars
  BY <1>12, StutterStep
<1> QED BY <1>1, <1>2, <1>3, <1>4, <1>5, <1>6, <1>7, <1>8, <1>9, <1>10, <1>11, <1>12 DEF Next

LEMMA Invariance ==
  ASSUME CarefulCallers
  PROVE  Spec => []Inv
<1>1. Init => Inv
  BY InvInit
<1>2. Inv /\ [Next]_vars => Inv'
  BY CarefulCallers, InvNext
<1> QED BY <1>1, <1>2, PTL DEF Spec

LEMMA InvTypeOK ==
  ASSUME Inv
  PROVE  TypeOK
<1>1. Types /\ Reads /\ Len(bytes) \in Nat
  BY RunFacts DEF Inv, Types
<1>2. \/ sink = Unwound
      \/ sink.image \in {0} \union DOMAIN models /\ sink.start \in 0 .. Len(bytes)
  <2>1. CASE sink = NoSink
    BY <1>1, <2>1 DEF NoSink
  <2>2. CASE sink \notin {NoSink, Unwound}
    <3> DEFINE i == sink.image
    <3>1. /\ form # "none" /\ Stored(i) /\ sink.start <= Len(bytes)
          /\ sink = [image |-> i, start |-> IF backend = "openexr" THEN 0 ELSE StartOf(i)]
      BY <2>2 DEF Inv, SinkPlaced
    <3>2. i \in DOMAIN models
      BY <3>1 DEF Stored
    <3>3. sink.start \in Nat
      <4>1. CASE backend = "openexr"
        BY <3>1, <4>1
      <4>2. CASE backend # "openexr"
        BY <1>1, <3>1, <4>2, Starts
      <4> QED BY <4>1, <4>2
    <3> QED BY <1>1, <3>1, <3>2, <3>3
  <2> QED BY <2>1, <2>2
<1>3. Len(source.image) <= 1 /\ source.start \in Nat
  <2>1. CASE source = NoSource
    <3>1. source.image = <<>> /\ source.start = 0
      BY <2>1 DEF NoSource
    <3>2. Len(source.image) = 0
      BY <3>1
    <3> QED BY <3>1, <3>2
  <2>2. CASE source # NoSource
    <3>1. Len(source.image) = 1 /\ source.start \in Nat
      BY <2>2, SourceHolds
    <3> QED BY <3>1
  <2> QED BY <2>1, <2>2
<1> QED BY <1>1, <1>2, <1>3 DEF TypeOK, Types, Reads

(* Every variable stays in its range: neither a writer's nor a reader's    *)
(* cursor leaves the extent, whatever is written, cut short, opened or     *)
(* read in whatever order, in one Zarr or OpenEXR document per writer.     *)
THEOREM RasterTypes ==
  ASSUME CarefulCallers
  PROVE  Spec => []TypeOK
<1>1. Inv => TypeOK
  BY InvTypeOK
<1>2. Spec => []Inv
  BY CarefulCallers, Invariance
<1> QED BY <1>1, <1>2, PTL

(* A source that opens on a used reader reads what a source on a new       *)
(* reader reads, for every backend, document and cursor, where a writer    *)
(* holds one Zarr or OpenEXR document.                                     *)
THEOREM Aligned ==
  ASSUME CarefulCallers
  PROVE  Spec => []SourceAligned
<1>1. Inv => SourceAligned
  BY InvSourceAligned
<1>2. Spec => []Inv
  BY CarefulCallers, Invariance
<1> QED BY <1>1, <1>2, PTL

(* A tile whose write_tile returned Ok reads back as exactly what was      *)
(* written, if its caller opens a Zarr sink, or writes an OpenEXR tile,    *)
(* only while the writer is empty: on any other writer the code puts a     *)
(* second document, and acknowledged tiles are lost. For ISIS this needs   *)
(* pixels that are text without an End line: other pixels may hide the end *)
(* of the label or pass for it.                                            *)
THEOREM WrittenReadsBack ==
  ASSUME CarefulCallers, PlainIsis
  PROVE  Spec => []RoundTrip
<1>1. Inv => RoundTrip
  BY PlainIsis, InvRoundTrip
<1>2. Spec => []Inv
  BY CarefulCallers, Invariance
<1> QED BY <1>1, <1>2, PTL

(* As long as no write failed, a tile that was never written is refused,   *)
(* or reads as the zeros of OpenEXR's header call, for headers and chunks  *)
(* of any lengths, if a Zarr sink is only opened on an empty writer: on    *)
(* one that holds the header, it puts the header once more, where the      *)
(* first slot is.                                                          *)
THEOREM UnwrittenRefused ==
  ASSUME CarefulCallers, PlainIsis
  PROVE  Spec => []NothingInvented
<1>1. Inv => NothingInvented
  BY PlainIsis, InvNothingInvented
<1>2. Spec => []Inv
  BY CarefulCallers, Invariance
<1> QED BY <1>1, <1>2, PTL
=============================================================================
