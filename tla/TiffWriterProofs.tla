-------------------------- MODULE TiffWriterProofs --------------------------
(***************************************************************************)
(* Proofs about TiffWriter, for every container, list of images, set of    *)
(* payloads and encoder.                                                   *)
(***************************************************************************)
EXTENDS TiffWriter, TLAPS

------------------------------------------------------------------------------
(* Facts about one image's layout.                                         *)

LEMMA MultMonotone ==
  \A a, b, c \in Nat : a <= b => a * c <= b * c
<1> SUFFICES ASSUME NEW a \in Nat, NEW b \in Nat, NEW c \in Nat, a <= b
             PROVE  a * c <= b * c
  OBVIOUS
<1>1. PICK d \in Nat : b = a + d
  <2>1. b - a \in Nat /\ b = a + (b - a)
    OBVIOUS
  <2> QED BY <2>1
<1>2. b * c = a * c + d * c
  BY <1>1
<1>3. d * c \in Nat /\ a * c \in Nat
  OBVIOUS
<1> QED BY <1>2, <1>3

(* The tiles of an uncompressed image lie one after the other in its span. *)
LEMMA TilePlaces ==
  ASSUME NEW m \in Image, NEW t \in Tiles(m)
  PROVE  /\ t * m.raw \in Nat /\ Span(m) \in Nat
         /\ t * m.raw + m.raw <= Span(m)
         /\ \A u \in Tiles(m) : u < t => u * m.raw + m.raw <= t * m.raw
<1>1. m.raw \in Nat /\ m.tiles \in Nat /\ t \in Nat
  BY DEF Image, Tiles
<1>2. (t + 1) * m.raw <= m.tiles * m.raw
  BY <1>1, MultMonotone DEF Tiles
<1>3. ASSUME NEW u \in Tiles(m), u < t
      PROVE  (u + 1) * m.raw <= t * m.raw
  BY <1>1, <1>3, MultMonotone DEF Tiles
<1>4. \A n \in Nat : (n + 1) * m.raw = n * m.raw + m.raw /\ n * m.raw \in Nat
  BY <1>1
<1> QED BY <1>1, <1>2, <1>3, <1>4 DEF Span, Tiles

LEMMA IfdSizes ==
  ASSUME NEW m \in Image
  PROVE  /\ IfdSize(m) \in Nat /\ NextRel \in Nat /\ NextRel < IfdSize(m)
         /\ \A which \in {"offset", "count"} : SlotBase(m, which) \in Nat
         /\ \A t \in Tiles(m) :
              /\ SlotBase(m, "offset") + t < SlotBase(m, "count")
              /\ SlotBase(m, "count") + t < IfdSize(m)
              /\ NextRel # SlotBase(m, "offset") + t
              /\ NextRel # SlotBase(m, "count") + t
<1>1. m.samples \in Nat /\ m.tiles \in Nat \ {0}
  BY DEF Image
<1>2. Spill(m.samples) \in Nat /\ Spill(m.tiles) \in Nat
  BY <1>1 DEF Spill
<1>3. CASE m.tiles = 1
  BY <1>1, <1>2, <1>3, ContainerAssumption
  DEF IfdSize, FixedSize, NextRel, SlotBase, Tiles
<1>4. CASE m.tiles # 1
  BY <1>1, <1>2, <1>4, ContainerAssumption
  DEF IfdSize, FixedSize, NextRel, SlotBase, Tiles, Spill
<1> QED BY <1>3, <1>4
------------------------------------------------------------------------------
(* Type correctness. The planner's progress is part of the invariant: it   *)
(* makes every address that is used one that was planned.                  *)

Progress ==
  /\ phase = "ifds" => Len(ifdAt) < Count /\ Len(dataAt) = 0 /\ written = 0
  /\ phase = "data" => Len(ifdAt) = Count /\ Len(dataAt) < Count /\ written = 0
  /\ phase = "chain" => Len(ifdAt) = Count /\ Len(dataAt) = Count /\ written < Count
  /\ phase = "pixels" => Len(ifdAt) = Count /\ Len(dataAt) = Count /\ written = Count
  /\ sink # Closed => sink.image \in 1 .. Count /\ phase = "pixels"

TypeInv == TypeOK /\ Progress

LEMMA ImageTypes ==
  ASSUME TypeOK
  PROVE  /\ Count \in Nat \ {0}
         /\ \A i \in 1 .. Count :
              /\ images[i] \in Image
              /\ images[i].tiles \in Nat \ {0} /\ images[i].raw \in Nat \ {0}
              /\ images[i].tiled \in BOOLEAN /\ images[i].compressed \in BOOLEAN
              /\ ~images[i].tiled => images[i].tiles = 1
<1>1. images \in Seq(Image) /\ images # << >>
  BY CallerAssumption DEF TypeOK
<1>2. Count \in Nat \ {0}
  BY <1>1 DEF Count
<1>3. \A i \in 1 .. Count : images[i] \in Image
  BY <1>1 DEF Count
<1>4. \A m \in Image : /\ m.tiles \in Nat \ {0} /\ m.raw \in Nat \ {0}
                       /\ m.tiled \in BOOLEAN /\ m.compressed \in BOOLEAN
  BY DEF Image
<1>5. \A i \in 1 .. Count : ~images[i].tiled => images[i].tiles = 1
  BY CallerAssumption DEF TypeOK, Count
<1> QED BY <1>2, <1>3, <1>4, <1>5

(* Writing a block of words within reach of the buffer, and patching one.  *)
SameOutside(new, old, at, n) ==
  \A a \in 0 .. size - 1 : (a < at \/ a >= at + n) => new[a] = old[a]
Filled(new, at, block, n) == \A k \in 0 .. n - 1 : new[at + k] = block[k]

LEMMA PutTypes ==
  ASSUME TypeOK, NEW at \in 0 .. size, NEW n \in Nat,
         NEW block, \A k \in 0 .. n - 1 : block[k] \in Word,
         NEW b \in [0 .. size - 1 -> Word]
  PROVE  /\ Extent(at, n) \in Nat /\ Extent(at, n) >= size /\ Extent(at, n) >= at + n
         /\ PutIn(b, at, block, n) \in [0 .. Extent(at, n) - 1 -> Word]
         /\ SameOutside(PutIn(b, at, block, n), b, at, n)
         /\ Filled(PutIn(b, at, block, n), at, block, n)
<1>1. size \in Nat /\ at \in Nat /\ at <= size
  BY DEF TypeOK
<1>2. /\ Extent(at, n) \in Nat /\ Extent(at, n) >= size /\ Extent(at, n) >= at + n
      /\ (Extent(at, n) = size \/ Extent(at, n) = at + n)
  BY <1>1 DEF Extent
<1>3. ASSUME NEW a \in 0 .. Extent(at, n) - 1
      PROVE  (IF at <= a /\ a < at + n THEN block[a - at] ELSE b[a]) \in Word
  <2>1. CASE at <= a /\ a < at + n
    <3>1. a - at \in 0 .. n - 1
      BY <1>1, <1>2, <2>1
    <3> QED BY <2>1, <3>1
  <2>2. CASE ~(at <= a /\ a < at + n)
    <3>1. a \in 0 .. size - 1
      BY <1>1, <1>2, <2>2
    <3> QED BY <2>2, <3>1
  <2> QED BY <2>1, <2>2
<1>4. ASSUME NEW k \in 0 .. n - 1
      PROVE  PutIn(b, at, block, n)[at + k] = block[k]
  <2>1. at + k \in 0 .. Extent(at, n) - 1 /\ at <= at + k /\ at + k < at + n
        /\ (at + k) - at = k
    BY <1>1, <1>2
  <2> QED BY <2>1 DEF PutIn
<1>5. ASSUME NEW a \in 0 .. size - 1, a < at \/ a >= at + n
      PROVE  PutIn(b, at, block, n)[a] = b[a]
  <2>1. a \in 0 .. Extent(at, n) - 1 /\ ~(at <= a /\ a < at + n)
    BY <1>1, <1>2, <1>5
  <2> QED BY <2>1 DEF PutIn
<1> QED BY <1>2, <1>3, <1>4, <1>5 DEF PutIn, SameOutside, Filled

LEMMA WordTypes ==
  /\ \A v \in Nat : Num(v) \in Word
  /\ \A kind \in {"raw", "enc"}, p \in Payloads, n \in Nat :
       \A k \in 0 .. n - 1 : Block(kind, p, n)[k] = <<kind, p, k>>
                             /\ Block(kind, p, n)[k] \in Word
BY DEF Num, Word, Block

LEMMA PatchTypes ==
  ASSUME NEW n \in Nat, NEW b \in [0 .. n - 1 -> Word], NEW a, NEW v \in Nat
  PROVE  /\ Patch(b, a, v) \in [0 .. n - 1 -> Word]
         /\ \A c \in 0 .. n - 1 : c # a => Patch(b, a, v)[c] = b[c]
         /\ a \in 0 .. n - 1 => Patch(b, a, v)[a] = Num(v)
BY WordTypes DEF Patch

LEMMA PromiseTypes ==
  ASSUME TypeOK, sink.image \in 1 .. Count, images' = images,
         NEW t, NEW p \in Payloads \union {Unknown}, Promise(t, p)
  PROVE  /\ DOMAIN acked' = 1 .. Count'
         /\ \A i \in 1 .. Count' : acked'[i] \in [Tiles(images'[i]) -> Payloads \union {Unknown}]
<1>1. Count' = Count
  BY DEF Count
<1>2. \A i \in 1 .. Count : acked[i] \in [Tiles(images[i]) -> Payloads \union {Unknown}]
  BY DEF TypeOK
<1>3. DOMAIN acked = 1 .. Count
  BY DEF TypeOK
<1>4. acked' = [acked EXCEPT ![sink.image] =
                  [u \in DOMAIN acked[sink.image] |->
                     IF u = t THEN p
                     ELSE IF u > t /\ Packed(images[sink.image]) THEN Unknown
                     ELSE acked[sink.image][u]]]
  BY DEF Promise
<1>5. DOMAIN acked[sink.image] = Tiles(images[sink.image])
  BY <1>2
<1>6. acked'[sink.image] \in [Tiles(images[sink.image]) -> Payloads \union {Unknown}]
  BY <1>2, <1>3, <1>4, <1>5
<1>7. \A i \in 1 .. Count : i # sink.image => acked'[i] = acked[i]
  BY <1>3, <1>4
<1> QED BY <1>1, <1>2, <1>3, <1>4, <1>6, <1>7
(* A word of an IFD, for an IFD whose plan is complete. *)
LEMMA WordIfd ==
  ASSUME TypeOK, Len(ifdAt) = Count, Len(dataAt) = Count,
         NEW i \in 1 .. Count, NEW r \in Nat
  PROVE  IfdWord(i, r) \in Word
<1> DEFINE m == images[i]
<1>1. m \in Image /\ m.raw \in Nat /\ Count \in Nat \ {0}
  BY ImageTypes
<1>5. dataAt[i] \in Nat
  BY SMTT(30), <1>1 DEF TypeOK
<1>2. i < Count => ifdAt[i + 1] \in Nat
  BY SMTT(30), <1>1 DEF TypeOK
<1>3. \A k \in Tiles(m) : k \in Nat /\ dataAt[i] + k * m.raw \in Nat
  <2> SUFFICES ASSUME NEW k \in Tiles(m) PROVE k \in Nat /\ dataAt[i] + k * m.raw \in Nat
    OBVIOUS
  <2>1. k \in Nat /\ k * m.raw \in Nat
    BY <1>1, TilePlaces DEF Tiles
  <2> QED BY <1>5, <2>1
<1>4. <<"ifd", i, r>> \in Word
  BY DEF Word
<1> HIDE DEF m
<1> QED BY <1>1, <1>2, <1>3, <1>4, <1>5, WordTypes DEF IfdWord, m

LEMMA TypeInvInit == Init => TypeInv
<1> SUFFICES ASSUME Init PROVE TypeInv
  OBVIOUS
<1>1. images \in Seq(Image) /\ images # << >>
  BY CallerAssumption DEF Init
<1>2. Count \in Nat \ {0}
  BY <1>1 DEF Count
<1>3. viaList \in BOOLEAN /\ phase = "ifds" /\ sink = Closed /\ written = 0
  BY DEF Init
<1>4. sink \in [image: 0 .. Count, next: Nat, at: Nat]
  BY <1>2, <1>3 DEF Closed
<1>5. buf \in [0 .. size - 1 -> Word]
  BY DEF Init
<1>6. \A i \in 1 .. Count : acked[i] \in [Tiles(images[i]) -> Payloads \union {Unknown}]
  BY DEF Init, Count
<1> QED
  BY <1>2, <1>3, <1>4, <1>5, <1>6, ContainerAssumption DEF Init, TypeInv, TypeOK, Progress, Count

(* What every action but those of the planner leaves alone. *)
LEMMA SamePlan ==
  ASSUME TypeInv, UNCHANGED plan
  PROVE  /\ images' = images /\ images' \in Files /\ Count' = Count
         /\ viaList' \in BOOLEAN
         /\ ifdAt' = ifdAt /\ dataAt' = dataAt
         /\ ifdAt' \in Seq(Nat) /\ dataAt' \in Seq(Nat)
         /\ cursor' \in Nat /\ written' = written /\ written' \in 0 .. Count'
BY DEF plan, TypeInv, TypeOK, Count

(* A tile write of the open sink preserves types, given what it does to    *)
(* the buffer and to the sink.                                             *)
LEMMA TileWriteTypes ==
  ASSUME TypeInv, sink # Closed, UNCHANGED <<plan, phase>>,
         size' \in Nat, buf' \in [0 .. size' - 1 -> Word],
         sink'.image = sink.image, sink' \in [image: 0 .. Count, next: Nat, at: Nat],
         NEW t, NEW p \in Payloads \union {Unknown}, Promise(t, p),
         faults' \in 0 .. MaxFaults
  PROVE  TypeInv'
<1>1. sink.image \in 1 .. Count /\ phase = "pixels"
  BY DEF TypeInv, Progress
<1>2. UNCHANGED plan /\ phase' = phase
  OBVIOUS
<1>3. images' = images /\ Count' = Count
  BY <1>2, SamePlan
<1>4. /\ DOMAIN acked' = 1 .. Count'
      /\ \A i \in 1 .. Count' : acked'[i] \in [Tiles(images'[i]) -> Payloads \union {Unknown}]
  BY <1>1, <1>3, PromiseTypes DEF TypeInv
<1>5. TypeOK'
  BY <1>1, <1>2, <1>3, <1>4, SamePlan DEF TypeOK
<1>6. Progress'
  BY <1>1, <1>2, <1>3, SamePlan DEF Progress, TypeInv
<1> QED BY <1>5, <1>6 DEF TypeInv

LEMMA TypeInvNext == TypeInv /\ [Next]_vars => TypeInv'
<1> SUFFICES ASSUME TypeInv, [Next]_vars PROVE TypeInv'
  OBVIOUS
<1> USE DEF TypeInv
<1>1. CASE PlanIfd
  <2>1. Len(ifdAt) < Count /\ Len(dataAt) = 0 /\ written = 0 /\ sink = Closed
    BY <1>1 DEF PlanIfd, Progress
  <2>2. Len(ifdAt) + 1 \in 1 .. Count
    BY <2>1, ImageTypes DEF TypeOK
  <2>3. IfdSize(images[Len(ifdAt) + 1]) \in Nat
    BY <2>2, ImageTypes, IfdSizes
  <2>4. UNCHANGED <<images, viaList, dataAt, written, buf, size, sink, acked, faults>>
    BY <1>1 DEF PlanIfd
  <2>5. CASE phase' = "rejected" /\ UNCHANGED <<ifdAt, cursor>>
    BY <2>1, <2>4, <2>5 DEF TypeOK, Progress, Count, Closed
  <2>6. CASE /\ ifdAt' = Append(ifdAt, cursor)
             /\ cursor' = cursor + IfdSize(images[Len(ifdAt) + 1])
             /\ phase' = IF Len(ifdAt) + 1 = Count THEN "data" ELSE "ifds"
    <3>1. /\ ifdAt' \in Seq(Nat) /\ Len(ifdAt') = Len(ifdAt) + 1
          /\ cursor' \in Nat
      BY <2>3, <2>6 DEF TypeOK
    <3>2. Count' = Count /\ Count \in Nat \ {0}
      BY <2>4, ImageTypes DEF Count
    <3>3. TypeOK'
      BY <2>4, <2>6, <3>1, <3>2 DEF TypeOK
    <3>4. Progress'
      BY <2>1, <2>2, <2>4, <2>6, <3>1, <3>2 DEF Progress
    <3> QED BY <3>3, <3>4
  <2> QED BY <1>1, <2>5, <2>6 DEF PlanIfd
<1>2. CASE PlanData
  <2>1. /\ Len(ifdAt) = Count /\ Len(dataAt) < Count /\ written = 0 /\ sink = Closed
    BY <1>2 DEF PlanData, Progress
  <2>2. Len(dataAt) + 1 \in 1 .. Count
    BY <2>1, ImageTypes DEF TypeOK
  <2>3. Span(images[Len(dataAt) + 1]) \in Nat
    BY <2>2, ImageTypes DEF Span
  <2>4. UNCHANGED <<images, viaList, ifdAt, written, buf, size, sink, acked, faults>>
    BY <1>2 DEF PlanData
  <2>5. CASE phase' = "rejected" /\ UNCHANGED <<dataAt, cursor>>
    BY <2>1, <2>4, <2>5 DEF TypeOK, Progress, Count, Closed
  <2>6. CASE /\ dataAt' = Append(dataAt, cursor)
             /\ cursor' = cursor + Span(images[Len(dataAt) + 1])
             /\ phase' = IF Len(dataAt) + 1 = Count THEN "chain" ELSE "data"
    <3>1. /\ dataAt' \in Seq(Nat) /\ Len(dataAt') = Len(dataAt) + 1
          /\ cursor' \in Nat
      BY <2>3, <2>6 DEF TypeOK
    <3>2. Count' = Count /\ Count \in Nat \ {0}
      BY <2>4, ImageTypes DEF Count
    <3>3. TypeOK'
      BY <2>4, <2>6, <3>1, <3>2 DEF TypeOK
    <3>4. Progress'
      BY <2>1, <2>2, <2>4, <2>6, <3>1, <3>2 DEF Progress
    <3> QED BY <3>3, <3>4
  <2> QED BY <1>2, <2>5, <2>6 DEF PlanData
<1>3. CASE Serialize
  <2> DEFINE i == written + 1
             head == IF written = 0 THEN HeaderSize ELSE 0
             n == head + IfdSize(images[i])
             block == [k \in 0 .. n - 1 |->
                         IF k >= head THEN IfdWord(i, k - head)
                         ELSE IF k = HeaderSize - 1 THEN Num(ifdAt[1])
                         ELSE <<"header", 0, k>>]
  <2>1. /\ Len(ifdAt) = Count /\ Len(dataAt) = Count /\ written < Count
        /\ sink = Closed /\ Count \in Nat \ {0}
    BY <1>3, ImageTypes DEF Serialize, Progress
  <2>2. i \in 1 .. Count /\ images[i] \in Image
    BY SMTT(30), <2>1, ImageTypes DEF TypeOK
  <2>3. n \in Nat /\ head \in Nat
    BY <2>2, IfdSizes, ContainerAssumption
  <2>4. ASSUME NEW r \in Nat PROVE IfdWord(i, r) \in Word
    BY <2>1, <2>2, IfdSizes, ImageTypes, WordIfd
  <2>5. \A k \in 0 .. n - 1 : block[k] \in Word
    <3> SUFFICES ASSUME NEW k \in 0 .. n - 1 PROVE block[k] \in Word
      OBVIOUS
    <3>1. CASE k >= head
      BY <2>3, <2>4, <3>1
    <3>2. CASE k < head /\ k = HeaderSize - 1
      <4>1. ifdAt[1] \in Nat
        BY <2>1 DEF TypeOK
      <4> QED BY <2>3, <3>2, <4>1, WordTypes
    <3>3. CASE k < head /\ k # HeaderSize - 1
      BY <2>3, <3>3 DEF Word
    <3> QED BY <2>3, <3>1, <3>2, <3>3
  <2>6. buf' = PutIn(buf, size, block, n) /\ size' = size + n
    BY <1>3 DEF Serialize, Put
  <2>7. size \in 0 .. size /\ buf \in [0 .. size - 1 -> Word]
    BY DEF TypeOK
  <2>8. Extent(size, n) = size'
    BY <2>3, <2>6, ContainerAssumption DEF Extent, TypeOK
  <2>9. size' \in Nat /\ buf' \in [0 .. size' - 1 -> Word]
    <3> HIDE DEF n, block
    <3>1. n \in Nat
      BY <2>3
    <3>2. /\ Extent(size, n) \in Nat
          /\ PutIn(buf, size, block, n) \in [0 .. Extent(size, n) - 1 -> Word]
      BY <2>5, <2>7, <3>1, PutTypes
    <3> QED BY <2>6, <2>8, <3>2
  <2>10. /\ written' = written + 1
         /\ phase' = IF written + 1 = Count THEN "pixels" ELSE "chain"
         /\ UNCHANGED <<images, viaList, ifdAt, dataAt, cursor, sink, acked, faults>>
    BY <1>3 DEF Serialize
  <2>11. Count' = Count
    BY <2>10 DEF Count
  <2>12. TypeOK'
    <3>1. written' \in 0 .. Count'
      BY SMTT(30), <2>1, <2>10, <2>11 DEF TypeOK
    <3>2. phase' \in {"pixels", "chain"}
      BY <2>10
    <3> HIDE DEF i, n, head, block
    <3> QED BY <2>9, <2>10, <2>11, <3>1, <3>2 DEF TypeOK
  <2>13. Progress'
    BY <2>1, <2>2, <2>10, <2>11 DEF Progress
  <2> QED BY <2>12, <2>13
<1>4. ASSUME NEW i \in 1 .. Count, OpenSink(i) PROVE TypeInv'
  <2>1. UNCHANGED plan /\ phase' = phase /\ phase = "pixels"
    BY <1>4 DEF OpenSink
  <2>2. dataAt[i] \in Nat
    BY <2>1 DEF TypeOK, Progress
  <2>3. sink' = [image |-> i, next |-> 0, at |-> dataAt[i]]
        /\ UNCHANGED <<buf, size, acked, faults>>
    BY <1>4 DEF OpenSink
  <2>6. sink' \in [image: 0 .. Count', next: Nat, at: Nat]
    BY <2>1, <2>2, <2>3, SamePlan, ImageTypes
  <2>4. TypeOK'
    BY <2>1, <2>3, <2>6, SamePlan DEF TypeOK
  <2>5. Progress'
    BY <2>1, <2>3, SamePlan DEF Progress
  <2> QED BY <2>4, <2>5
<1>5. CASE DropSink
  <2>1. UNCHANGED plan /\ phase' = phase /\ sink' = Closed
        /\ UNCHANGED <<buf, size, acked, faults>>
    BY <1>5 DEF DropSink
  <2>4. sink' \in [image: 0 .. Count', next: Nat, at: Nat]
    BY <2>1, SamePlan, ImageTypes DEF Closed
  <2>2. TypeOK'
    BY <2>1, <2>4, SamePlan DEF TypeOK
  <2>3. Progress'
    BY <2>1, SamePlan DEF Progress
  <2> QED BY <2>2, <2>3
<1>6. ASSUME NEW p \in Payloads, NEW i \in 1 .. Count, NEW t \in Tiles(images[i]),
             sink.image = i, WriteRaw(t, p)
      PROVE  TypeInv'
  <2> DEFINE raw == images[i].raw
             at == dataAt[i] + t * raw
  <2>1. /\ sink # Closed /\ phase = "pixels" /\ UNCHANGED <<plan, phase, sink>>
        /\ at \in 0 .. size /\ raw \in Nat
    <3>1. sink # Closed /\ at <= size /\ UNCHANGED <<plan, phase, sink>>
      BY <1>6 DEF WriteRaw
    <3>2. phase = "pixels" /\ Len(dataAt) = Count
      BY <3>1 DEF Progress
    <3>3. dataAt[i] \in Nat
      BY <3>2 DEF TypeOK
    <3>4. raw \in Nat /\ t \in Nat
      BY ImageTypes DEF Tiles
    <3>5. t * raw \in Nat
      BY <3>4
    <3>6. size \in Nat
      BY DEF TypeOK
    <3> QED BY SMTT(30), <3>1, <3>2, <3>3, <3>4, <3>5, <3>6
  <2>2. \E h \in 0 .. raw, q \in {p, Unknown} :
          /\ buf' = PutIn(buf, at, Block("raw", p, h), h)
          /\ size' = Extent(at, h)
          /\ Promise(t, q)
    <3>1. CASE /\ buf' = Put(at, Block("raw", p, raw), raw)
               /\ size' = Extent(at, raw)
               /\ Promise(t, p)
      BY <2>1, <3>1 DEF Put
    <3>2. CASE /\ \E h \in 0 .. raw - 1 :
                    /\ buf' = Put(at, Block("raw", p, h), h)
                    /\ size' = Extent(at, h)
               /\ Promise(t, Unknown)
      BY <2>1, <3>2 DEF Put
    <3> QED BY <1>6, <3>1, <3>2 DEF WriteRaw
  <2>3. PICK h \in 0 .. raw, q \in {p, Unknown} :
          /\ buf' = PutIn(buf, at, Block("raw", p, h), h)
          /\ size' = Extent(at, h)
          /\ Promise(t, q)
    BY <2>2
  <2>4. size' \in Nat /\ buf' \in [0 .. size' - 1 -> Word]
    <3> HIDE DEF at, raw
    <3>1. h \in Nat /\ \A k \in 0 .. h - 1 : Block("raw", p, h)[k] \in Word
      BY <2>1, WordTypes
    <3>2. buf \in [0 .. size - 1 -> Word]
      BY DEF TypeOK
    <3> QED BY <2>1, <2>3, <3>1, <3>2, PutTypes
  <2>5. faults' \in 0 .. MaxFaults
    BY SMTT(30), <1>6, ContainerAssumption DEF WriteRaw, Fault, TypeOK
  <2> QED
    BY <2>1, <2>3, <2>4, <2>5, TileWriteTypes DEF TypeOK
<1>7. ASSUME NEW p \in Payloads, WriteStrip(p) PROVE TypeInv'
  <2> DEFINE at == dataAt[sink.image]
             patched == Patch(buf, ifdAt[sink.image] + SlotBase(images[sink.image], "count"),
                              EncLen[p])
  <2>1. /\ sink # Closed /\ UNCHANGED <<plan, phase, sink>>
        /\ at \in 0 .. size /\ EncLen[p] \in Nat
    <3>1. sink # Closed /\ at <= size /\ UNCHANGED <<plan, phase, sink>>
      BY <1>7 DEF WriteStrip
    <3>2. at \in Nat
      BY <3>1 DEF Progress, TypeOK
    <3> QED BY <3>1, <3>2, CallerAssumption DEF TypeOK
  <2>2. patched \in [0 .. size - 1 -> Word]
    BY <2>1, PatchTypes DEF TypeOK
  <2>3. PICK h \in 0 .. EncLen[p], q \in {p, Unknown} :
          /\ buf' = PutIn(patched, at, Block("enc", p, h), h)
          /\ size' = Extent(at, h)
          /\ Promise(0, q)
    BY <1>7, <2>1 DEF WriteStrip
  <2>4. size' \in Nat /\ buf' \in [0 .. size' - 1 -> Word]
    <3> HIDE DEF at, patched
    <3>1. h \in Nat /\ \A k \in 0 .. h - 1 : Block("enc", p, h)[k] \in Word
      BY <2>1, WordTypes
    <3> QED BY <2>1, <2>2, <2>3, <3>1, PutTypes
  <2>5. faults' \in 0 .. MaxFaults
    <3>1. faults' = faults \/ Fault
      BY <1>7 DEF WriteStrip
    <3> QED BY <3>1, ContainerAssumption DEF Fault, TypeOK
  <2> QED BY <2>1, <2>3, <2>4, <2>5, TileWriteTypes DEF TypeOK
<1>8. ASSUME NEW p \in Payloads, WriteTile(p) PROVE TypeInv'
  <2> DEFINE n == EncLen[p]
             stored == PutIn(buf, sink.at, Block("enc", p, n), n)
             m == images[sink.image]
  <2>1. /\ sink # Closed /\ sink.at \in 0 .. size /\ n \in Nat
        /\ sink.next \in Nat /\ UNCHANGED <<plan, phase>>
    BY <1>8, CallerAssumption DEF WriteTile, TypeOK
  <2>2. Extent(sink.at, n) \in Nat /\ stored \in [0 .. Extent(sink.at, n) - 1 -> Word]
    <3> HIDE DEF n
    <3> QED BY <2>1, PutTypes, WordTypes DEF TypeOK
  <2>3. /\ buf' = Patch(Patch(stored, TileSlot(m, "offset", sink.next), sink.at),
                        TileSlot(m, "count", sink.next), n)
        /\ size' = Extent(sink.at, n)
        /\ sink' = [Advance(n) EXCEPT !.next = sink.next + 1]
        /\ Promise(sink.next, p)
        /\ faults' = faults
    BY <1>8 DEF WriteTile, Put
  <2>4. size' \in Nat /\ buf' \in [0 .. size' - 1 -> Word]
    <3> HIDE DEF n, stored, m
    <3> QED BY <2>1, <2>2, <2>3, PatchTypes
  <2>5. sink' \in [image: 0 .. Count, next: Nat, at: Nat] /\ sink'.image = sink.image
    <3>1. sink \in [image: 0 .. Count, next: Nat, at: Nat] /\ sink.at + n \in Nat
      BY <2>1 DEF TypeOK
    <3>2. sink' = [image |-> sink.image, next |-> sink.next + 1, at |-> sink.at + n]
      BY <2>3, <3>1 DEF Advance
    <3> QED BY <2>1, <3>1, <3>2
  <2> QED BY <2>1, <2>3, <2>4, <2>5, TileWriteTypes DEF TypeOK
<1>9. ASSUME NEW p \in Payloads, NEW step \in {"data", "offset", "count", "seek"},
             WriteTileFails(p, step)
      PROVE  TypeInv'
  <2> DEFINE n == EncLen[p]
             stored == PutIn(buf, sink.at, Block("enc", p, n), n)
             m == images[sink.image]
  <2>1. /\ sink # Closed /\ sink.at \in 0 .. size /\ n \in Nat
        /\ sink.next \in Nat /\ UNCHANGED <<plan, phase>>
        /\ Promise(sink.next, Unknown) /\ Fault
    BY <1>9, CallerAssumption DEF WriteTileFails, TypeOK
  <2>4. faults' \in 0 .. MaxFaults
    BY <2>1, ContainerAssumption DEF Fault, TypeOK
  <2>2. CASE /\ \E h \in 0 .. n - 1 :
                  /\ buf' = Put(sink.at, Block("enc", p, h), h)
                  /\ size' = Extent(sink.at, h)
             /\ UNCHANGED sink
    <3>1. PICK h \in 0 .. n - 1 : /\ buf' = PutIn(buf, sink.at, Block("enc", p, h), h)
                                  /\ size' = Extent(sink.at, h)
      BY <2>2 DEF Put
    <3>2. size' \in Nat /\ buf' \in [0 .. size' - 1 -> Word]
      <4> HIDE DEF n
      <4>1. h \in Nat /\ \A k \in 0 .. h - 1 : Block("enc", p, h)[k] \in Word
        BY <2>1, WordTypes
      <4>2. buf \in [0 .. size - 1 -> Word]
        BY DEF TypeOK
      <4> QED BY <2>1, <3>1, <4>1, <4>2, PutTypes
    <3> QED BY <2>1, <2>2, <2>4, <3>2, TileWriteTypes DEF TypeOK
  <2>3. CASE step # "data"
    <3>1. /\ size' = Extent(sink.at, n) /\ sink' = Advance(n)
          /\ \/ buf' = stored
             \/ buf' = Patch(stored, TileSlot(m, "offset", sink.next), sink.at)
             \/ buf' = Patch(Patch(stored, TileSlot(m, "offset", sink.next), sink.at),
                             TileSlot(m, "count", sink.next), n)
      BY <1>9, <2>3 DEF WriteTileFails, Put
    <3>2. Extent(sink.at, n) \in Nat /\ stored \in [0 .. Extent(sink.at, n) - 1 -> Word]
      <4> HIDE DEF n
      <4> QED BY <2>1, PutTypes, WordTypes DEF TypeOK
    <3>3. size' \in Nat /\ buf' \in [0 .. size' - 1 -> Word]
      <4> HIDE DEF n, stored, m
      <4>1. sink.at \in Nat
        BY <2>1
      <4>2. \A a : Patch(stored, a, sink.at) \in [0 .. Extent(sink.at, n) - 1 -> Word]
        BY <3>2, <4>1, PatchTypes
      <4>3. \A a, b : Patch(Patch(stored, a, sink.at), b, n)
                        \in [0 .. Extent(sink.at, n) - 1 -> Word]
        BY <2>1, <3>2, <4>2, PatchTypes
      <4> QED BY <3>1, <3>2, <4>2, <4>3
    <3>4. sink' \in [image: 0 .. Count, next: Nat, at: Nat] /\ sink'.image = sink.image
      <4>1. sink \in [image: 0 .. Count, next: Nat, at: Nat] /\ sink.at + n \in Nat
        BY <2>1 DEF TypeOK
      <4>2. sink' = [image |-> sink.image, next |-> sink.next, at |-> sink.at + n]
        BY <3>1, <4>1 DEF Advance
      <4> QED BY <4>1, <4>2
    <3> QED BY <2>1, <2>4, <3>3, <3>4, TileWriteTypes
  <2> QED BY <1>9, <2>2, <2>3 DEF WriteTileFails
<1>10. CASE UNCHANGED vars
  <2>1. UNCHANGED plan /\ phase' = phase /\ sink' = sink
        /\ UNCHANGED <<buf, size, acked, faults>>
    BY <1>10 DEF vars
  <2>2. TypeOK'
    BY <2>1, SamePlan DEF TypeOK
  <2>3. Progress'
    BY <2>1, SamePlan DEF Progress
  <2> QED BY <2>2, <2>3
<1> QED
  BY <1>1, <1>2, <1>3, <1>4, <1>5, <1>6, <1>7, <1>8, <1>9, <1>10 DEF Next

(* Every reachable state is well typed: in particular every address a sink *)
(* writes to is one that was planned, and the buffer has no gap.           *)
THEOREM TypeCorrect == Spec => []TypeOK
<1>1. Spec => []TypeInv
  BY TypeInvInit, TypeInvNext, PTL DEF Spec
<1>2. TypeInv => TypeOK
  BY DEF TypeInv
<1> QED BY <1>1, <1>2, PTL
------------------------------------------------------------------------------
(* The layout and what the tiles rely on. A compressed image may not keep  *)
(* to the span the planner reserves for it: before another image, it must  *)
(* be a strip that its encoder never expands; and the slots of a tiled one *)
(* are only right in the first IFD.                                        *)

SafeFile(f) ==
  \A i \in 1 .. Len(f) : f[i].compressed =>
    /\ f[i].tiled => i = 1 /\ i = Len(f)
    /\ i = Len(f) \/ \A p \in Payloads : EncLen[p] <= f[i].raw
FilesSafe == \A f \in Files : SafeFile(f)

IfdEnd(i) == ifdAt[i] + IfdSize(images[i])
DataEnd(i) == dataAt[i] + Span(images[i])

(* The regions the planner hands out follow one another without overlap.   *)
Planned ==
  /\ HeaderSize <= cursor
  /\ Len(ifdAt) > 0 => ifdAt[1] = HeaderSize
  /\ \A i \in 1 .. Len(ifdAt) : HeaderSize <= ifdAt[i] /\ IfdEnd(i) <= cursor
  /\ \A i, j \in 1 .. Len(ifdAt) : i < j => IfdEnd(i) <= ifdAt[j]
  /\ \A i \in 2 .. Len(ifdAt) : ifdAt[i] = IfdEnd(i - 1)
  /\ phase = "ifds" =>
       cursor = IF Len(ifdAt) = 0 THEN HeaderSize ELSE IfdEnd(Len(ifdAt))
  /\ \A i \in 1 .. Len(dataAt) : DataEnd(i) <= cursor
  /\ \A i \in 1 .. Len(dataAt) : \A j \in 1 .. Len(ifdAt) : IfdEnd(j) <= dataAt[i]
  /\ \A i, j \in 1 .. Len(dataAt) : i < j => DataEnd(i) <= dataAt[j]

(* What was serialized is still there, but for the slots a sink patches.   *)
Serialized ==
  /\ phase \in {"ifds", "data"} => size = 0
  /\ phase = "chain" => size = IF written = 0 THEN 0 ELSE IfdEnd(written)
  /\ written > 0 => HeaderSize <= size /\ buf[HeaderSize - 1] = Num(ifdAt[1])
  /\ \A i \in 1 .. written :
       /\ IfdEnd(i) <= size
       /\ \A r \in 0 .. IfdSize(images[i]) - 1 :
            ~Patched(images[i], r) => buf[ifdAt[i] + r] = IfdWord(i, r)

(* Tile t of image i is p, stored at off. *)
Kind(m) == IF m.compressed THEN "enc" ELSE "raw"
Length(m, p) == IF m.compressed THEN EncLen[p] ELSE m.raw
TileAt(i, t, off, p) ==
  /\ off >= dataAt[i]
  /\ ~Packed(images[i]) => off = dataAt[i] + t * images[i].raw
  /\ buf[Slot(i, "offset", t)] = Num(off)
  /\ buf[Slot(i, "count", t)] = Num(Length(images[i], p))
  /\ Holds(off, Kind(images[i]), p, Length(images[i], p))

(* The tiles before the next one of a packed image's sink end before the   *)
(* running offset, whichever sink wrote them.                              *)
Kept ==
  \A i \in 1 .. Count : \A t \in Tiles(images[i]) :
    Acked(i, t) =>
      /\ phase = "pixels"
      /\ \E off \in Nat :
           /\ TileAt(i, t, off, acked[i][t])
           /\ Packed(images[i]) /\ sink.image = i /\ t < sink.next =>
                off + EncLen[acked[i][t]] <= sink.at

SinkPlace ==
  sink # Closed => dataAt[sink.image] <= sink.at /\ sink.at <= size

IInv == TypeInv /\ Planned /\ Serialized /\ Kept /\ SinkPlace

LEMMA IInvInit == Init => IInv
<1> SUFFICES ASSUME Init PROVE IInv
  OBVIOUS
<1>1. /\ Len(ifdAt) = 0 /\ Len(dataAt) = 0 /\ cursor = HeaderSize /\ size = 0
      /\ written = 0 /\ phase = "ifds" /\ sink = Closed
  BY DEF Init
<1>2. Planned /\ Serialized /\ SinkPlace
  BY <1>1, ContainerAssumption DEF Planned, Serialized, SinkPlace
<1>3. \A i \in 1 .. Count : \A t \in Tiles(images[i]) : acked[i][t] = Unknown
  BY DEF Init, Count
<1>4. Kept
  BY <1>3 DEF Kept, Acked
<1> QED BY <1>2, <1>4, TypeInvInit DEF IInv

(* No tile is acknowledged before the pixels are written. *)
LEMMA NoneAcked ==
  ASSUME TypeInv, Kept, phase # "pixels"
  PROVE  \A i \in 1 .. Count : \A t \in Tiles(images[i]) : ~Acked(i, t)
BY DEF Kept

(* The planner's actions preserve the layout. *)
LEMMA PlanIfdInv == IInv /\ PlanIfd => (Planned /\ Serialized /\ Kept /\ SinkPlace)'
<1> SUFFICES ASSUME IInv, PlanIfd PROVE (Planned /\ Serialized /\ Kept /\ SinkPlace)'
  OBVIOUS
<1> PICK i \in {Len(ifdAt) + 1} : TRUE
  OBVIOUS
<1>1. /\ i = Len(ifdAt) + 1
      /\ TypeInv /\ TypeOK /\ Progress /\ Planned /\ Serialized /\ Kept
      /\ phase = "ifds" /\ Len(ifdAt) < Count /\ Len(dataAt) = 0 /\ written = 0
      /\ sink = Closed /\ size = 0 /\ ifdAt \in Seq(Nat) /\ cursor \in Nat
      /\ Count \in Nat \ {0}
  BY ImageTypes DEF IInv, TypeInv, TypeOK, Progress, PlanIfd, Serialized
<1>2. UNCHANGED <<images, viaList, dataAt, written, buf, size, sink, acked, faults>>
      /\ Count' = Count
  BY DEF PlanIfd, Count
<1>3. phase' # "pixels" /\ phase' # "chain"
  BY DEF PlanIfd
<1>4. Kept'
  <2>1. \A j \in 1 .. Count : \A t \in Tiles(images[j]) : ~Acked(j, t)'
    BY <1>1, <1>2, NoneAcked DEF Acked
  <2> QED BY <1>2, <2>1 DEF Kept
<1>5. SinkPlace'
  BY <1>1, <1>2 DEF SinkPlace, Closed
<1>6. Serialized'
  BY <1>1, <1>2, <1>3 DEF Serialized
<1>7. CASE phase' = "rejected" /\ UNCHANGED <<ifdAt, cursor>>
  BY <1>1, <1>2, <1>4, <1>5, <1>6, <1>7 DEF Planned, IfdEnd, DataEnd
<1>8. CASE /\ ifdAt' = Append(ifdAt, cursor)
           /\ cursor' = cursor + IfdSize(images[i])
           /\ phase' = IF i = Count THEN "data" ELSE "ifds"
  <2>1. /\ Len(ifdAt') = i /\ ifdAt'[i] = cursor
        /\ \A j \in 1 .. Len(ifdAt) : ifdAt'[j] = ifdAt[j] /\ ifdAt[j] \in Nat
        /\ i \in 1 .. Count /\ i \in Nat
    BY <1>1, <1>8
  <2>2. \A j \in 1 .. Count : IfdSize(images[j]) \in Nat /\ images'[j] = images[j]
    BY <1>1, <1>2, ImageTypes, IfdSizes
  <2>3. IfdEnd(i)' = cursor'
    BY <1>2, <1>8, <2>1 DEF IfdEnd
  <2>4. \A j \in 1 .. Len(ifdAt) : IfdEnd(j)' = IfdEnd(j) /\ IfdEnd(j) \in Nat
    BY SMTT(30), <1>1, <1>2, <2>1, <2>2 DEF IfdEnd
  <2>5. cursor' \in Nat /\ cursor <= cursor' /\ HeaderSize <= cursor'
    BY <1>1, <1>8, <2>1, <2>2, ContainerAssumption DEF Planned
  <2>6. Len(ifdAt') > 0 => ifdAt'[1] = HeaderSize
    BY <1>1, <2>1 DEF Planned
  <2>7. \A j \in 1 .. Len(ifdAt') : HeaderSize <= ifdAt'[j] /\ IfdEnd(j)' <= cursor'
    <3> SUFFICES ASSUME NEW j \in 1 .. Len(ifdAt')
                 PROVE  HeaderSize <= ifdAt'[j] /\ IfdEnd(j)' <= cursor'
      OBVIOUS
    <3>1. CASE j = i
      <4>1. ifdAt'[j] = cursor /\ HeaderSize <= cursor
        BY <1>1, <2>1, <3>1 DEF Planned
      <4>2. IfdEnd(j)' = cursor'
        BY <2>3, <3>1
      <4> QED BY <2>5, <4>1, <4>2
    <3>2. CASE j \in 1 .. Len(ifdAt)
      <4>1. HeaderSize <= ifdAt[j] /\ IfdEnd(j) <= cursor
        BY <1>1, <3>2 DEF Planned
      <4> QED BY <1>1, <2>1, <2>4, <2>5, <3>2, <4>1
    <3>3. j = i \/ j \in 1 .. Len(ifdAt)
      BY <1>1, <2>1
    <3> QED BY <3>1, <3>2, <3>3
  <2>8. \A j, k \in 1 .. Len(ifdAt') : j < k => IfdEnd(j)' <= ifdAt'[k]
    <3> SUFFICES ASSUME NEW j \in 1 .. Len(ifdAt'), NEW k \in 1 .. Len(ifdAt'), j < k
                 PROVE  IfdEnd(j)' <= ifdAt'[k]
      OBVIOUS
    <3>1. j \in 1 .. Len(ifdAt)
      BY <1>1, <2>1
    <3>2. CASE k = i
      BY <1>1, <2>1, <2>4, <3>1, <3>2 DEF Planned
    <3>3. CASE k \in 1 .. Len(ifdAt)
      BY <1>1, <2>1, <2>4, <3>1, <3>3 DEF Planned
    <3> QED BY <1>1, <2>1, <3>2, <3>3
  <2>9. \A j \in 2 .. Len(ifdAt') : ifdAt'[j] = IfdEnd(j - 1)'
    <3> SUFFICES ASSUME NEW j \in 2 .. Len(ifdAt') PROVE ifdAt'[j] = IfdEnd(j - 1)'
      OBVIOUS
    <3>1. j - 1 \in 1 .. Len(ifdAt)
      BY <1>1, <2>1
    <3>2. CASE j = i
      BY <1>1, <2>1, <2>4, <3>1, <3>2 DEF Planned
    <3>3. CASE j \in 2 .. Len(ifdAt)
      BY <1>1, <2>1, <2>4, <3>1, <3>3 DEF Planned
    <3> QED BY <1>1, <2>1, <3>2, <3>3
  <2>10. (cursor = IF Len(ifdAt) = 0 THEN HeaderSize ELSE IfdEnd(Len(ifdAt)))'
    BY <1>1, <2>1, <2>3 DEF IfdEnd
  <2>11. Len(dataAt') = 0
    BY <1>1, <1>2
  <2>12. Planned'
    BY <1>1, <2>5, <2>6, <2>7, <2>8, <2>9, <2>10, <2>11 DEF Planned
  <2> QED BY <1>4, <1>5, <1>6, <2>12
<1> QED BY <1>1, <1>7, <1>8 DEF PlanIfd

LEMMA PlanDataInv == IInv /\ PlanData => (Planned /\ Serialized /\ Kept /\ SinkPlace)'
<1> SUFFICES ASSUME IInv, PlanData PROVE (Planned /\ Serialized /\ Kept /\ SinkPlace)'
  OBVIOUS
<1> PICK i \in {Len(dataAt) + 1} : TRUE
  OBVIOUS
<1>1. /\ i = Len(dataAt) + 1
      /\ TypeInv /\ TypeOK /\ Progress /\ Planned /\ Serialized /\ Kept
      /\ phase = "data" /\ Len(ifdAt) = Count /\ Len(dataAt) < Count /\ written = 0
      /\ sink = Closed /\ size = 0 /\ dataAt \in Seq(Nat) /\ ifdAt \in Seq(Nat)
      /\ cursor \in Nat /\ Count \in Nat \ {0}
  BY ImageTypes DEF IInv, TypeInv, TypeOK, Progress, PlanData, Serialized
<1>2. UNCHANGED <<images, viaList, ifdAt, written, buf, size, sink, acked, faults>>
      /\ Count' = Count
  BY DEF PlanData, Count
<1>3. phase' \in {"rejected", "data", "chain"}
  BY DEF PlanData
<1>4. Kept'
  <2>1. \A j \in 1 .. Count : \A t \in Tiles(images[j]) : ~Acked(j, t)'
    BY <1>1, <1>2, NoneAcked DEF Acked
  <2> QED BY <1>2, <2>1 DEF Kept
<1>5. SinkPlace'
  BY <1>1, <1>2 DEF SinkPlace, Closed
<1>6. Serialized'
  BY <1>1, <1>2, <1>3 DEF Serialized
<1>7. CASE phase' = "rejected" /\ UNCHANGED <<dataAt, cursor>>
  BY <1>1, <1>2, <1>4, <1>5, <1>6, <1>7 DEF Planned, IfdEnd, DataEnd
<1>8. CASE /\ dataAt' = Append(dataAt, cursor)
           /\ cursor' = cursor + Span(images[i])
           /\ phase' = IF i = Count THEN "chain" ELSE "data"
  <2>1. /\ Len(dataAt') = i /\ dataAt'[i] = cursor
        /\ \A j \in 1 .. Len(dataAt) : dataAt'[j] = dataAt[j] /\ dataAt[j] \in Nat
        /\ i \in 1 .. Count /\ i \in Nat
    BY <1>1, <1>8
  <2>2. \A j \in 1 .. Count : Span(images[j]) \in Nat /\ images'[j] = images[j]
    BY <1>1, <1>2, ImageTypes DEF Span
  <2>3. DataEnd(i)' = cursor'
    BY <1>2, <1>8, <2>1 DEF DataEnd
  <2>14. \A j \in 1 .. Len(dataAt) : j \in 1 .. Count
    BY <1>1
  <2>15. \A j \in 1 .. Len(dataAt) : DataEnd(j)' = dataAt[j] + Span(images[j])
    BY <1>2, <2>1 DEF DataEnd
  <2>4. \A j \in 1 .. Len(dataAt) : DataEnd(j)' = DataEnd(j) /\ DataEnd(j) \in Nat
    BY <2>1, <2>2, <2>14, <2>15 DEF DataEnd
  <2>13. \A j \in 1 .. Count : IfdSize(images[j]) \in Nat /\ ifdAt[j] \in Nat
    BY <1>1, ImageTypes, IfdSizes
  <2>5. \A j \in 1 .. Len(ifdAt) : IfdEnd(j)' = IfdEnd(j) /\ IfdEnd(j) \in Nat
    BY <1>1, <1>2, <2>13 DEF IfdEnd
  <2>6. cursor' \in Nat /\ cursor <= cursor' /\ HeaderSize <= cursor'
    BY <1>1, <1>8, <2>1, <2>2, ContainerAssumption DEF Planned
  <2>7. \A j \in 1 .. Len(ifdAt') : HeaderSize <= ifdAt'[j] /\ IfdEnd(j)' <= cursor'
    BY <1>1, <1>2, <2>5, <2>6 DEF Planned
  <2>8. \A j \in 1 .. Len(dataAt') : DataEnd(j)' <= cursor'
    <3> SUFFICES ASSUME NEW j \in 1 .. Len(dataAt') PROVE DataEnd(j)' <= cursor'
      OBVIOUS
    <3>1. CASE j = i
      BY <2>3, <2>6, <3>1
    <3>2. CASE j \in 1 .. Len(dataAt)
      BY <1>1, <2>4, <2>6, <3>2 DEF Planned
    <3> QED BY <1>1, <2>1, <3>1, <3>2
  <2>9. \A j \in 1 .. Len(dataAt') : \A k \in 1 .. Len(ifdAt') : IfdEnd(k)' <= dataAt'[j]
    <3> SUFFICES ASSUME NEW j \in 1 .. Len(dataAt'), NEW k \in 1 .. Len(ifdAt')
                 PROVE  IfdEnd(k)' <= dataAt'[j]
      OBVIOUS
    <3>1. CASE j = i
      BY <1>1, <1>2, <2>1, <2>5, <3>1 DEF Planned
    <3>2. CASE j \in 1 .. Len(dataAt)
      BY <1>1, <1>2, <2>1, <2>5, <3>2 DEF Planned
    <3> QED BY <1>1, <2>1, <3>1, <3>2
  <2>10. \A j, k \in 1 .. Len(dataAt') : j < k => DataEnd(j)' <= dataAt'[k]
    <3> SUFFICES ASSUME NEW j \in 1 .. Len(dataAt'), NEW k \in 1 .. Len(dataAt'), j < k
                 PROVE  DataEnd(j)' <= dataAt'[k]
      OBVIOUS
    <3>1. j \in 1 .. Len(dataAt)
      BY <1>1, <2>1
    <3>2. CASE k = i
      BY <1>1, <2>1, <2>4, <3>1, <3>2 DEF Planned
    <3>3. CASE k \in 1 .. Len(dataAt)
      BY <1>1, <2>1, <2>4, <3>1, <3>3 DEF Planned
    <3> QED BY <1>1, <2>1, <3>2, <3>3
  <2>11. /\ Len(ifdAt') > 0 => ifdAt'[1] = HeaderSize
         /\ \A j, k \in 1 .. Len(ifdAt') : j < k => IfdEnd(j)' <= ifdAt'[k]
         /\ \A j \in 2 .. Len(ifdAt') : ifdAt'[j] = IfdEnd(j - 1)'
    BY <1>1, <1>2, <2>5 DEF Planned
  <2>12. Planned'
    BY <1>3, <1>8, <2>6, <2>7, <2>8, <2>9, <2>10, <2>11 DEF Planned
  <2> QED BY <1>4, <1>5, <1>6, <2>12
<1> QED BY <1>1, <1>7, <1>8 DEF PlanData
LEMMA IfdWordSame ==
  ASSUME UNCHANGED <<images, ifdAt, dataAt>>
  PROVE  \A i, r : IfdWord(i, r)' = IfdWord(i, r)
BY DEF IfdWord, Count

LEMMA AddressTypes ==
  ASSUME TypeOK, Len(ifdAt) = Count, Len(dataAt) = Count
  PROVE  \A i \in 1 .. Count :
           /\ ifdAt[i] \in Nat /\ dataAt[i] \in Nat
           /\ images[i] \in Image /\ IfdSize(images[i]) \in Nat
           /\ Span(images[i]) \in Nat
<1>1. \A i \in 1 .. Count : ifdAt[i] \in Nat /\ dataAt[i] \in Nat
  BY DEF TypeOK
<1>2. \A i \in 1 .. Count : images[i] \in Image
  BY ImageTypes
<1>3. \A i \in 1 .. Count : Span(images[i]) \in Nat
  BY ImageTypes DEF Span
<1> QED BY <1>1, <1>2, <1>3, IfdSizes

LEMMA PlannedSame ==
  ASSUME Planned, UNCHANGED <<images, ifdAt, dataAt, cursor>>,
         phase' = "ifds" => phase = "ifds"
  PROVE  Planned'
BY DEF Planned, IfdEnd, DataEnd

(* Each IFD is written where the plan says. *)
LEMMA SerializeInv == IInv /\ Serialize => (Planned /\ Serialized /\ Kept /\ SinkPlace)'
<1> SUFFICES ASSUME IInv, Serialize PROVE (Planned /\ Serialized /\ Kept /\ SinkPlace)'
  OBVIOUS
<1> PICK i \in {written + 1} : TRUE
  OBVIOUS
<1> DEFINE head == IF written = 0 THEN HeaderSize ELSE 0
           n == head + IfdSize(images[i])
           block == [k \in 0 .. n - 1 |->
                       IF k >= head THEN IfdWord(i, k - head)
                       ELSE IF k = HeaderSize - 1 THEN Num(ifdAt[1])
                       ELSE <<"header", 0, k>>]
<1>1. /\ TypeInv /\ TypeOK /\ Planned /\ Serialized /\ Kept
      /\ phase = "chain" /\ Len(ifdAt) = Count /\ Len(dataAt) = Count
      /\ written < Count /\ written \in Nat /\ i = written + 1 /\ i \in 1 .. Count
      /\ sink = Closed /\ Count \in Nat \ {0}
      /\ size = IF written = 0 THEN 0 ELSE IfdEnd(written)
  <2>1. TypeInv /\ TypeOK /\ Progress /\ Planned /\ Serialized /\ Kept /\ phase = "chain"
    BY DEF IInv, TypeInv, Serialize
  <2>2. /\ Len(ifdAt) = Count /\ Len(dataAt) = Count /\ written < Count
        /\ size = IF written = 0 THEN 0 ELSE IfdEnd(written)
    BY <2>1 DEF Progress, Serialized
  <2>3. Count \in Nat \ {0} /\ written \in Nat
    BY <2>1, ImageTypes DEF TypeOK
  <2>4. sink = Closed
    BY <2>1 DEF Progress
  <2> QED BY <2>1, <2>2, <2>3, <2>4
<1>2. /\ UNCHANGED <<images, viaList, ifdAt, dataAt, cursor, sink, acked, faults>>
      /\ written' = i /\ phase' \in {"pixels", "chain"}
      /\ buf' = PutIn(buf, size, block, n) /\ size' = size + n
  BY DEF Serialize, Put
<1>3. /\ head \in Nat /\ n \in Nat /\ IfdSize(images[i]) \in Nat /\ size \in Nat
      /\ ifdAt[i] \in Nat
  <2>1. IfdSize(images[i]) \in Nat /\ ifdAt[i] \in Nat /\ head \in Nat
    BY <1>1, AddressTypes, ContainerAssumption
  <2>2. size \in Nat
    BY <1>1 DEF TypeOK
  <2> QED BY <2>1, <2>2
<1>4. size + head = ifdAt[i]
  <2>1. CASE written = 0
    BY <1>1, <2>1, ContainerAssumption DEF Planned
  <2>2. CASE written # 0
    <3>1. i \in 2 .. Len(ifdAt) /\ i - 1 = written
      BY <1>1, <2>2
    <3> QED BY <1>1, <1>3, <2>2, <3>1 DEF Planned
  <2> QED BY <2>1, <2>2
<1>5. size' = IfdEnd(i)
  BY <1>2, <1>3, <1>4 DEF IfdEnd
<1>6. Extent(size, n) = size'
  BY <1>2, <1>3 DEF Extent
<1>7. /\ \A a \in 0 .. size - 1 : buf'[a] = buf[a]
      /\ \A k \in 0 .. n - 1 : buf'[size + k] = block[k]
  <2>1. /\ \A a \in 0 .. size - 1 : PutIn(buf, size, block, n)[a] = buf[a]
        /\ \A k \in 0 .. n - 1 : PutIn(buf, size, block, n)[size + k] = block[k]
    <3> HIDE DEF block, n
    <3>1. \A a \in 0 .. size - 1 : a \in 0 .. Extent(size, n) - 1 /\ ~(size <= a)
      BY <1>2, <1>3, <1>6
    <3>2. \A k \in 0 .. n - 1 : /\ size + k \in 0 .. Extent(size, n) - 1
                                /\ size <= size + k /\ size + k < size + n
                                /\ (size + k) - size = k
      BY <1>2, <1>3, <1>6
    <3> QED BY <3>1, <3>2 DEF PutIn
  <2> QED BY <1>2, <2>1
<1>8. /\ HeaderSize <= size' /\ buf'[HeaderSize - 1] = Num(ifdAt'[1])
  <2>1. CASE written = 0
    <3>1. /\ head = HeaderSize /\ HeaderSize - 1 \in 0 .. n - 1 /\ size = 0
          /\ HeaderSize \in Nat \ {0} /\ HeaderSize <= n
      BY <1>1, <1>3, <2>1, ContainerAssumption
    <3>2. block[HeaderSize - 1] = Num(ifdAt[1])
      BY <3>1
    <3>3. buf'[0 + (HeaderSize - 1)] = block[HeaderSize - 1]
      BY <1>7, <3>1
    <3>4. 0 + (HeaderSize - 1) = HeaderSize - 1
      BY <3>1
    <3> HIDE DEF block, n
    <3> QED BY <1>2, <1>3, <3>1, <3>2, <3>3, <3>4
  <2>2. CASE written # 0
    <3>1. HeaderSize <= size /\ buf[HeaderSize - 1] = Num(ifdAt[1])
      BY <1>1, <2>2 DEF Serialized
    <3>2. HeaderSize - 1 \in 0 .. size - 1
      BY <1>3, <3>1, ContainerAssumption
    <3> HIDE DEF block, n
    <3> QED BY <1>2, <1>3, <1>7, <3>1, <3>2, ContainerAssumption
  <2> QED BY <2>1, <2>2
<1>9. ASSUME NEW r \in 0 .. IfdSize(images[i]) - 1
      PROVE  buf'[ifdAt[i] + r] = IfdWord(i, r)
  <2>1. /\ head + r \in 0 .. n - 1 /\ head + r >= head /\ (head + r) - head = r
        /\ size + (head + r) = ifdAt[i] + r
    BY <1>3, <1>4
  <2>2. block[head + r] = IfdWord(i, r)
    BY <2>1
  <2> HIDE DEF block, n
  <2> QED BY <1>7, <2>1, <2>2
<1>10. ASSUME NEW j \in 1 .. written
       PROVE  /\ IfdEnd(j) <= size'
              /\ \A r \in 0 .. IfdSize(images[j]) - 1 :
                   ~Patched(images[j], r) => buf'[ifdAt[j] + r] = IfdWord(j, r)
  <2>1. /\ IfdEnd(j) <= size
        /\ \A r \in 0 .. IfdSize(images[j]) - 1 :
             ~Patched(images[j], r) => buf[ifdAt[j] + r] = IfdWord(j, r)
    BY <1>1 DEF Serialized
  <2>2. j \in 1 .. Count /\ ifdAt[j] \in Nat /\ IfdSize(images[j]) \in Nat
    BY <1>1, AddressTypes
  <2>3. \A r \in 0 .. IfdSize(images[j]) - 1 : ifdAt[j] + r \in 0 .. size - 1
    BY <1>3, <2>1, <2>2 DEF IfdEnd
  <2> HIDE DEF block, n
  <2>4. IfdEnd(j) <= size'
    BY <1>2, <1>3, <2>1, <2>2 DEF IfdEnd
  <2> QED BY <1>7, <2>1, <2>3, <2>4
<1>11. Serialized'
  <2> HIDE DEF block, n
  <2>1. \A j \in 1 .. Count : IfdEnd(j)' = IfdEnd(j)
    BY <1>2 DEF IfdEnd
  <2>2. phase' = "chain" => size' = (IF written' = 0 THEN 0 ELSE IfdEnd(written)')
    BY <1>1, <1>2, <1>5 DEF IfdEnd
  <2>3. ASSUME NEW j \in 1 .. written'
        PROVE  /\ IfdEnd(j)' <= size'
               /\ \A r \in 0 .. IfdSize(images'[j]) - 1 :
                    ~Patched(images'[j], r) => buf'[ifdAt'[j] + r] = IfdWord(j, r)'
    <3>1. j = i \/ j \in 1 .. written
      BY <1>1, <1>2
    <3>2. j \in 1 .. Count /\ IfdEnd(i) <= size'
      BY <1>1, <1>2, <1>3, <1>5
    <3> QED BY <1>2, <1>9, <1>10, <2>1, <3>1, <3>2, IfdWordSame
  <2> QED BY <1>2, <1>8, <2>2, <2>3 DEF Serialized
<1>12. Kept'
  <2>1. \A j \in 1 .. Count : \A t \in Tiles(images[j]) : ~Acked(j, t)'
    BY <1>1, <1>2, NoneAcked DEF Acked
  <2> QED BY <1>2, <2>1 DEF Kept, Count
<1>13. SinkPlace'
  BY <1>1, <1>2 DEF SinkPlace, Closed
<1> QED BY <1>1, <1>2, <1>11, <1>12, <1>13, PlannedSame

LEMMA OpenSinkInv ==
  ASSUME IInv, NEW i \in 1 .. Count, OpenSink(i)
  PROVE  (Planned /\ Serialized /\ Kept /\ SinkPlace)'
<1>1. /\ TypeInv /\ TypeOK /\ Planned /\ Serialized /\ Kept /\ phase = "pixels"
      /\ Len(dataAt) = Count /\ dataAt[i] <= size
      /\ sink' = [image |-> i, next |-> 0, at |-> dataAt[i]]
      /\ UNCHANGED <<images, ifdAt, dataAt, cursor, written, phase, buf, size, acked>>
  BY DEF IInv, TypeInv, Progress, OpenSink, plan
<1>2. dataAt[i] \in Nat
  BY <1>1 DEF TypeOK
<1>3. Serialized'
  BY <1>1, IfdWordSame DEF Serialized, IfdEnd
<1>4. Kept'
  <2>1. \A j, t, off, p : TileAt(j, t, off, p)' = TileAt(j, t, off, p)
    BY <1>1 DEF TileAt, Slot, Holds
  <2>2. \A j \in 1 .. Count : \A t \in Tiles(images[j]) : ~(t < sink'.next)
    BY <1>1 DEF Tiles
  <2> QED BY <1>1, <2>1, <2>2 DEF Kept, Acked, Count
<1>5. SinkPlace'
  BY <1>1, <1>2 DEF SinkPlace
<1> QED BY <1>1, <1>3, <1>4, <1>5, PlannedSame

LEMMA DropSinkInv == IInv /\ DropSink => (Planned /\ Serialized /\ Kept /\ SinkPlace)'
<1> SUFFICES ASSUME IInv, DropSink PROVE (Planned /\ Serialized /\ Kept /\ SinkPlace)'
  OBVIOUS
<1>1. /\ TypeInv /\ Planned /\ Serialized /\ Kept /\ sink' = Closed
      /\ UNCHANGED <<images, ifdAt, dataAt, cursor, written, phase, buf, size, acked>>
  BY DEF IInv, DropSink, plan
<1>2. Serialized'
  BY <1>1, IfdWordSame DEF Serialized, IfdEnd
<1>3. Kept'
  <2>1. \A j, t, off, p : TileAt(j, t, off, p)' = TileAt(j, t, off, p)
    BY <1>1 DEF TileAt, Slot, Holds
  <2>2. \A j \in 1 .. Count : \A t \in Tiles(images[j]) : ~(t < sink'.next)
    BY <1>1 DEF Tiles, Closed
  <2> QED BY <1>1, <2>1, <2>2 DEF Kept, Acked, Count
<1> QED BY <1>1, <1>2, <1>3, PlannedSame DEF SinkPlace
------------------------------------------------------------------------------
(* Tile writes. A write of tile t of image i changes words from lo on, for *)
(* n words, and the slots of that tile a sink of such an image patches.    *)

PatchedAt(i, t, a) ==
  images[i].compressed /\ \/ a = Slot(i, "count", t)
                          \/ images[i].tiled /\ a = Slot(i, "offset", t)

TileWrite(i, t, lo, n) ==
  /\ size' \in Nat /\ size <= size'
  /\ lo \in Nat /\ n \in Nat /\ dataAt[i] <= lo
  /\ ~Packed(images[i]) => lo = dataAt[i] + t * images[i].raw
  /\ ~images[i].compressed \/ i < Count => n <= images[i].raw
  /\ \A a \in 0 .. size - 1 :
       (a < lo \/ a >= lo + n) /\ ~PatchedAt(i, t, a) => buf'[a] = buf[a]

(* The addresses of a tile's slots lie in its own IFD, each in its place.  *)
LEMMA SlotPlaces ==
  ASSUME TypeOK, Planned, Len(ifdAt) = Count, Len(dataAt) = Count,
         NEW i \in 1 .. Count, NEW t \in Tiles(images[i])
  PROVE  /\ Slot(i, "offset", t) \in Nat /\ Slot(i, "count", t) \in Nat
         /\ ifdAt[i] <= Slot(i, "offset", t) /\ ifdAt[i] <= Slot(i, "count", t)
         /\ Slot(i, "offset", t) < IfdEnd(i) /\ Slot(i, "count", t) < IfdEnd(i)
         /\ \A u \in Tiles(images[i]) :
              /\ Slot(i, "offset", t) # Slot(i, "count", u)
              /\ u # t => /\ Slot(i, "offset", t) # Slot(i, "offset", u)
                          /\ Slot(i, "count", t) # Slot(i, "count", u)
<1> DEFINE m == images[i]
<1>1. ifdAt[i] \in Nat /\ m \in Image /\ IfdSize(m) \in Nat
  BY AddressTypes
<1>4. t \in Nat
  BY ImageTypes DEF Tiles
<1>2. SlotBase(m, "offset") \in Nat /\ SlotBase(m, "count") \in Nat
  BY <1>1, IfdSizes
<1>3. \A u \in Tiles(m) : /\ u \in Nat
                          /\ SlotBase(m, "offset") + u < SlotBase(m, "count")
                          /\ SlotBase(m, "count") + u < IfdSize(m)
  BY <1>1, IfdSizes DEF Tiles
<1>5. \A u : /\ Slot(i, "offset", u) = ifdAt[i] + SlotBase(m, "offset") + u
             /\ Slot(i, "count", u) = ifdAt[i] + SlotBase(m, "count") + u
  BY DEF Slot
<1>6. IfdEnd(i) = ifdAt[i] + IfdSize(m)
  BY DEF IfdEnd
<1> HIDE DEF m
<1>7. t \in Tiles(m)
  BY DEF m
<1>8. /\ Slot(i, "offset", t) \in Nat /\ Slot(i, "count", t) \in Nat
      /\ ifdAt[i] <= Slot(i, "offset", t) /\ ifdAt[i] <= Slot(i, "count", t)
      /\ Slot(i, "offset", t) < IfdEnd(i) /\ Slot(i, "count", t) < IfdEnd(i)
  <2>1. SlotBase(m, "offset") + t < SlotBase(m, "count") /\ SlotBase(m, "count") + t < IfdSize(m)
    BY <1>3, <1>7
  <2> QED BY <1>1, <1>2, <1>4, <1>5, <1>6, <2>1
<1>9. ASSUME NEW u \in Tiles(m)
      PROVE  /\ Slot(i, "offset", t) # Slot(i, "count", u)
             /\ u # t => /\ Slot(i, "offset", t) # Slot(i, "offset", u)
                         /\ Slot(i, "count", t) # Slot(i, "count", u)
  <2>1. SlotBase(m, "offset") + t < SlotBase(m, "count") /\ u \in Nat
    BY <1>3, <1>7
  <2> QED BY SMTT(30), <1>1, <1>2, <1>4, <1>5, <2>1
<1> QED BY <1>8, <1>9 DEF m

(* Where the regions of two images lie. *)
LEMMA Regions ==
  ASSUME TypeOK, Planned, Len(ifdAt) = Count, Len(dataAt) = Count,
         NEW i \in 1 .. Count, NEW j \in 1 .. Count
  PROVE  /\ IfdEnd(i) \in Nat /\ DataEnd(i) \in Nat /\ IfdEnd(i) <= dataAt[j]
         /\ i < j => IfdEnd(i) <= ifdAt[j] /\ DataEnd(i) <= dataAt[j]
<1>1. IfdEnd(i) \in Nat /\ DataEnd(i) \in Nat
  BY AddressTypes DEF IfdEnd, DataEnd
<1>2. i \in 1 .. Len(ifdAt) /\ j \in 1 .. Len(ifdAt) /\ i \in 1 .. Len(dataAt) /\ j \in 1 .. Len(dataAt)
  OBVIOUS
<1> QED BY <1>1, <1>2 DEF Planned

(* A tile write leaves the IFDs and the header as they were, but for the   *)
(* slots of the tile.                                                      *)
LEMMA WriteKeepsIfds ==
  ASSUME TypeInv, Planned, Serialized, phase = "pixels", UNCHANGED <<plan, phase>>,
         NEW i \in 1 .. Count, NEW t \in Tiles(images[i]), NEW lo, NEW n,
         TileWrite(i, t, lo, n)
  PROVE  Serialized'
<1>1. /\ TypeOK /\ Len(ifdAt) = Count /\ Len(dataAt) = Count /\ written = Count
      /\ Count \in Nat \ {0} /\ size \in Nat
  BY ImageTypes DEF TypeInv, Progress, TypeOK
<1>2. /\ UNCHANGED <<images, ifdAt, dataAt, written>> /\ phase' = "pixels"
      /\ Count' = Count
  BY DEF plan, Count
<1>3. /\ size' \in Nat /\ size <= size' /\ lo \in Nat /\ n \in Nat /\ dataAt[i] <= lo
      /\ \A a \in 0 .. size - 1 :
           (a < lo \/ a >= lo + n) /\ ~PatchedAt(i, t, a) => buf'[a] = buf[a]
  BY DEF TileWrite
<1>4. dataAt[i] \in Nat /\ ifdAt[i] \in Nat
  BY <1>1, AddressTypes
<1>5. HeaderSize <= size /\ buf[HeaderSize - 1] = Num(ifdAt[1])
  BY <1>1 DEF Serialized
<1>6. buf'[HeaderSize - 1] = Num(ifdAt'[1])
  <2>1. ifdAt[i] >= HeaderSize /\ IfdEnd(i) <= dataAt[i] /\ ifdAt[i] <= IfdEnd(i)
    BY <1>1, AddressTypes DEF Planned, IfdEnd
  <2>2. HeaderSize - 1 \in 0 .. size - 1 /\ HeaderSize - 1 < lo
    BY <1>1, <1>3, <1>4, <1>5, <2>1, Regions, ContainerAssumption
  <2>3. ~PatchedAt(i, t, HeaderSize - 1)
    BY <1>1, <1>4, <2>1, SlotPlaces, ContainerAssumption DEF PatchedAt
  <2> QED BY <1>2, <1>3, <1>5, <2>2, <2>3
<1>7. ASSUME NEW j \in 1 .. Count, NEW r \in 0 .. IfdSize(images[j]) - 1,
             ~Patched(images[j], r)
      PROVE  buf'[ifdAt[j] + r] = IfdWord(j, r)
  <2>1. buf[ifdAt[j] + r] = IfdWord(j, r) /\ IfdEnd(j) <= size
    BY <1>1, <1>7 DEF Serialized
  <2>2. ifdAt[j] \in Nat /\ IfdSize(images[j]) \in Nat /\ IfdEnd(j) <= dataAt[i]
    BY <1>1, AddressTypes, Regions
  <2>3. /\ ifdAt[j] + r \in 0 .. size - 1 /\ ifdAt[j] + r < lo
        /\ ifdAt[j] <= ifdAt[j] + r /\ ifdAt[j] + r < IfdEnd(j)
    BY SMTT(30), <1>1, <1>3, <1>4, <2>1, <2>2 DEF IfdEnd
  <2>4. ~PatchedAt(i, t, ifdAt[j] + r)
    <3>1. CASE j = i
      <4> DEFINE m == images[i]
      <4>1. r \in Nat /\ SlotBase(m, "offset") \in Nat /\ SlotBase(m, "count") \in Nat
            /\ t \in Nat /\ m \in Image
        BY SMTT(30), <1>1, <3>1, AddressTypes, IfdSizes DEF Tiles
      <4>2. ~m.tiled => t = 0
        BY <1>1, ImageTypes DEF Tiles
      <4>3. /\ ifdAt[j] + r = Slot(i, "count", t) => r - SlotBase(m, "count") = t
            /\ ifdAt[j] + r = Slot(i, "offset", t) => r - SlotBase(m, "offset") = t
        BY <1>4, <3>1, <4>1 DEF Slot
      <4>4. ~m.tiled /\ r - SlotBase(m, "count") = t => r = SlotBase(m, "count")
        BY <4>1, <4>2
      <4> HIDE DEF m
      <4> QED BY <1>7, <3>1, <4>3, <4>4 DEF PatchedAt, Patched, IsSlot, m
    <3>2. CASE j # i
      <4>1. IfdEnd(j) <= ifdAt[i] \/ IfdEnd(i) <= ifdAt[j]
        BY <1>1, <3>2, Regions
      <4>2. /\ ifdAt[i] <= Slot(i, "offset", t) /\ ifdAt[i] <= Slot(i, "count", t)
            /\ Slot(i, "offset", t) < IfdEnd(i) /\ Slot(i, "count", t) < IfdEnd(i)
            /\ Slot(i, "offset", t) \in Nat /\ Slot(i, "count", t) \in Nat
        BY <1>1, SlotPlaces
      <4>3. IfdEnd(i) \in Nat /\ IfdEnd(j) \in Nat
        BY <1>1, Regions
      <4>4. ifdAt[j] + r # Slot(i, "offset", t) /\ ifdAt[j] + r # Slot(i, "count", t)
        BY <1>4, <2>2, <2>3, <4>1, <4>2, <4>3
      <4> QED BY <4>4 DEF PatchedAt
    <3> QED BY <3>1, <3>2
  <2> QED BY <1>3, <2>1, <2>3, <2>4
<1>8. \A j \in 1 .. Count : IfdEnd(j) <= size'
  BY SMTT(30), <1>1, <1>3, Regions DEF Serialized
<1>9. \A j \in 1 .. Count : IfdEnd(j)' = IfdEnd(j)
  BY <1>2 DEF IfdEnd
<1>10. HeaderSize <= size'
  BY <1>1, <1>3, <1>5, ContainerAssumption
<1>11. \A j \in 1 .. written' :
         /\ IfdEnd(j)' <= size'
         /\ \A r \in 0 .. IfdSize(images'[j]) - 1 :
              ~Patched(images'[j], r) => buf'[ifdAt'[j] + r] = IfdWord(j, r)'
  BY <1>1, <1>2, <1>7, <1>8, <1>9, IfdWordSame
<1> QED BY <1>2, <1>6, <1>10, <1>11 DEF Serialized
(* A tile write leaves every other tile as it was, except those packed     *)
(* after it in the same image.                                             *)
LEMMA WriteKeepsTile ==
  ASSUME TypeInv, Planned, FilesSafe, phase = "pixels", UNCHANGED <<plan, phase>>,
         NEW i \in 1 .. Count, NEW t \in Tiles(images[i]), NEW lo, NEW n,
         TileWrite(i, t, lo, n),
         NEW j \in 1 .. Count, NEW u \in Tiles(images[j]), NEW off \in Nat,
         NEW q \in Payloads, TileAt(j, u, off, q),
         j = i => u # t /\ (images[i].compressed => off + EncLen[q] <= lo)
  PROVE  TileAt(j, u, off, q)'
<1> DEFINE len == Length(images[j], q)
           kind == Kind(images[j])
<1>1. /\ TypeOK /\ Len(ifdAt) = Count /\ Len(dataAt) = Count /\ size \in Nat
  BY DEF TypeInv, Progress, TypeOK
<1>2. UNCHANGED <<images, ifdAt, dataAt>>
  BY DEF plan
<1>3. /\ size' \in Nat /\ size <= size' /\ lo \in Nat /\ n \in Nat /\ dataAt[i] <= lo
      /\ ~Packed(images[i]) => lo = dataAt[i] + t * images[i].raw
      /\ ~images[i].compressed \/ i < Count => n <= images[i].raw
      /\ \A a \in 0 .. size - 1 :
           (a < lo \/ a >= lo + n) /\ ~PatchedAt(i, t, a) => buf'[a] = buf[a]
  BY DEF TileWrite
<1>4. /\ dataAt[i] \in Nat /\ ifdAt[i] \in Nat /\ dataAt[j] \in Nat /\ ifdAt[j] \in Nat
      /\ IfdEnd(i) \in Nat /\ IfdEnd(j) \in Nat /\ DataEnd(i) \in Nat /\ DataEnd(j) \in Nat
      /\ IfdEnd(j) <= dataAt[i] /\ IfdEnd(i) <= dataAt[j] /\ IfdEnd(j) <= dataAt[j]
  BY <1>1, AddressTypes, Regions
<1>5. len \in Nat \ {0}
  BY <1>1, ImageTypes, CallerAssumption DEF Length
<1>6. /\ off >= dataAt[j]
      /\ ~Packed(images[j]) => off = dataAt[j] + u * images[j].raw
      /\ buf[Slot(j, "offset", u)] = Num(off)
      /\ buf[Slot(j, "count", u)] = Num(len)
      /\ off + len <= size
      /\ \A k \in 0 .. len - 1 : buf[off + k] = <<kind, q, k>>
  BY DEF TileAt, Holds
<1> HIDE DEF len, kind
<1>7. /\ Slot(j, "offset", u) \in Nat /\ Slot(j, "count", u) \in Nat
      /\ Slot(i, "offset", t) \in Nat /\ Slot(i, "count", t) \in Nat
      /\ ifdAt[i] <= Slot(i, "offset", t) /\ ifdAt[i] <= Slot(i, "count", t)
      /\ Slot(i, "offset", t) < IfdEnd(i) /\ Slot(i, "count", t) < IfdEnd(i)
      /\ ifdAt[j] <= Slot(j, "offset", u) /\ ifdAt[j] <= Slot(j, "count", u)
      /\ Slot(j, "offset", u) < IfdEnd(j) /\ Slot(j, "count", u) < IfdEnd(j)
  BY <1>1, SlotPlaces
<1>8. /\ ~PatchedAt(i, t, Slot(j, "offset", u)) /\ ~PatchedAt(i, t, Slot(j, "count", u))
  <2>1. CASE j = i
    <3>1. u # t /\ u \in Tiles(images[i])
      BY <2>1
    <3>2. /\ Slot(i, "offset", u) # Slot(i, "offset", t)
          /\ Slot(i, "count", u) # Slot(i, "count", t)
          /\ Slot(i, "offset", u) # Slot(i, "count", t)
          /\ Slot(i, "offset", t) # Slot(i, "count", u)
      BY <1>1, <3>1, SlotPlaces
    <3> QED BY <2>1, <3>2 DEF PatchedAt
  <2>2. CASE j # i
    <3>1. IfdEnd(j) <= ifdAt[i] \/ IfdEnd(i) <= ifdAt[j]
      BY <1>1, <2>2, Regions
    <3>2. \A s \in {Slot(j, "offset", u), Slot(j, "count", u)} :
            s # Slot(i, "offset", t) /\ s # Slot(i, "count", t)
      BY <1>4, <1>7, <3>1
    <3> QED BY <3>2 DEF PatchedAt
  <2> QED BY <2>1, <2>2
<1>9. /\ buf'[Slot(j, "offset", u)] = Num(off) /\ buf'[Slot(j, "count", u)] = Num(len)
  <2>1. \A s \in {Slot(j, "offset", u), Slot(j, "count", u)} : s \in 0 .. size - 1 /\ s < lo
    <3>1. off + len \in Nat /\ off < off + len
      BY <1>5
    <3>2. IfdEnd(j) <= off
      BY <1>4, <1>6
    <3>3. IfdEnd(j) < size
      BY <1>1, <1>4, <1>6, <3>1, <3>2
    <3>4. IfdEnd(j) <= lo
      BY <1>3, <1>4
    <3>5. ASSUME NEW s \in Nat, s < IfdEnd(j) PROVE s \in 0 .. size - 1 /\ s < lo
      BY SMTT(30), <1>1, <1>3, <1>4, <3>3, <3>4, <3>5
    <3> QED BY <1>7, <3>5
  <2> QED BY <1>3, <1>6, <1>8, <2>1
<1>10. off + len <= lo \/ lo + n <= off
  <2>1. CASE j = i /\ images[i].compressed
    BY <2>1 DEF len, Length
  <2>2. CASE j = i /\ ~images[i].compressed
    <3>1. u # t /\ t \in Nat /\ u \in Nat /\ images[i] \in Image /\ images[i].raw \in Nat
          /\ u \in Tiles(images[i])
      BY <1>1, <2>2, ImageTypes DEF Tiles
    <3>2. \/ u * images[i].raw + images[i].raw <= t * images[i].raw
          \/ t * images[i].raw + images[i].raw <= u * images[i].raw
      <4>1. CASE u < t
        BY <1>1, <3>1, <4>1, TilePlaces DEF Tiles
      <4>2. CASE t < u
        BY <1>1, <3>1, <4>2, TilePlaces DEF Tiles
      <4> QED BY <3>1, <4>1, <4>2
    <3>3. t * images[i].raw \in Nat /\ u * images[i].raw \in Nat
      BY <3>1
    <3>4. len = images[i].raw
      BY <2>2 DEF len, Length
    <3> QED BY <1>3, <1>4, <1>6, <2>2, <3>1, <3>2, <3>3, <3>4 DEF Packed
  <2>3. CASE j < i
    <3>1. ~Packed(images[j]) /\ (images[j].compressed => EncLen[q] <= images[j].raw)
      <4>1. images \in Files
        BY <1>1 DEF TypeOK
      <4>2. j # Count
        BY <1>1, <2>3, ImageTypes
      <4> QED BY <4>1, <4>2 DEF FilesSafe, SafeFile, Count, Packed
    <3>2. DataEnd(j) <= dataAt[i] /\ len <= images[j].raw
      BY <1>1, <2>3, <3>1, Regions, ImageTypes DEF len, Length
    <3>3. /\ u * images[j].raw + images[j].raw <= Span(images[j])
          /\ u * images[j].raw \in Nat /\ images[j].raw \in Nat /\ Span(images[j]) \in Nat
      BY <1>1, ImageTypes, TilePlaces
    <3>4. off + len <= dataAt[j] + Span(images[j])
      BY <1>4, <1>5, <1>6, <3>1, <3>2, <3>3
    <3> QED BY <1>3, <1>4, <1>5, <3>2, <3>3, <3>4 DEF DataEnd
  <2>4. CASE j > i
    <3>1. ~Packed(images[i]) /\ i < Count
      <4>1. images \in Files
        BY <1>1 DEF TypeOK
      <4>2. i # Count /\ i < Count
        BY <1>1, <2>4, ImageTypes
      <4> QED BY <4>1, <4>2 DEF FilesSafe, SafeFile, Count, Packed
    <3>2. DataEnd(i) <= dataAt[j]
      BY <1>1, <2>4, Regions
    <3>3. /\ t * images[i].raw + images[i].raw <= Span(images[i])
          /\ t * images[i].raw \in Nat /\ images[i].raw \in Nat /\ Span(images[i]) \in Nat
      BY <1>1, ImageTypes, TilePlaces
    <3> QED BY <1>3, <1>4, <1>6, <3>1, <3>2, <3>3 DEF DataEnd
  <2> QED BY <2>1, <2>2, <2>3, <2>4
<1>11. ASSUME NEW k \in 0 .. len - 1
       PROVE  buf'[off + k] = <<kind, q, k>>
  <2>1. off + k \in 0 .. size - 1 /\ (off + k < lo \/ off + k >= lo + n)
    BY <1>1, <1>3, <1>5, <1>6, <1>10
  <2>2. off + k # Slot(i, "offset", t) /\ off + k # Slot(i, "count", t)
    BY <1>4, <1>6, <1>7
  <2> QED BY <1>3, <1>6, <2>1, <2>2 DEF PatchedAt
<1>12. off + len <= size'
  BY <1>1, <1>3, <1>5, <1>6
<1> QED
  BY <1>2, <1>6, <1>9, <1>11, <1>12 DEF TileAt, Holds, Slot, len, kind

(* The tiles acknowledged after a tile write are where they should be.     *)
LEMMA WriteKept ==
  ASSUME IInv, FilesSafe, sink # Closed, UNCHANGED <<plan, phase>>,
         NEW i, i = sink.image, NEW t \in Tiles(images[i]), NEW lo, NEW n,
         TileWrite(i, t, lo, n),
         NEW q \in Payloads \union {Unknown}, Promise(t, q),
         q # Unknown => TileAt(i, t, lo, q)',
         sink'.image = i,
         Packed(images[i]) =>
           /\ t = sink.next /\ lo = sink.at /\ sink.at <= sink'.at /\ sink'.at \in Nat
           /\ \/ sink'.next = sink.next
              \/ sink'.next = sink.next + 1 /\ (q # Unknown => lo + EncLen[q] <= sink'.at)
  PROVE  Kept'
<1>1. /\ TypeInv /\ TypeOK /\ Planned /\ Kept /\ phase = "pixels" /\ i \in 1 .. Count
      /\ Count \in Nat \ {0}
  BY ImageTypes DEF IInv, TypeInv, Progress
<1>2. UNCHANGED <<images, ifdAt, dataAt>> /\ phase' = "pixels" /\ Count' = Count
  BY <1>1 DEF plan, Count
<1>3. /\ DOMAIN acked = 1 .. Count
      /\ \A j \in 1 .. Count : acked[j] \in [Tiles(images[j]) -> Payloads \union {Unknown}]
      /\ sink.at \in Nat /\ sink.next \in Nat
  BY <1>1 DEF TypeOK
<1>4. acked' = [acked EXCEPT ![i] =
                  [u \in Tiles(images[i]) |->
                     IF u = t THEN q
                     ELSE IF u > t /\ Packed(images[i]) THEN Unknown
                     ELSE acked[i][u]]]
  BY <1>1, <1>3 DEF Promise
<1>5. ASSUME NEW j \in 1 .. Count, NEW u \in Tiles(images[j]), acked'[j][u] # Unknown
      PROVE  \E off \in Nat :
               /\ TileAt(j, u, off, acked[j][u])'
               /\ Packed(images[j]) /\ sink'.image = j /\ u < sink'.next =>
                    off + EncLen[acked'[j][u]] <= sink'.at
  <2>1. CASE j = i /\ u = t
    <3>1. acked'[j][u] = q /\ q # Unknown
      BY <1>1, <1>3, <1>4, <1>5, <2>1
    <3>2. TileAt(j, u, lo, q)' /\ lo \in Nat
      BY <2>1, <3>1 DEF TileWrite
    <3>3. Packed(images[j]) /\ u < sink'.next => lo + EncLen[q] <= sink'.at
      BY <1>3, <2>1, <3>1
    <3> QED BY <3>1, <3>2, <3>3
  <2>2. CASE ~(j = i /\ u = t)
    <3>1. /\ acked'[j][u] = acked[j][u]
          /\ j = i => ~(u > t /\ Packed(images[i]))
      <4>1. CASE j = i
        BY <1>1, <1>3, <1>4, <1>5, <2>2, <4>1
      <4>2. CASE j # i
        BY <1>1, <1>3, <1>4, <4>2
      <4> QED BY <4>1, <4>2
    <3>2. acked[j][u] \in Payloads /\ Acked(j, u)
      BY <1>3, <1>5, <3>1 DEF Acked
    <3>3. PICK off \in Nat :
            /\ TileAt(j, u, off, acked[j][u])
            /\ Packed(images[j]) /\ sink.image = j /\ u < sink.next =>
                 off + EncLen[acked[j][u]] <= sink.at
      BY <1>1, <3>2 DEF Kept
    <3>4. j = i /\ images[i].compressed =>
            /\ Packed(images[i]) /\ u < sink.next
            /\ off + EncLen[acked[j][u]] <= lo /\ off + EncLen[acked[j][u]] <= sink'.at
      <4> SUFFICES ASSUME j = i, images[i].compressed
                   PROVE  /\ Packed(images[i]) /\ u < sink.next
                          /\ off + EncLen[acked[j][u]] <= lo
                          /\ off + EncLen[acked[j][u]] <= sink'.at
        OBVIOUS
      <4>1. u # t /\ u \in Nat /\ t \in Nat
        BY <1>1, <2>2, ImageTypes DEF Tiles
      <4>2. images[i].tiled
        BY <1>1, <4>1, ImageTypes DEF Tiles
      <4>3. Packed(images[i]) /\ u < t
        BY <3>1, <4>1, <4>2 DEF Packed
      <4>4. EncLen[acked[j][u]] \in Nat
        BY <3>2, CallerAssumption
      <4> QED BY <1>3, <3>3, <4>3, <4>4
    <3>5. j = i => u # t /\ (images[i].compressed => off + EncLen[acked[j][u]] <= lo)
      BY <2>2, <3>4
    <3>6. \A p \in Payloads : p = acked[j][u] => TileAt(j, u, off, p)'
      <4> SUFFICES ASSUME NEW p \in Payloads, p = acked[j][u] PROVE TileAt(j, u, off, p)'
        OBVIOUS
      <4>1. TileAt(j, u, off, p)
        BY <3>3
      <4>2. j = i => u # t /\ (images[i].compressed => off + EncLen[p] <= lo)
        BY <3>5
      <4> QED BY <1>1, <4>1, <4>2, WriteKeepsTile
    <3>7. TileAt(j, u, off, acked[j][u])'
      BY <3>1, <3>2, <3>6 DEF TileAt
    <3>8. Packed(images[j]) /\ sink'.image = j =>
            off + EncLen[acked'[j][u]] <= sink'.at
      BY <3>1, <3>4 DEF Packed
    <3> QED BY <3>7, <3>8
  <2> QED BY <2>1, <2>2
<1> QED BY <1>2, <1>5 DEF Kept, Acked
(* What the planner put into the slots of a tile. *)
LEMMA SlotWords ==
  ASSUME TypeOK, NEW i \in 1 .. Count, NEW t \in Tiles(images[i])
  PROVE  LET m == images[i]
         IN  /\ IfdWord(i, SlotBase(m, "offset") + t) = Num(dataAt[i] + t * m.raw)
             /\ ~m.compressed => IfdWord(i, SlotBase(m, "count") + t) = Num(m.raw)
             /\ SlotBase(m, "offset") + t \in 0 .. IfdSize(m) - 1
             /\ SlotBase(m, "count") + t \in 0 .. IfdSize(m) - 1
<1> DEFINE m == images[i]
<1>1. m \in Image /\ t \in Nat
  BY ImageTypes DEF Tiles
<1>2. /\ SlotBase(m, "offset") \in Nat /\ SlotBase(m, "count") \in Nat
      /\ IfdSize(m) \in Nat
      /\ \A u \in Tiles(m) : /\ u \in Nat
                             /\ SlotBase(m, "offset") + u < SlotBase(m, "count")
                             /\ SlotBase(m, "count") + u < IfdSize(m)
                             /\ NextRel # SlotBase(m, "offset") + u
                             /\ NextRel # SlotBase(m, "count") + u
  BY <1>1, IfdSizes DEF Tiles
<1>3. (SlotBase(m, "offset") + t) - SlotBase(m, "offset") = t
      /\ (SlotBase(m, "count") + t) - SlotBase(m, "count") = t
  BY <1>1, <1>2
<1>4. (SlotBase(m, "count") + t) - SlotBase(m, "offset") \notin Tiles(m)
  <2>1. \A u \in Tiles(m) : (SlotBase(m, "count") + t) - SlotBase(m, "offset") # u
    BY <1>1, <1>2
  <2> QED BY <2>1
<1>5. SlotBase(m, "offset") + t # NextRel /\ SlotBase(m, "count") + t # NextRel
  BY <1>2
<1>6. /\ SlotBase(m, "offset") + t \in 0 .. IfdSize(m) - 1
      /\ SlotBase(m, "count") + t \in 0 .. IfdSize(m) - 1
  <2>1. SlotBase(m, "offset") + t < SlotBase(m, "count") /\ SlotBase(m, "count") + t < IfdSize(m)
    BY <1>2
  <2> QED BY <1>1, <1>2, <2>1
<1>7. IfdWord(i, SlotBase(m, "offset") + t) = Num(dataAt[i] + t * m.raw)
  BY <1>3, <1>5 DEF IfdWord
<1>8. ~m.compressed => IfdWord(i, SlotBase(m, "count") + t) = Num(m.raw)
  BY <1>3, <1>4, <1>5 DEF IfdWord
<1> QED BY <1>6, <1>7, <1>8

LEMMA WriteRawInv ==
  ASSUME IInv, FilesSafe, NEW p \in Payloads, NEW i \in 1 .. Count,
         NEW t \in Tiles(images[i]), sink.image = i, WriteRaw(t, p)
  PROVE  (Planned /\ Serialized /\ Kept /\ SinkPlace)'
<1> DEFINE raw == images[i].raw
<1> PICK lo \in {dataAt[i] + t * raw} : TRUE
  OBVIOUS
<1>1. /\ sink # Closed /\ ~images[i].compressed /\ lo <= size
      /\ lo = dataAt[i] + t * images[i].raw
      /\ UNCHANGED <<plan, phase, sink>>
  BY DEF WriteRaw
<1>2. /\ TypeInv /\ TypeOK /\ Planned /\ Serialized /\ phase = "pixels" /\ SinkPlace
      /\ Len(ifdAt) = Count /\ Len(dataAt) = Count
  BY <1>1 DEF IInv, TypeInv, Progress
<1>3. size \in Nat /\ raw \in Nat \ {0} /\ dataAt[i] \in Nat /\ t * raw \in Nat
  BY <1>2, AddressTypes, ImageTypes, TilePlaces DEF TypeOK
<1>4. lo \in 0 .. size /\ dataAt[i] <= lo
  BY <1>1, <1>3
<1>5. PICK h \in 0 .. raw, q \in {p, Unknown} :
        /\ buf' = PutIn(buf, lo, Block("raw", p, h), h)
        /\ size' = Extent(lo, h)
        /\ Promise(t, q)
        /\ q # Unknown => h = raw
  <2>1. CASE /\ buf' = Put(lo, Block("raw", p, raw), raw)
             /\ size' = Extent(lo, raw)
             /\ Promise(t, p)
    BY <1>1, <1>3, <2>1 DEF Put
  <2>2. CASE /\ \E h \in 0 .. raw - 1 :
                  /\ buf' = Put(lo, Block("raw", p, h), h)
                  /\ size' = Extent(lo, h)
             /\ Promise(t, Unknown)
    BY <1>1, <1>3, <2>2 DEF Put
  <2> QED BY <1>1, <2>1, <2>2 DEF WriteRaw
<1>6. /\ size' \in Nat /\ size' >= size /\ size' >= lo + h
      /\ \A a \in 0 .. size - 1 : (a < lo \/ a >= lo + h) => buf'[a] = buf[a]
      /\ \A k \in 0 .. h - 1 : buf'[lo + k] = <<"raw", p, k>>
  <2> DEFINE block == Block("raw", p, h)
  <2>1. h \in Nat /\ \A k \in 0 .. h - 1 : block[k] = <<"raw", p, k>> /\ block[k] \in Word
    BY <1>3, WordTypes
  <2>2. buf \in [0 .. size - 1 -> Word]
    BY <1>2 DEF TypeOK
  <2>3. buf' = PutIn(buf, lo, block, h) /\ size' = Extent(lo, h)
    BY <1>5
  <2> HIDE DEF block
  <2>4. /\ size' \in Nat /\ size' >= size /\ size' >= lo + h
        /\ SameOutside(buf', buf, lo, h) /\ Filled(buf', lo, block, h)
    BY <1>2, <1>4, <2>1, <2>2, <2>3, PutTypes
  <2> QED BY <2>1, <2>4 DEF SameOutside, Filled
<1>7. TileWrite(i, t, lo, h)
  BY <1>1, <1>3, <1>4, <1>5, <1>6 DEF TileWrite, Packed
<1>8. Serialized'
  BY <1>1, <1>2, <1>7, WriteKeepsIfds
<1>9. q # Unknown => TileAt(i, t, lo, q)'
  <2> SUFFICES ASSUME q # Unknown PROVE TileAt(i, t, lo, q)'
    OBVIOUS
  <2>1. q = p /\ h = raw
    BY <1>5
  <2>2. /\ images' = images /\ ifdAt' = ifdAt /\ dataAt' = dataAt /\ written' = Count
        /\ Count' = Count
    BY <1>1, <1>2 DEF plan, Count, Progress, TypeInv
  <2>3. /\ buf'[Slot(i, "offset", t)] = Num(lo)
        /\ buf'[Slot(i, "count", t)] = Num(raw)
    <3>1. \A r \in 0 .. IfdSize(images[i]) - 1 : buf'[ifdAt[i] + r] = IfdWord(i, r)
      BY <1>1, <1>8, <2>2, IfdWordSame DEF Serialized, Patched
    <3>2. /\ buf'[ifdAt[i] + (SlotBase(images[i], "offset") + t)] = Num(lo)
          /\ buf'[ifdAt[i] + (SlotBase(images[i], "count") + t)] = Num(raw)
      BY <1>1, <1>2, <3>1, SlotWords
    <3>3. /\ ifdAt[i] \in Nat /\ t \in Nat /\ SlotBase(images[i], "offset") \in Nat
          /\ SlotBase(images[i], "count") \in Nat
      BY <1>2, AddressTypes, IfdSizes, ImageTypes DEF Tiles
    <3>4. /\ Slot(i, "offset", t) = ifdAt[i] + (SlotBase(images[i], "offset") + t)
          /\ Slot(i, "count", t) = ifdAt[i] + (SlotBase(images[i], "count") + t)
      BY <3>3 DEF Slot
    <3> QED BY <3>2, <3>4
  <2> QED
    BY <1>1, <1>4, <1>6, <2>1, <2>2, <2>3 DEF TileAt, Holds, Slot, Kind, Length, Packed
<1>10. Kept'
  <2>1. q \in Payloads \union {Unknown} /\ ~Packed(images[i]) /\ sink'.image = i
    BY <1>1 DEF Packed
  <2>2. UNCHANGED <<plan, phase>> /\ sink # Closed /\ Promise(t, q)
    BY <1>1, <1>5
  <2> QED BY <1>7, <1>9, <2>1, <2>2, WriteKept
<1>11. SinkPlace'
  <2>1. sink.at \in Nat /\ dataAt' = dataAt /\ sink' = sink
    BY <1>1, <1>2 DEF TypeOK, plan
  <2> QED BY <1>2, <1>3, <1>6, <2>1 DEF SinkPlace
<1>12. Planned'
  BY <1>1, <1>2, PlannedSame DEF plan
<1> QED BY <1>8, <1>10, <1>11, <1>12
(* A block written to a buffer some slots of which were or are patched.    *)
Encoded(new, at, p, n) == \A k \in 0 .. n - 1 : new[at + k] = <<"enc", p, k>>

LEMMA BlockTypes ==
  ASSUME TypeOK, NEW at \in 0 .. size, NEW p \in Payloads, NEW n \in Nat,
         NEW b \in [0 .. size - 1 -> Word]
  PROVE  LET new == PutIn(b, at, Block("enc", p, n), n)
         IN  /\ Extent(at, n) \in Nat /\ Extent(at, n) >= size /\ Extent(at, n) >= at + n
             /\ new \in [0 .. Extent(at, n) - 1 -> Word]
             /\ SameOutside(new, b, at, n)
             /\ Encoded(new, at, p, n)
<1> DEFINE block == Block("enc", p, n)
           new == PutIn(b, at, block, n)
<1>1. \A k \in 0 .. n - 1 : block[k] = <<"enc", p, k>> /\ block[k] \in Word
  BY WordTypes
<1> HIDE DEF block
<1>2. /\ Extent(at, n) \in Nat /\ Extent(at, n) >= size /\ Extent(at, n) >= at + n
      /\ new \in [0 .. Extent(at, n) - 1 -> Word]
      /\ SameOutside(new, b, at, n) /\ Filled(new, at, block, n)
  BY <1>1, PutTypes
<1> HIDE DEF new
<1>3. QED
  BY <1>1, <1>2 DEF Filled, Encoded, new, block

LEMMA WriteStripInv ==
  ASSUME IInv, FilesSafe, NEW p \in Payloads, WriteStrip(p)
  PROVE  (Planned /\ Serialized /\ Kept /\ SinkPlace)'
<1> PICK i \in {sink.image} : TRUE
  OBVIOUS
<1> PICK lo \in {dataAt[i]} : TRUE
  OBVIOUS
<1> PICK slot \in {ifdAt[i] + SlotBase(images[i], "count")} : TRUE
  OBVIOUS
<1> DEFINE patched == Patch(buf, slot, EncLen[p])
<1>1. /\ sink # Closed /\ images[i].compressed /\ ~images[i].tiled
      /\ lo = dataAt[i] /\ lo <= size /\ slot < size /\ i = sink.image
      /\ slot = ifdAt[i] + SlotBase(images[i], "count")
      /\ UNCHANGED <<plan, phase, sink>>
  BY DEF WriteStrip
<1>2. /\ TypeInv /\ TypeOK /\ Planned /\ Serialized /\ phase = "pixels" /\ SinkPlace
      /\ Len(ifdAt) = Count /\ Len(dataAt) = Count /\ written = Count /\ i \in 1 .. Count
  BY <1>1 DEF IInv, TypeInv, Progress
<1>3. /\ size \in Nat /\ lo \in Nat /\ EncLen[p] \in Nat \ {0}
      /\ 0 \in Tiles(images[i]) /\ images[i] \in Image
  <2>1. size \in Nat /\ EncLen[p] \in Nat \ {0}
    BY <1>2, CallerAssumption DEF TypeOK
  <2>2. lo \in Nat /\ images[i] \in Image
    BY <1>1, <1>2, AddressTypes
  <2>3. 0 \in Tiles(images[i])
    BY <1>2, ImageTypes DEF Tiles
  <2> QED BY <2>1, <2>2, <2>3
<1>4. slot = Slot(i, "count", 0) /\ slot < IfdEnd(i) /\ IfdEnd(i) <= lo /\ slot \in Nat
      /\ IfdEnd(i) \in Nat
  <2>1. /\ ifdAt[i] \in Nat /\ SlotBase(images[i], "count") \in Nat
    BY <1>2, <1>3, AddressTypes, IfdSizes
  <2>2. slot = Slot(i, "count", 0)
    BY <1>1, <2>1 DEF Slot
  <2> QED BY <1>1, <1>2, <1>3, <2>1, <2>2, SlotPlaces, Regions
<1>5. PICK h \in 0 .. EncLen[p], q \in {p, Unknown} :
        /\ buf' = PutIn(patched, lo, Block("enc", p, h), h)
        /\ size' = Extent(lo, h)
        /\ Promise(0, q)
        /\ q # Unknown => h = EncLen[p]
  <2>1. /\ \/ /\ buf' = PutIn(patched, lo, Block("enc", p, EncLen[p]), EncLen[p])
              /\ size' = Extent(lo, EncLen[p])
              /\ Promise(0, p)
           \/ /\ \E h \in 0 .. EncLen[p] - 1 :
                   /\ buf' = PutIn(patched, lo, Block("enc", p, h), h)
                   /\ size' = Extent(lo, h)
              /\ Promise(0, Unknown)
    BY <1>1 DEF WriteStrip
  <2> QED BY <1>3, <2>1
<1>6. /\ patched \in [0 .. size - 1 -> Word]
      /\ \A a \in 0 .. size - 1 : a # slot => patched[a] = buf[a]
      /\ patched[slot] = Num(EncLen[p])
  <2>1. buf \in [0 .. size - 1 -> Word] /\ slot \in 0 .. size - 1
    BY SMTT(30), <1>1, <1>2, <1>3, <1>4 DEF TypeOK
  <2> QED BY SMTT(30), <1>3, <2>1, PatchTypes
<1> HIDE DEF patched
<1>7. /\ size' \in Nat /\ size' >= size /\ size' >= lo + h /\ h \in Nat
      /\ \A a \in 0 .. size - 1 : (a < lo \/ a >= lo + h) => buf'[a] = patched[a]
      /\ \A k \in 0 .. h - 1 : buf'[lo + k] = <<"enc", p, k>>
  <2>1. lo \in 0 .. size /\ h \in Nat
    BY <1>1, <1>3
  <2>2. /\ size' \in Nat /\ size' >= size /\ size' >= lo + h
        /\ SameOutside(buf', patched, lo, h) /\ Encoded(buf', lo, p, h)
    BY <1>2, <1>5, <1>6, <2>1, BlockTypes
  <2> QED BY <2>1, <2>2 DEF SameOutside, Encoded
<1>8. TileWrite(i, 0, lo, h)
  <2>1. lo = dataAt[i] + 0 * images[i].raw /\ images[i].raw \in Nat
    BY <1>1, <1>2, <1>3, ImageTypes
  <2>2. i < Count => h <= images[i].raw
    <3>1. images \in Files /\ Count \in Nat
      BY <1>2, ImageTypes DEF TypeOK
    <3>2. i < Count => EncLen[p] <= images[i].raw
      BY <1>1, <1>2, <3>1 DEF FilesSafe, SafeFile, Count
    <3> QED BY <1>3, <1>7, <2>1, <3>2
  <2> QED BY <1>1, <1>3, <1>4, <1>6, <1>7, <2>1, <2>2 DEF TileWrite, PatchedAt
<1>9. Serialized'
  <2>1. UNCHANGED <<plan, phase>>
    BY <1>1
  <2> QED BY <1>2, <1>3, <1>8, <2>1, WriteKeepsIfds
<1>10. q # Unknown => TileAt(i, 0, lo, q)'
  <2> SUFFICES ASSUME q # Unknown PROVE TileAt(i, 0, lo, q)'
    OBVIOUS
  <2>1. q = p /\ h = EncLen[p]
    BY <1>5
  <2>2. /\ images' = images /\ ifdAt' = ifdAt /\ dataAt' = dataAt /\ written' = Count
        /\ Count' = Count
    BY <1>1, <1>2 DEF plan, Count
  <2>3. buf'[Slot(i, "count", 0)] = Num(EncLen[p])
    BY <1>1, <1>3, <1>4, <1>6, <1>7
  <2>4. buf'[Slot(i, "offset", 0)] = Num(lo)
    <3>1. /\ SlotBase(images[i], "offset") + 0 \in 0 .. IfdSize(images[i]) - 1
          /\ IfdWord(i, SlotBase(images[i], "offset") + 0) = Num(dataAt[i] + 0 * images[i].raw)
      BY <1>2, <1>3, SlotWords
    <3>2. /\ SlotBase(images[i], "offset") \in Nat /\ SlotBase(images[i], "count") \in Nat
          /\ SlotBase(images[i], "offset") + 0 < SlotBase(images[i], "count")
          /\ ifdAt[i] \in Nat /\ images[i].raw \in Nat
      BY <1>2, <1>3, AddressTypes, IfdSizes, ImageTypes
    <3>3. ~Patched(images[i], SlotBase(images[i], "offset") + 0)
      BY <1>1, <3>2 DEF Patched
    <3>4. buf'[ifdAt[i] + (SlotBase(images[i], "offset") + 0)]
            = IfdWord(i, SlotBase(images[i], "offset") + 0)
      BY <1>1, <1>2, <1>9, <2>2, <3>1, <3>3, IfdWordSame DEF Serialized, plan
    <3>5. dataAt[i] + 0 * images[i].raw = lo
      BY <1>1, <1>3, <3>2
    <3>6. Slot(i, "offset", 0) = ifdAt[i] + (SlotBase(images[i], "offset") + 0)
      BY <3>2 DEF Slot
    <3> QED BY <3>1, <3>4, <3>5, <3>6
  <2> QED
    BY <1>1, <1>3, <1>7, <1>8, <2>1, <2>2, <2>3, <2>4
    DEF TileAt, TileWrite, Holds, Slot, Kind, Length
<1>11. Kept'
  <2>1. q \in Payloads \union {Unknown} /\ ~Packed(images[i]) /\ sink'.image = i
    BY <1>1 DEF Packed
  <2>2. UNCHANGED <<plan, phase>> /\ sink # Closed /\ Promise(0, q)
    BY <1>1, <1>5
  <2> QED BY <1>1, <1>3, <1>8, <1>10, <2>1, <2>2, WriteKept
<1>12. SinkPlace'
  <2>1. sink.at \in Nat /\ dataAt' = dataAt /\ sink' = sink
    BY <1>1, <1>2 DEF TypeOK, plan
  <2> QED BY <1>2, <1>3, <1>7, <2>1 DEF SinkPlace
<1>13. Planned'
  BY <1>1, <1>2, PlannedSame DEF plan
<1> QED BY <1>9, <1>11, <1>12, <1>13
(* The sink of a packed image writes at its running offset, in the first   *)
(* and only IFD. "stage" is how far it gets.                               *)
LEMMA PackedWriteInv ==
  ASSUME IInv, FilesSafe, sink # Closed, UNCHANGED <<plan, phase>>,
         NEW i, i = sink.image, Packed(images[i]), sink.next \in Tiles(images[i]),
         NEW p \in Payloads, NEW t, t = sink.next, NEW lo, lo = sink.at,
         NEW h \in 0 .. EncLen[p], NEW stored, NEW a1, NEW a2,
         stored = PutIn(buf, lo, Block("enc", p, h), h),
         size' = Extent(lo, h),
         a1 = TileSlot(images[i], "offset", t), a2 = TileSlot(images[i], "count", t),
         \/ buf' = stored
         \/ buf' = Patch(stored, a1, lo)
         \/ buf' = Patch(Patch(stored, a1, lo), a2, EncLen[p]),
         NEW q \in {p, Unknown}, Promise(t, q),
         q # Unknown =>
           h = EncLen[p] /\ buf' = Patch(Patch(stored, a1, lo), a2, EncLen[p]),
         sink'.image = i, sink'.at \in {lo, lo + EncLen[p]},
         sink'.at # lo => h = EncLen[p],
         sink'.next \in {t, t + 1},
         sink'.next # t => q = p /\ sink'.at = lo + EncLen[p]
  PROVE  /\ (Planned /\ Serialized /\ Kept /\ SinkPlace)'
         /\ TileWrite(i, t, lo, h)
         /\ q # Unknown => TileAt(i, t, lo, q)'
<1>1. /\ TypeInv /\ TypeOK /\ Planned /\ Serialized /\ phase = "pixels" /\ SinkPlace
      /\ Len(ifdAt) = Count /\ Len(dataAt) = Count /\ written = Count
      /\ i \in 1 .. Count /\ t \in Tiles(images[i])
  BY DEF IInv, TypeInv, Progress
<1>2. /\ size \in Nat /\ lo \in 0 .. size /\ dataAt[i] <= lo /\ dataAt[i] \in Nat
      /\ EncLen[p] \in Nat \ {0} /\ h \in Nat /\ t \in Nat /\ images[i] \in Image
  <2>1. size \in Nat /\ sink.at \in Nat /\ EncLen[p] \in Nat \ {0}
    BY <1>1, CallerAssumption DEF TypeOK
  <2>2. dataAt[i] \in Nat /\ images[i] \in Image
    BY <1>1, AddressTypes
  <2>3. t \in Nat
    BY <1>1, ImageTypes DEF Tiles
  <2>4. dataAt[i] <= sink.at /\ sink.at <= size
    BY <1>1 DEF SinkPlace
  <2> QED BY <2>1, <2>2, <2>3, <2>4
<1>3. /\ images[i].compressed /\ images[i].tiled /\ i = 1 /\ ifdAt[i] = HeaderSize
      /\ i = Count
  <2>1. images[i].compressed /\ images[i].tiled
    BY DEF Packed
  <2>2. i = 1 /\ i = Count
    BY <1>1, <2>1 DEF FilesSafe, SafeFile, Count, TypeOK
  <2> QED BY <1>1, <2>1, <2>2 DEF Planned
<1>4. /\ a1 = Slot(i, "offset", t) /\ a2 = Slot(i, "count", t) /\ a1 # a2
      /\ a1 \in Nat /\ a2 \in Nat /\ a1 < lo /\ a2 < lo
  <2>1. a1 = Slot(i, "offset", t) /\ a2 = Slot(i, "count", t)
    BY <1>3 DEF TileSlot, Slot
  <2>2. /\ a1 \in Nat /\ a2 \in Nat /\ a1 # a2 /\ a1 < IfdEnd(i) /\ a2 < IfdEnd(i)
    BY <1>1, <2>1, SlotPlaces
  <2>3. IfdEnd(i) \in Nat /\ IfdEnd(i) <= dataAt[i]
    BY <1>1, Regions
  <2> QED BY <1>2, <2>1, <2>2, <2>3
<1>5. /\ size' \in Nat /\ size' >= size /\ size' >= lo + h
      /\ stored \in [0 .. size' - 1 -> Word]
      /\ \A a \in 0 .. size - 1 : (a < lo \/ a >= lo + h) => stored[a] = buf[a]
      /\ \A k \in 0 .. h - 1 : stored[lo + k] = <<"enc", p, k>>
  <2>1. buf \in [0 .. size - 1 -> Word]
    BY <1>1 DEF TypeOK
  <2>2. /\ size' \in Nat /\ size' >= size /\ size' >= lo + h
        /\ stored \in [0 .. size' - 1 -> Word]
        /\ SameOutside(stored, buf, lo, h) /\ Encoded(stored, lo, p, h)
    BY <1>1, <1>2, <2>1, BlockTypes
  <2> QED BY <2>2 DEF SameOutside, Encoded
<1>6. /\ \A a \in 0 .. size' - 1 : a # a1 /\ a # a2 => buf'[a] = stored[a]
      /\ buf' = Patch(Patch(stored, a1, lo), a2, EncLen[p]) =>
           buf'[a1] = Num(lo) /\ buf'[a2] = Num(EncLen[p])
  <2> PICK end \in {size'} : TRUE
    OBVIOUS
  <2> DEFINE once == Patch(stored, a1, lo)
             twice == Patch(once, a2, EncLen[p])
  <2>1. /\ a1 \in 0 .. end - 1 /\ a2 \in 0 .. end - 1 /\ lo \in Nat
        /\ end \in Nat /\ end = size' /\ stored \in [0 .. end - 1 -> Word]
    <3>1. end \in Nat /\ end = size' /\ stored \in [0 .. end - 1 -> Word]
      BY <1>5
    <3>2. lo \in Nat /\ lo <= end
      BY <1>2, <1>5
    <3>3. \A a \in Nat : a < lo => a \in 0 .. end - 1
      BY <3>1, <3>2
    <3> QED BY <1>4, <3>1, <3>2, <3>3
  <2>2. /\ once \in [0 .. end - 1 -> Word] /\ once[a1] = Num(lo)
        /\ \A a \in 0 .. end - 1 : a # a1 => once[a] = stored[a]
    BY SMTT(30), <2>1, PatchTypes
  <2> HIDE DEF once
  <2>3. /\ twice \in [0 .. end - 1 -> Word] /\ twice[a2] = Num(EncLen[p])
        /\ \A a \in 0 .. end - 1 : a # a2 => twice[a] = once[a]
    <3>1. EncLen[p] \in Nat /\ end \in Nat /\ a2 \in 0 .. end - 1
      BY <1>2, <2>1
    <3>2. once \in [0 .. end - 1 -> Word]
      BY <2>2
    <3> QED BY <3>1, <3>2, PatchTypes
  <2>4. buf' = stored \/ buf' = once \/ buf' = twice
    BY DEF once
  <2> HIDE DEF twice
  <2>5. \A a \in 0 .. size' - 1 : a # a1 /\ a # a2 => buf'[a] = stored[a]
    BY <2>1, <2>2, <2>3, <2>4
  <2>6. twice[a1] = Num(lo)
    BY <1>4, <2>1, <2>2, <2>3
  <2> QED BY <2>3, <2>5, <2>6 DEF twice, once
<1>7. TileWrite(i, t, lo, h)
  <2>1. \A a \in 0 .. size - 1 :
          (a < lo \/ a >= lo + h) /\ ~PatchedAt(i, t, a) => buf'[a] = buf[a]
    <3>1. \A a \in 0 .. size - 1 : a \in 0 .. size' - 1
      BY <1>2, <1>5
    <3>2. \A a : ~PatchedAt(i, t, a) => a # a1 /\ a # a2
      BY <1>3, <1>4 DEF PatchedAt
    <3> QED BY <1>5, <1>6, <3>1, <3>2
  <2> QED BY <1>2, <1>3, <1>5, <2>1 DEF TileWrite, Packed
<1>8. Serialized'
  BY <1>1, <1>7, WriteKeepsIfds
<1>9. q # Unknown => TileAt(i, t, lo, q)'
  <2> SUFFICES ASSUME q # Unknown PROVE TileAt(i, t, lo, q)'
    OBVIOUS
  <2>1. q = p /\ h = EncLen[p] /\ buf'[a1] = Num(lo) /\ buf'[a2] = Num(EncLen[p])
    BY <1>6
  <2>2. images' = images /\ ifdAt' = ifdAt /\ dataAt' = dataAt
    BY DEF plan
  <2>3. ASSUME NEW k \in 0 .. h - 1 PROVE buf'[lo + k] = <<"enc", p, k>>
    <3>2. k \in Nat /\ k < h /\ lo \in Nat
      BY <1>2
    <3>4. size' \in Nat /\ size' >= lo + h /\ h \in Nat
      BY <1>2, <1>5
    <3>3. lo + k \in 0 .. size' - 1
      BY <3>2, <3>4
    <3>1. lo + k # a1 /\ lo + k # a2
      BY <1>4, <3>2
    <3> QED BY <1>5, <1>6, <3>1, <3>3
  <2> QED
    BY <1>2, <1>3, <1>4, <1>5, <2>1, <2>2, <2>3 DEF TileAt, Holds, Slot, Kind, Length
<1>10. Kept'
  <2>1. q \in Payloads \union {Unknown} /\ sink.at <= sink'.at /\ sink'.at \in Nat
    BY <1>2
  <2>2. \/ sink'.next = sink.next
        \/ sink'.next = sink.next + 1 /\ (q # Unknown => lo + EncLen[q] <= sink'.at)
    BY <1>2
  <2> QED BY <1>1, <1>7, <1>9, <2>1, <2>2, WriteKept
<1>11. SinkPlace'
  <2>1. dataAt' = dataAt
    BY DEF plan
  <2> QED BY <1>2, <1>5, <2>1 DEF SinkPlace
<1>12. Planned'
  BY <1>1, PlannedSame DEF plan
<1> QED BY <1>7, <1>8, <1>9, <1>10, <1>11, <1>12
(* The tiles before the next one of a packed image's sink were written by  *)
(* it, each behind the one before.                                         *)
Behind ==
  sink # Closed /\ Packed(images[sink.image]) =>
    \A t \in 0 .. sink.next - 1 :
      /\ t \in Tiles(images[sink.image]) /\ Acked(sink.image, t)
      /\ t > 0 => OffsetOf(sink.image, t)
                    >= OffsetOf(sink.image, t - 1) + EncLen[acked[sink.image][t - 1]]

(* In which case a write of the next tile leaves their places alone. *)
LEMMA EarlierTiles ==
  ASSUME IInv, FilesSafe, sink # Closed, UNCHANGED <<plan, phase>>,
         NEW i, i = sink.image, Packed(images[i]), sink.next \in Tiles(images[i]),
         NEW n, TileWrite(i, sink.next, sink.at, n),
         NEW q \in Payloads \union {Unknown}, Promise(sink.next, q),
         NEW u \in Tiles(images[i]), u < sink.next, Acked(i, u)
  PROVE  /\ acked'[i][u] = acked[i][u]
         /\ \E off \in Nat : /\ OffsetOf(i, u) = off /\ OffsetOf(i, u)' = off
                             /\ off + EncLen[acked[i][u]] <= sink.at
<1>1. /\ TypeInv /\ TypeOK /\ Planned /\ Kept /\ phase = "pixels" /\ i \in 1 .. Count
  BY DEF IInv, TypeInv, Progress
<1>2. /\ DOMAIN acked = 1 .. Count
      /\ acked[i] \in [Tiles(images[i]) -> Payloads \union {Unknown}]
      /\ sink.next \in Nat /\ u \in Nat
  BY <1>1, ImageTypes DEF TypeOK, Tiles
<1>3. acked'[i][u] = acked[i][u]
  BY <1>1, <1>2 DEF Promise
<1>4. acked[i][u] \in Payloads
  BY <1>2 DEF Acked
<1>5. PICK off \in Nat : /\ TileAt(i, u, off, acked[i][u])
                         /\ off + EncLen[acked[i][u]] <= sink.at
  BY <1>1, <1>2 DEF Kept
<1>6. PICK p \in Payloads, at \in {sink.at}, t \in {sink.next} : p = acked[i][u]
  BY <1>4
<1>7. TileAt(i, u, off, p)'
  <2>1. TileAt(i, u, off, p) /\ TileWrite(i, t, at, n) /\ t \in Tiles(images[i])
        /\ u # t /\ off + EncLen[p] <= at
    BY <1>2, <1>5, <1>6
  <2> QED BY <1>1, <2>1, WriteKeepsTile
<1>8. OffsetOf(i, u) = off /\ OffsetOf(i, u)' = off
  BY <1>5, <1>7 DEF TileAt, OffsetOf, Num
<1> QED BY <1>3, <1>5, <1>8

LEMMA WriteTileInv ==
  ASSUME IInv, Behind, FilesSafe, NEW p \in Payloads, WriteTile(p)
  PROVE  (Planned /\ Serialized /\ Kept /\ SinkPlace /\ Behind)'
<1> PICK i \in {sink.image}, t \in {sink.next}, lo \in {sink.at} : TRUE
  OBVIOUS
<1> PICK a1 \in {TileSlot(images[i], "offset", t)},
         a2 \in {TileSlot(images[i], "count", t)},
         stored \in {PutIn(buf, lo, Block("enc", p, EncLen[p]), EncLen[p])} : TRUE
  OBVIOUS
<1>1. /\ sink # Closed /\ i = sink.image /\ t = sink.next /\ lo = sink.at
      /\ Packed(images[i]) /\ t \in Tiles(images[i])
      /\ UNCHANGED <<plan, phase>> /\ Promise(t, p)
      /\ size' = Extent(lo, EncLen[p])
      /\ buf' = Patch(Patch(stored, a1, lo), a2, EncLen[p])
      /\ sink' = [Advance(EncLen[p]) EXCEPT !.next = t + 1]
  BY DEF WriteTile, Put
<1>2. /\ TypeInv /\ TypeOK /\ i \in 1 .. Count /\ phase = "pixels"
      /\ sink \in [image: 0 .. Count, next: Nat, at: Nat]
      /\ EncLen[p] \in Nat \ {0} /\ t \in Nat /\ lo \in Nat
  BY <1>1, CallerAssumption DEF IInv, TypeInv, Progress, TypeOK
<1>3. sink' = [image |-> i, next |-> t + 1, at |-> lo + EncLen[p]]
  BY <1>1, <1>2 DEF Advance
<1>4. /\ p # Unknown /\ EncLen[p] \in 0 .. EncLen[p] /\ p \in {p, Unknown}
      /\ sink'.image = i /\ sink'.at = lo + EncLen[p] /\ sink'.next = t + 1
  BY <1>2, <1>3, CallerAssumption
<1>5. /\ (Planned /\ Serialized /\ Kept /\ SinkPlace)'
      /\ TileWrite(i, t, lo, EncLen[p]) /\ TileAt(i, t, lo, p)'
  <2> PICK n \in {EncLen[p]} : TRUE
    OBVIOUS
  <2>1. /\ n \in 0 .. EncLen[p] /\ n = EncLen[p] /\ size' = Extent(lo, n)
        /\ stored = PutIn(buf, lo, Block("enc", p, n), n)
        /\ a1 = TileSlot(images[i], "offset", t) /\ a2 = TileSlot(images[i], "count", t)
    BY <1>1, <1>4
  <2>2. sink'.at \in {lo, lo + EncLen[p]} /\ sink'.next \in {t, t + 1}
    BY <1>4
  <2>3. /\ (Planned /\ Serialized /\ Kept /\ SinkPlace)'
        /\ TileWrite(i, t, lo, n)
        /\ p # Unknown => TileAt(i, t, lo, p)'
    BY <1>1, <1>4, <2>1, <2>2, PackedWriteInv
  <2> QED BY <1>4, <2>1, <2>3
<1>6. Behind'
  <2>1. images' = images /\ DOMAIN acked = 1 .. Count
        /\ acked[i] \in [Tiles(images[i]) -> Payloads \union {Unknown}]
    BY <1>1, <1>2 DEF plan, TypeOK
  <2>2. acked'[i][t] = p
    BY <1>1, <1>2, <2>1 DEF Promise
  <2>3. OffsetOf(i, t)' = lo
    BY <1>5 DEF TileAt, OffsetOf, Num
  <2>4. ASSUME NEW u \in 0 .. t - 1
        PROVE  /\ u \in Tiles(images[i]) /\ acked'[i][u] = acked[i][u] /\ Acked(i, u)
               /\ OffsetOf(i, u)' = OffsetOf(i, u)
               /\ OffsetOf(i, u) + EncLen[acked[i][u]] <= lo
    <3>1. u \in Tiles(images[i]) /\ Acked(i, u) /\ u < sink.next
      BY <1>1, <1>2 DEF Behind
    <3>2. TileWrite(i, sink.next, sink.at, EncLen[p]) /\ Promise(sink.next, p)
      BY <1>1, <1>5
    <3>3. /\ acked'[i][u] = acked[i][u]
          /\ \E off \in Nat : /\ OffsetOf(i, u) = off /\ OffsetOf(i, u)' = off
                              /\ off + EncLen[acked[i][u]] <= sink.at
      BY <1>1, <3>1, <3>2, EarlierTiles
    <3> QED BY <1>1, <3>1, <3>3
  <2>5. ASSUME NEW u \in 0 .. t
        PROVE  /\ u \in Tiles(images[i]) /\ acked'[i][u] # Unknown
               /\ u > 0 => OffsetOf(i, u)' >= OffsetOf(i, u - 1)' + EncLen[acked'[i][u - 1]]
    <3>1. CASE u = t
      <4>1. t > 0 => t - 1 \in 0 .. t - 1
        BY <1>2
      <4> QED BY <1>1, <1>4, <2>2, <2>3, <2>4, <3>1, <4>1
    <3>2. CASE u \in 0 .. t - 1
      <4>1. u > 0 => OffsetOf(i, u) >= OffsetOf(i, u - 1) + EncLen[acked[i][u - 1]]
        BY <1>1, <3>2 DEF Behind
      <4>2. u > 0 => u - 1 \in 0 .. t - 1
        BY <1>2, <3>2
      <4> QED BY <2>4, <3>2, <4>1, <4>2 DEF Acked
    <3> QED BY <1>2, <3>1, <3>2
  <2>6. \A u \in 0 .. sink'.next - 1 : u \in 0 .. t
    BY <1>2, <1>4
  <2> QED BY <1>4, <2>1, <2>5, <2>6 DEF Behind, Acked, OffsetOf, Slot
<1> QED BY <1>5, <1>6
LEMMA WriteTileFailsInv ==
  ASSUME IInv, Behind, FilesSafe, NEW p \in Payloads,
         NEW step \in {"data", "offset", "count", "seek"}, WriteTileFails(p, step)
  PROVE  (Planned /\ Serialized /\ Kept /\ SinkPlace /\ Behind)'
<1> PICK i \in {sink.image}, t \in {sink.next}, lo \in {sink.at} : TRUE
  OBVIOUS
<1> PICK a1 \in {TileSlot(images[i], "offset", t)},
         a2 \in {TileSlot(images[i], "count", t)} : TRUE
  OBVIOUS
<1>1. /\ sink # Closed /\ i = sink.image /\ t = sink.next /\ lo = sink.at
      /\ a1 = TileSlot(images[i], "offset", t) /\ a2 = TileSlot(images[i], "count", t)
      /\ Packed(images[i]) /\ t \in Tiles(images[i])
      /\ UNCHANGED <<plan, phase>> /\ Promise(t, Unknown)
  BY DEF WriteTileFails
<1>2. /\ TypeInv /\ TypeOK /\ i \in 1 .. Count /\ phase = "pixels"
      /\ sink \in [image: 0 .. Count, next: Nat, at: Nat]
      /\ EncLen[p] \in Nat \ {0} /\ t \in Nat /\ lo \in Nat
  BY <1>1, CallerAssumption DEF IInv, TypeInv, Progress, TypeOK
<1>3. \E h \in 0 .. EncLen[p] : \E stored :
        /\ stored = PutIn(buf, lo, Block("enc", p, h), h) /\ size' = Extent(lo, h)
        /\ \/ buf' = stored
           \/ buf' = Patch(stored, a1, lo)
           \/ buf' = Patch(Patch(stored, a1, lo), a2, EncLen[p])
        /\ sink' = sink \/ (sink' = Advance(EncLen[p]) /\ h = EncLen[p])
  <2>1. CASE step = "data"
    <3>1. \A h \in 0 .. EncLen[p] - 1 : h \in 0 .. EncLen[p]
      BY <1>2
    <3> QED BY <1>1, <2>1, <3>1 DEF WriteTileFails, Put
  <2>2. CASE step # "data"
    <3>1. EncLen[p] \in 0 .. EncLen[p]
      BY <1>2
    <3>2. /\ buf' = CASE step = "offset" -> Put(lo, Block("enc", p, EncLen[p]), EncLen[p])
                      [] step = "count"  -> Patch(Put(lo, Block("enc", p, EncLen[p]), EncLen[p]), a1, lo)
                      [] step = "seek"   ->
                           Patch(Patch(Put(lo, Block("enc", p, EncLen[p]), EncLen[p]), a1, lo), a2, EncLen[p])
          /\ size' = Extent(lo, EncLen[p])
          /\ sink' = Advance(EncLen[p])
      BY <1>1, <2>2 DEF WriteTileFails
    <3>3. \/ buf' = Put(lo, Block("enc", p, EncLen[p]), EncLen[p])
          \/ buf' = Patch(Put(lo, Block("enc", p, EncLen[p]), EncLen[p]), a1, lo)
          \/ buf' = Patch(Patch(Put(lo, Block("enc", p, EncLen[p]), EncLen[p]), a1, lo), a2, EncLen[p])
      BY <2>2, <3>2
    <3> QED BY <3>1, <3>2, <3>3 DEF Put
  <2> QED BY <2>1, <2>2
<1>4. PICK h, stored :
        /\ h \in 0 .. EncLen[p]
        /\ stored = PutIn(buf, lo, Block("enc", p, h), h) /\ size' = Extent(lo, h)
        /\ \/ buf' = stored
           \/ buf' = Patch(stored, a1, lo)
           \/ buf' = Patch(Patch(stored, a1, lo), a2, EncLen[p])
        /\ sink' = sink \/ (sink' = Advance(EncLen[p]) /\ h = EncLen[p])
  BY <1>3
<1>5. /\ sink'.image = i /\ sink'.next = t
      /\ sink'.at \in {lo, lo + EncLen[p]} /\ (sink'.at # lo => h = EncLen[p])
  BY <1>1, <1>2, <1>4 DEF Advance
<1>6. /\ (Planned /\ Serialized /\ Kept /\ SinkPlace)'
      /\ TileWrite(i, t, lo, h)
  <2> PICK q \in {Unknown} : TRUE
    OBVIOUS
  <2>1. q = Unknown /\ q \in {p, Unknown} /\ Promise(t, q) /\ sink'.next \in {t, t + 1}
    BY <1>1, <1>5
  <2> QED BY <1>1, <1>4, <1>5, <2>1, PackedWriteInv
<1>7. Behind'
  <2>1. images' = images
    BY <1>1 DEF plan
  <2>2. ASSUME NEW u \in 0 .. t - 1
        PROVE  /\ u \in Tiles(images[i]) /\ acked'[i][u] = acked[i][u] /\ Acked(i, u)
               /\ OffsetOf(i, u)' = OffsetOf(i, u)
    <3>1. u \in Tiles(images[i]) /\ Acked(i, u) /\ u < sink.next
      BY <1>1, <1>2 DEF Behind
    <3>2. TileWrite(i, sink.next, sink.at, h) /\ Promise(sink.next, Unknown)
      BY <1>1, <1>6
    <3>3. /\ acked'[i][u] = acked[i][u]
          /\ \E off \in Nat : /\ OffsetOf(i, u) = off /\ OffsetOf(i, u)' = off
                              /\ off + EncLen[acked[i][u]] <= sink.at
      <4>1. PICK q \in {Unknown} : TRUE
        OBVIOUS
      <4>2. q \in Payloads \union {Unknown} /\ Promise(sink.next, q)
        BY <3>2
      <4> QED BY <1>1, <3>1, <3>2, <4>2, EarlierTiles
    <3> QED BY <3>1, <3>3
  <2>3. ASSUME NEW u \in 0 .. t - 1, u > 0
        PROVE  OffsetOf(i, u) >= OffsetOf(i, u - 1) + EncLen[acked[i][u - 1]]
    BY <1>1, <2>3 DEF Behind
  <2>4. \A u \in 0 .. t - 1 : u > 0 => u - 1 \in 0 .. t - 1
    BY <1>2
  <2>5. ASSUME NEW u \in 0 .. t - 1
        PROVE  /\ u \in Tiles(images[i]) /\ acked'[i][u] # Unknown
               /\ u > 0 => OffsetOf(i, u)' >= OffsetOf(i, u - 1)' + EncLen[acked'[i][u - 1]]
    BY <2>2, <2>3, <2>4 DEF Acked
  <2> QED BY <1>5, <2>1, <2>5 DEF Behind, Acked, OffsetOf, Slot
<1> QED BY <1>6, <1>7
LEMMA BehindNext ==
  ASSUME IInv, Behind, FilesSafe, [Next]_vars
  PROVE  (Planned /\ Serialized /\ Kept /\ SinkPlace /\ Behind)'
<1> DEFINE Goal == (Planned /\ Serialized /\ Kept /\ SinkPlace /\ Behind)'
<1>1. TypeInv /\ TypeOK /\ Progress
  BY DEF IInv, TypeInv
<1>2. ASSUME sink' = Closed PROVE Behind'
  BY <1>2 DEF Behind
<1>3. ASSUME PlanIfd \/ PlanData \/ Serialize PROVE sink' = Closed
  BY <1>1, <1>3 DEF Progress, PlanIfd, PlanData, Serialize
<1>4. CASE PlanIfd
  BY <1>2, <1>3, <1>4, PlanIfdInv
<1>5. CASE PlanData
  BY <1>2, <1>3, <1>5, PlanDataInv
<1>6. CASE Serialize
  BY <1>2, <1>3, <1>6, SerializeInv
<1>7. ASSUME NEW i \in 1 .. Count, OpenSink(i) PROVE Goal
  <2>1. sink'.next = 0
    BY <1>7 DEF OpenSink
  <2>2. Behind'
    BY <2>1 DEF Behind
  <2> QED BY <1>7, <2>2, OpenSinkInv
<1>8. CASE DropSink
  BY <1>2, <1>8, DropSinkInv DEF DropSink
<1>9. ASSUME NEW p \in Payloads, NEW i \in 1 .. Count, NEW t \in Tiles(images[i]),
             sink.image = i, WriteRaw(t, p)
      PROVE  Goal
  <2>1. ~Packed(images'[sink'.image])
    BY <1>9 DEF WriteRaw, plan, Packed
  <2> QED BY <1>9, <2>1, WriteRawInv DEF Behind
<1>10. ASSUME NEW p \in Payloads, WriteStrip(p) PROVE Goal
  <2>1. ~Packed(images'[sink'.image])
    BY <1>10 DEF WriteStrip, plan, Packed
  <2> QED BY <1>10, <2>1, WriteStripInv DEF Behind
<1>11. ASSUME NEW p \in Payloads, WriteTile(p) PROVE Goal
  BY <1>11, WriteTileInv
<1>12. ASSUME NEW p \in Payloads, NEW step \in {"data", "offset", "count", "seek"},
              WriteTileFails(p, step)
       PROVE  Goal
  BY <1>12, WriteTileFailsInv
<1>13. CASE UNCHANGED vars
  <2>1. /\ UNCHANGED <<images, viaList, ifdAt, dataAt, cursor, written>>
        /\ UNCHANGED <<phase, buf, size, sink, acked, faults>>
    BY <1>13 DEF vars, plan
  <2>2. Planned' /\ Serialized' /\ SinkPlace'
    BY <2>1, PlannedSame, IfdWordSame DEF IInv, Serialized, SinkPlace, IfdEnd
  <2>3. Kept'
    <3>1. \A j, t, off, p : TileAt(j, t, off, p)' = TileAt(j, t, off, p)
      BY <2>1 DEF TileAt, Slot, Holds
    <3> QED BY <2>1, <3>1 DEF IInv, Kept, Acked, Count
  <2>4. Behind'
    BY <2>1 DEF Behind, Acked, OffsetOf, Slot
  <2> QED BY <2>2, <2>3, <2>4
<1> QED
  BY <1>4, <1>5, <1>6, <1>7, <1>8, <1>9, <1>10, <1>11, <1>12, <1>13 DEF Next

(* The IFDs follow the header, and the data regions the last IFD, one      *)
(* after the other without a gap.                                          *)
Tight ==
  /\ Len(ifdAt) > 0 => ifdAt[1] = HeaderSize
  /\ \A i \in 2 .. Len(ifdAt) : ifdAt[i] = IfdEnd(i - 1)
  /\ phase = "ifds" =>
       cursor = IF Len(ifdAt) = 0 THEN HeaderSize ELSE IfdEnd(Len(ifdAt))
  /\ phase = "data" =>
       cursor = IF Len(dataAt) = 0 THEN IfdEnd(Count) ELSE DataEnd(Len(dataAt))
  /\ Len(dataAt) > 0 => dataAt[1] = IfdEnd(Count)
  /\ \A i \in 2 .. Len(dataAt) : dataAt[i] = DataEnd(i - 1)

LEMMA TightNext == TypeInv /\ Tight /\ [Next]_vars => Tight'
<1> SUFFICES ASSUME TypeInv, Tight, [Next]_vars PROVE Tight'
  OBVIOUS
<1>1. TypeOK /\ Progress /\ Count \in Nat \ {0}
  BY ImageTypes DEF TypeInv
<1>2. CASE PlanIfd
  <2>1. /\ phase = "ifds" /\ Len(dataAt) = 0 /\ UNCHANGED <<images, dataAt>>
        /\ \/ phase' = "rejected"
           \/ /\ ifdAt' = Append(ifdAt, cursor)
              /\ cursor' = cursor + IfdSize(images[Len(ifdAt) + 1])
              /\ phase' = IF Len(ifdAt) + 1 = Count THEN "data" ELSE "ifds"
    BY <1>1, <1>2 DEF PlanIfd, Progress
  <2>2. CASE phase' = "rejected"
    <3>1. UNCHANGED <<ifdAt, cursor>> /\ Count' = Count
      BY <1>2, <2>1, <2>2 DEF PlanIfd, Count
    <3> QED BY <2>1, <2>2, <3>1 DEF Tight, IfdEnd
  <2>3. CASE phase' # "rejected"
    <3> PICK n \in {Len(ifdAt) + 1} : TRUE
      OBVIOUS
    <3>1. /\ ifdAt' = Append(ifdAt, cursor) /\ n \in Nat \ {0} /\ Count' = Count
          /\ cursor' = cursor + IfdSize(images[n])
          /\ phase' = IF n = Count THEN "data" ELSE "ifds"
      BY <1>1, <2>1, <2>3 DEF Count, TypeOK
    <3>2. /\ Len(ifdAt) = n - 1 /\ Len(ifdAt') = n /\ ifdAt'[n] = cursor
          /\ \A i \in 1 .. n - 1 : ifdAt'[i] = ifdAt[i]
      BY <1>1, <3>1 DEF TypeOK
    <3>3. cursor' = IfdEnd(n)' /\ \A i \in 1 .. n - 1 : IfdEnd(i)' = IfdEnd(i)
      BY <2>1, <3>1, <3>2 DEF IfdEnd
    <3>4. cursor = IF n = 1 THEN HeaderSize ELSE IfdEnd(n - 1)
      BY <2>1, <3>1, <3>2 DEF Tight
    <3>5. ifdAt'[1] = HeaderSize
      BY <3>1, <3>2, <3>4 DEF Tight
    <3>6. ASSUME NEW i \in 2 .. n PROVE ifdAt'[i] = IfdEnd(i - 1)'
      <4>1. i - 1 \in 1 .. n - 1
        BY <3>1
      <4>2. CASE i = n
        BY <3>1, <3>2, <3>3, <3>4, <4>1, <4>2
      <4>3. CASE i \in 2 .. n - 1
        <5>1. i \in 1 .. n - 1 /\ i \in 2 .. Len(ifdAt)
          BY <3>1, <3>2, <4>3
        <5> QED BY <3>2, <3>3, <4>1, <5>1 DEF Tight
      <4> QED BY <3>1, <4>2, <4>3
    <3>7. phase' = "data" => cursor' = IfdEnd(Count)'
      BY <3>1, <3>3
    <3> QED BY <2>1, <3>1, <3>2, <3>3, <3>5, <3>6, <3>7 DEF Tight
  <2> QED BY <2>2, <2>3
<1>3. CASE PlanData
  <2>1. /\ phase = "data" /\ phase' # "ifds" /\ UNCHANGED <<images, ifdAt>> /\ Count' = Count
        /\ \A i : IfdEnd(i)' = IfdEnd(i)
        /\ IfdEnd(Count)' = IfdEnd(Count)
        /\ \/ phase' = "rejected" /\ UNCHANGED <<dataAt, cursor>>
           \/ /\ dataAt' = Append(dataAt, cursor)
              /\ cursor' = cursor + Span(images[Len(dataAt) + 1])
    BY <1>3 DEF PlanData, Count, IfdEnd
  <2>2. CASE phase' = "rejected" /\ UNCHANGED <<dataAt, cursor>>
    BY <2>1, <2>2 DEF Tight, DataEnd
  <2>3. CASE /\ dataAt' = Append(dataAt, cursor)
             /\ cursor' = cursor + Span(images[Len(dataAt) + 1])
    <3> PICK n \in {Len(dataAt) + 1} : TRUE
      OBVIOUS
    <3>1. /\ n \in Nat \ {0} /\ Len(dataAt) = n - 1 /\ Len(dataAt') = n /\ dataAt'[n] = cursor
          /\ \A i \in 1 .. n - 1 : dataAt'[i] = dataAt[i]
      BY <1>1, <2>3 DEF TypeOK
    <3>2. cursor' = DataEnd(n)'
      BY <2>1, <2>3, <3>1 DEF DataEnd
    <3>3. \A i \in 1 .. n - 1 : DataEnd(i)' = DataEnd(i)
      BY <2>1, <3>1 DEF DataEnd
    <3>4. cursor = IF n = 1 THEN IfdEnd(Count) ELSE DataEnd(n - 1)
      BY <2>1, <3>1 DEF Tight
    <3>5. dataAt'[1] = IfdEnd(Count)'
      BY <2>1, <3>1, <3>4 DEF Tight
    <3>6. ASSUME NEW i \in 2 .. n PROVE dataAt'[i] = DataEnd(i - 1)'
      <4>1. i - 1 \in 1 .. n - 1
        BY <3>1
      <4>2. CASE i = n
        BY <3>1, <3>3, <3>4, <4>1, <4>2
      <4>3. CASE i \in 2 .. n - 1
        <5>1. i \in 1 .. n - 1 /\ i \in 2 .. Len(dataAt)
          BY <3>1, <4>3
        <5> QED BY <3>1, <3>3, <4>1, <5>1 DEF Tight
      <4> QED BY <3>1, <4>2, <4>3
    <3>7. /\ Len(ifdAt') > 0 => ifdAt'[1] = HeaderSize
          /\ \A i \in 2 .. Len(ifdAt') : ifdAt'[i] = IfdEnd(i - 1)'
      BY <2>1 DEF Tight
    <3> QED BY <2>1, <3>1, <3>2, <3>5, <3>6, <3>7 DEF Tight
  <2> QED BY <2>1, <2>2, <2>3
<1>4. ASSUME UNCHANGED <<images, ifdAt, dataAt, cursor>>,
             phase' \in {"ifds", "data"} => phase' = phase
      PROVE  Tight'
  <2>1. /\ images' = images /\ ifdAt' = ifdAt /\ dataAt' = dataAt /\ cursor' = cursor
        /\ Count' = Count /\ \A i : IfdEnd(i)' = IfdEnd(i) /\ DataEnd(i)' = DataEnd(i)
    BY <1>4 DEF IfdEnd, DataEnd, Count
  <2>2. (phase' = "ifds" => phase = "ifds") /\ (phase' = "data" => phase = "data")
    BY <1>4
  <2> QED BY <2>1, <2>2 DEF Tight
<1>5. ASSUME NEW i \in 1 .. Count, OpenSink(i) PROVE Tight'
  BY <1>4, <1>5 DEF OpenSink, plan
<1>6. ASSUME NEW p \in Payloads, NEW t, WriteRaw(t, p) PROVE Tight'
  BY <1>4, <1>6 DEF WriteRaw, plan
<1>7. ASSUME NEW p \in Payloads, WriteStrip(p) \/ WriteTile(p) PROVE Tight'
  BY <1>4, <1>7 DEF WriteStrip, WriteTile, plan
<1>8. ASSUME NEW p \in Payloads, NEW step, WriteTileFails(p, step) PROVE Tight'
  BY <1>4, <1>8 DEF WriteTileFails, plan
<1>9. CASE Serialize
  BY <1>4, <1>9 DEF Serialize
<1>10. CASE DropSink
  BY <1>4, <1>10 DEF DropSink, plan
<1>11. CASE UNCHANGED vars
  BY <1>4, <1>11 DEF vars, plan
<1> QED
  BY <1>2, <1>3, <1>5, <1>6, <1>7, <1>8, <1>9, <1>10, <1>11 DEF Next

(* The inductive invariant of the writer, for files the layout is safe for.*)
Inv == IInv /\ Behind

LEMMA Invariance == ASSUME FilesSafe PROVE Spec => []Inv
<1>1. Init => Inv
  <2> SUFFICES ASSUME Init PROVE Inv
    OBVIOUS
  <2>1. phase = "ifds" /\ Len(dataAt) = 0 /\ sink = Closed
    BY DEF Init
  <2> QED BY <2>1, IInvInit DEF Inv, Behind
<1>2. Inv /\ [Next]_vars => Inv'
  BY BehindNext, TypeInvNext DEF Inv, IInv
<1> QED BY <1>1, <1>2, PTL DEF Spec
------------------------------------------------------------------------------
(* What the invariant says of the file.                                    *)

(* The words of a tile tell which payload it is. *)
LEMMA OnePayload ==
  ASSUME TypeOK, NEW i \in 1 .. Count, NEW t, NEW p \in Payloads, NEW q \in Payloads,
         Stored(i, t, p), Stored(i, t, q)
  PROVE  p = q
<1> DEFINE m == images[i]
           off == buf[Slot(i, "offset", t)][2]
<1>1. m.raw \in Nat \ {0} /\ EncLen[p] \in Nat \ {0} /\ EncLen[q] \in Nat \ {0}
  BY ImageTypes, CallerAssumption
<1>2. Holds(off, Kind(m), p, Length(m, p)) /\ Holds(off, Kind(m), q, Length(m, q))
  BY DEF Stored, Kind, Length
<1>3. 0 \in 0 .. Length(m, p) - 1 /\ 0 \in 0 .. Length(m, q) - 1
  BY <1>1 DEF Length
<1>4. buf[off + 0] = <<Kind(m), p, 0>> /\ buf[off + 0] = <<Kind(m), q, 0>>
  BY <1>2, <1>3 DEF Holds
<1> QED BY <1>4

LEMMA TileReads ==
  ASSUME TypeOK, NEW i \in 1 .. Count, NEW t, NEW off, NEW p \in Payloads,
         TileAt(i, t, off, p)
  PROVE  ReadTile(i, t) = p
<1>1. Stored(i, t, p)
  BY DEF TileAt, Stored, Num, Kind, Length
<1>2. \A q \in Payloads : Stored(i, t, q) => q = p
  BY <1>1, OnePayload
<1> QED BY <1>1, <1>2 DEF ReadTile

LEMMA RoundTripInv == Inv => RoundTrip
<1> SUFFICES ASSUME Inv, NEW i \in 1 .. Count, NEW t \in Tiles(images[i]), Acked(i, t)
             PROVE  ReadTile(i, t) = acked[i][t]
  BY DEF RoundTrip
<1>1. TypeOK /\ Kept
  BY DEF Inv, IInv, TypeInv
<1>2. acked[i][t] \in Payloads
  BY <1>1 DEF TypeOK, Acked
<1>3. PICK off \in Nat : TileAt(i, t, off, acked[i][t])
  BY <1>1 DEF Kept
<1> QED BY <1>1, <1>2, <1>3, TileReads

(* Whatever write_tile returned Ok for reads back as written: for every    *)
(* list of images in which one that its encoder may expand comes last and  *)
(* a tiled and compressed one is alone, with any number of failed writes.  *)
THEOREM RoundTripHolds == ASSUME FilesSafe PROVE Spec => []RoundTrip
BY Invariance, RoundTripInv, PTL

LEMMA ChainInv == Inv => ChainIntact
<1> SUFFICES ASSUME Inv, phase = "pixels" PROVE ChainIntact
  BY DEF ChainIntact
<1>1. written = Count /\ Count \in Nat \ {0} /\ Serialized
  BY ImageTypes DEF Inv, IInv, TypeInv, Progress
<1> QED BY <1>1 DEF Serialized, ChainIntact

(* No tile write damages the header, or any IFD but in the slots that the  *)
(* sink of its image patches.                                              *)
THEOREM ChainHolds == ASSUME FilesSafe PROVE Spec => []ChainIntact
BY Invariance, ChainInv, PTL

LEMMA PackedInv == Inv => PackedTiles
<1> SUFFICES ASSUME Inv, NEW i \in 1 .. Count, Packed(images[i]), sink.image = i,
                    NEW t \in 0 .. sink.next - 1
             PROVE  /\ Acked(i, t)
                    /\ IF t = 0 THEN OffsetOf(i, t) >= dataAt[i]
                       ELSE OffsetOf(i, t) >= OffsetOf(i, t - 1) + EncLen[acked[i][t - 1]]
                    /\ OffsetOf(i, t) + EncLen[acked[i][t]] <= sink.at
                    /\ sink.at <= size
  BY DEF PackedTiles
<1>1. /\ TypeOK /\ Kept /\ Behind /\ SinkPlace /\ sink # Closed
      /\ sink.next \in Nat
  BY DEF Inv, IInv, TypeInv, TypeOK, Closed
<1>2. /\ t \in Tiles(images[i]) /\ Acked(i, t) /\ t \in Nat /\ t < sink.next
      /\ t > 0 => OffsetOf(i, t) >= OffsetOf(i, t - 1) + EncLen[acked[i][t - 1]]
  BY <1>1 DEF Behind
<1>3. PICK off \in Nat : /\ TileAt(i, t, off, acked[i][t])
                         /\ off + EncLen[acked[i][t]] <= sink.at
  BY <1>1, <1>2 DEF Kept
<1>4. OffsetOf(i, t) = off /\ off >= dataAt[i]
  BY <1>3 DEF TileAt, OffsetOf, Num
<1> QED BY <1>1, <1>2, <1>3, <1>4 DEF SinkPlace

(* The tiles a sink packed never overlap, even after a failed tile was     *)
(* written again.                                                          *)
THEOREM PackedHolds == ASSUME FilesSafe PROVE Spec => []PackedTiles
BY Invariance, PackedInv, PTL

(* The buffer reaches to the end of the IFDs and of what was acknowledged, *)
(* whatever was written over it since: it only ever grows.                 *)
TileEnd(i, t) == dataAt[i] + t * images[i].raw + Length(images[i], acked[i][t])
Grown ==
  /\ phase \in {"ifds", "data"} => size = 0
  /\ phase = "chain" => size = IF written = 0 THEN 0 ELSE IfdEnd(written)
  /\ phase = "pixels" => IfdEnd(Count) <= size
  /\ \A i \in 1 .. Count : \A t \in Tiles(images[i]) :
       Acked(i, t) => /\ phase = "pixels"
                      /\ ~Packed(images[i]) => TileEnd(i, t) <= size

(* A tile write keeps the buffer grown if its own tile fits.               *)
LEMMA WriteGrown ==
  ASSUME TypeInv, Grown, UNCHANGED <<plan, phase>>, sink # Closed,
         NEW t, NEW q \in Payloads \union {Unknown}, Promise(t, q),
         size' \in Nat, size <= size',
         q # Unknown /\ ~Packed(images[sink.image]) =>
           dataAt[sink.image] + t * images[sink.image].raw
             + Length(images[sink.image], q) <= size'
  PROVE  Grown'
<1>1. /\ TypeOK /\ sink.image \in 1 .. Count /\ phase = "pixels" /\ Len(dataAt) = Count
      /\ Len(ifdAt) = Count /\ size \in Nat /\ Count \in Nat \ {0}
  BY ImageTypes DEF TypeInv, TypeOK, Progress
<1>2. /\ images' = images /\ dataAt' = dataAt /\ ifdAt' = ifdAt /\ Count' = Count
      /\ phase' = "pixels"
  BY <1>1 DEF plan, Count
<1>3. IfdEnd(Count)' = IfdEnd(Count) /\ IfdEnd(Count) \in Nat
  BY <1>1, <1>2, AddressTypes DEF IfdEnd
<1>4. ASSUME NEW i \in 1 .. Count, NEW u \in Tiles(images[i]), Acked(i, u)',
             ~Packed(images[i])
      PROVE  TileEnd(i, u)' <= size'
  <2>1. /\ DOMAIN acked = 1 .. Count /\ acked[i] \in [Tiles(images[i]) -> Payloads \union {Unknown}]
    BY <1>1 DEF TypeOK
  <2>2. TileEnd(i, u)' = dataAt[i] + u * images[i].raw + Length(images[i], acked'[i][u])
    BY <1>2 DEF TileEnd, Length
  <2>3. CASE i = sink.image /\ u = t
    <3>1. acked'[i][u] = q
      BY <1>1, <2>1, <2>3 DEF Promise
    <3> QED BY <1>4, <2>2, <2>3, <3>1 DEF Acked
  <2>4. CASE ~(i = sink.image /\ u = t)
    <3>1. acked'[i][u] = acked[i][u]
      BY <1>1, <1>4, <2>1, <2>4 DEF Promise
    <3>2. acked[i][u] # Unknown /\ acked[i][u] \in Payloads
      BY <1>4, <2>1, <3>1 DEF Acked
    <3>3. TileEnd(i, u) <= size
      BY <1>4, <3>2 DEF Grown, Acked
    <3>4. TileEnd(i, u) \in Nat
      <4>1. /\ dataAt[i] \in Nat /\ images[i] \in Image /\ images[i].raw \in Nat
            /\ Length(images[i], acked[i][u]) \in Nat
        BY <1>1, <3>2, AddressTypes, ImageTypes, CallerAssumption DEF Length
      <4>2. u * images[i].raw \in Nat
        BY <4>1, TilePlaces
      <4> QED BY <4>1, <4>2 DEF TileEnd
    <3>5. TileEnd(i, u)' = TileEnd(i, u)
      BY <2>2, <3>1 DEF TileEnd
    <3> QED BY <1>1, <3>3, <3>4, <3>5
  <2> QED BY <2>3, <2>4
<1>5. IfdEnd(Count) <= size'
  BY <1>1, <1>3 DEF Grown
<1> QED BY <1>2, <1>3, <1>4, <1>5 DEF Grown

LEMMA GrownNext == TypeInv /\ Tight /\ Grown /\ [Next]_vars => Grown'
<1> SUFFICES ASSUME TypeInv, Tight, Grown, [Next]_vars PROVE Grown'
  OBVIOUS
<1>1. TypeOK /\ Progress /\ Count \in Nat \ {0} /\ size \in Nat
  BY ImageTypes DEF TypeInv, TypeOK
<1>2. ASSUME phase # "pixels" PROVE \A i \in 1 .. Count : \A t \in Tiles(images[i]) : ~Acked(i, t)
  BY <1>2 DEF Grown
<1>3. CASE PlanIfd \/ PlanData
  <2>1. /\ phase \in {"ifds", "data"} /\ UNCHANGED <<images, size, acked, written>>
        /\ phase' \in {"ifds", "data", "chain", "rejected"} /\ written = 0
    BY <1>1, <1>3 DEF PlanIfd, PlanData, Progress
  <2>2. \A i \in 1 .. Count' : \A t \in Tiles(images'[i]) : ~Acked(i, t)'
    BY <1>2, <2>1 DEF Acked, Count
  <2> QED BY <2>1, <2>2 DEF Grown
<1>4. CASE Serialize
  <2> PICK i \in {written + 1} : TRUE
    OBVIOUS
  <2>1. /\ phase = "chain" /\ UNCHANGED <<images, ifdAt, acked>> /\ Count' = Count
        /\ written' = i /\ phase' = IF i = Count THEN "pixels" ELSE "chain"
        /\ size' = size + (IF written = 0 THEN HeaderSize ELSE 0) + IfdSize(images[i])
    <3>1. size' = size + ((IF written = 0 THEN HeaderSize ELSE 0) + IfdSize(images[i]))
      BY <1>4 DEF Serialize
    <3>2. i \in 1 .. Count /\ IfdSize(images[i]) \in Nat
      <4>1. written \in Nat /\ written < Count
        BY <1>1, <1>4 DEF Serialize, Progress, TypeOK
      <4>2. i \in 1 .. Count
        BY <1>1, <4>1
      <4> QED BY <1>1, <4>2, ImageTypes, IfdSizes
    <3> QED BY <1>1, <1>4, <3>1, <3>2, ContainerAssumption DEF Serialize, Count
  <2>2. /\ written \in Nat /\ i \in 1 .. Count /\ Len(ifdAt) = Count /\ i \in Nat
        /\ IfdSize(images[i]) \in Nat
    <3>1. written \in Nat /\ written < Count /\ Len(ifdAt) = Count
      BY <1>1, <2>1 DEF Progress, TypeOK
    <3>2. i \in 1 .. Count
      BY <1>1, <3>1
    <3> QED BY <1>1, <3>1, <3>2, ImageTypes, IfdSizes
  <2>3. size' = IfdEnd(i)
    <3>1. CASE written = 0
      <4>1. i = 1 /\ size = 0 /\ ifdAt[1] = HeaderSize
        BY <2>1, <2>2, <3>1 DEF Grown, Tight
      <4> QED BY <2>1, <2>2, <3>1, <4>1, ContainerAssumption DEF IfdEnd
    <3>2. CASE written # 0
      <4>1. i \in 2 .. Len(ifdAt) /\ i - 1 = written /\ size = IfdEnd(written)
        BY <2>1, <2>2, <3>2 DEF Grown
      <4>2. ifdAt[i] = IfdEnd(written)
        BY <4>1 DEF Tight
      <4> QED BY <1>1, <2>1, <2>2, <3>2, <4>1, <4>2 DEF IfdEnd
    <3> QED BY <3>1, <3>2
  <2>4. IfdEnd(i)' = IfdEnd(i) /\ size' \in Nat /\ i # 0
    BY <1>1, <2>1, <2>2, ContainerAssumption DEF IfdEnd
  <2>5. \A j \in 1 .. Count' : \A t \in Tiles(images'[j]) : ~Acked(j, t)'
    BY <1>2, <2>1 DEF Acked
  <2>6. phase' = "pixels" => IfdEnd(Count)' <= size'
    BY <2>1, <2>3, <2>4
  <2>7. phase' = "chain" => size' = IF written' = 0 THEN 0 ELSE IfdEnd(written)'
    BY <2>1, <2>3, <2>4
  <2>8. phase' \notin {"ifds", "data"}
    BY <2>1
  <2> QED BY <2>5, <2>6, <2>7, <2>8 DEF Grown
<1>5. ASSUME UNCHANGED <<plan, phase, size, acked>> PROVE Grown'
  <2>1. \A i, t : TileEnd(i, t)' = TileEnd(i, t) /\ Acked(i, t)' = Acked(i, t)
    BY <1>5 DEF TileEnd, Acked, Length, plan
  <2> QED BY <1>5, <2>1 DEF Grown, IfdEnd, Count, plan
<1>6. CASE DropSink \/ (\E i \in 1 .. Count : OpenSink(i)) \/ UNCHANGED vars
  BY <1>5, <1>6 DEF DropSink, OpenSink, vars
<1>7. ASSUME NEW at \in Nat, NEW n \in Nat
      PROVE  /\ Extent(at, n) \in Nat /\ size <= Extent(at, n) /\ at + n <= Extent(at, n)
  BY <1>1 DEF Extent
<1>8. ASSUME sink # Closed
      PROVE  /\ sink.image \in 1 .. Count /\ phase = "pixels" /\ Len(dataAt) = Count
             /\ dataAt[sink.image] \in Nat /\ images[sink.image] \in Image
             /\ images[sink.image].raw \in Nat \ {0} /\ sink.at \in Nat
  BY <1>1, <1>8, AddressTypes, ImageTypes DEF Progress, TypeOK
<1>9. \A p \in Payloads : EncLen[p] \in Nat \ {0} /\ p # Unknown
  BY CallerAssumption
<1>10. ASSUME NEW p \in Payloads, NEW i \in 1 .. Count, NEW t \in Tiles(images[i]),
              sink.image = i, WriteRaw(t, p)
       PROVE  Grown'
  <2> PICK raw \in {images[i].raw}, at \in {dataAt[i] + t * images[i].raw} : TRUE
    OBVIOUS
  <2>1. /\ sink # Closed /\ ~images[i].compressed /\ UNCHANGED <<plan, phase>>
        /\ \/ size' = Extent(at, raw) /\ Promise(t, p)
           \/ \E h \in 0 .. raw - 1 : size' = Extent(at, h) /\ Promise(t, Unknown)
    BY <1>10 DEF WriteRaw
  <2>2. raw \in Nat \ {0} /\ at \in Nat
    <3>1. t * images[i].raw \in Nat
      BY <1>8, <1>10, <2>1, TilePlaces
    <3> QED BY <1>8, <1>10, <2>1, <3>1
  <2>3. CASE size' = Extent(at, raw) /\ Promise(t, p)
    BY <1>7, <1>10, <2>1, <2>2, <2>3, WriteGrown DEF Length
  <2>4. CASE \E h \in 0 .. raw - 1 : size' = Extent(at, h) /\ Promise(t, Unknown)
    BY <1>7, <2>1, <2>2, <2>4, WriteGrown
  <2> QED BY <2>1, <2>3, <2>4
<1>11. ASSUME NEW p \in Payloads, WriteStrip(p) PROVE Grown'
  <2> PICK i \in {sink.image}, at \in {dataAt[sink.image]} : TRUE
    OBVIOUS
  <2>1. /\ sink # Closed /\ images[i].compressed /\ UNCHANGED <<plan, phase>>
        /\ \/ size' = Extent(at, EncLen[p]) /\ Promise(0, p)
           \/ \E h \in 0 .. EncLen[p] - 1 : size' = Extent(at, h) /\ Promise(0, Unknown)
    BY <1>11 DEF WriteStrip
  <2>2. at \in Nat /\ EncLen[p] \in Nat \ {0} /\ at + 0 * images[i].raw = at
    BY <1>8, <1>9, <2>1
  <2>3. CASE size' = Extent(at, EncLen[p]) /\ Promise(0, p)
    <3>1. dataAt[i] + 0 * images[i].raw + Length(images[i], p) <= size'
      BY <1>7, <2>1, <2>2, <2>3 DEF Length
    <3>2. size' \in Nat /\ size <= size'
      BY <1>7, <2>2, <2>3
    <3> QED BY <2>1, <2>3, <3>1, <3>2, WriteGrown
  <2>4. CASE \E h \in 0 .. EncLen[p] - 1 : size' = Extent(at, h) /\ Promise(0, Unknown)
    BY <1>7, <2>1, <2>2, <2>4, WriteGrown
  <2> QED BY <2>1, <2>3, <2>4
<1>12. ASSUME NEW p \in Payloads, NEW step \in {"data", "offset", "count", "seek"},
              WriteTile(p) \/ WriteTileFails(p, step)
       PROVE  Grown'
  <2>1. /\ sink # Closed /\ Packed(images[sink.image]) /\ UNCHANGED <<plan, phase>>
        /\ \/ size' = Extent(sink.at, EncLen[p])
           \/ \E h \in 0 .. EncLen[p] - 1 : size' = Extent(sink.at, h)
        /\ \E q \in Payloads \union {Unknown} : Promise(sink.next, q)
    <3>1. CASE WriteTile(p)
      BY <3>1 DEF WriteTile
    <3>2. CASE WriteTileFails(p, step)
      BY <3>2 DEF WriteTileFails
    <3> QED BY <1>12, <3>1, <3>2
  <2>2. size' \in Nat /\ size <= size'
    <3>1. sink.at \in Nat /\ EncLen[p] \in Nat
      BY <1>8, <1>9, <2>1
    <3>2. PICK h \in Nat : size' = Extent(sink.at, h)
      BY <2>1, <3>1
    <3> QED BY <1>7, <3>1, <3>2
  <2> QED BY <2>1, <2>2, WriteGrown
<1> QED
  BY <1>3, <1>4, <1>6, <1>10, <1>11, <1>12 DEF Next

LEMMA ReachInv == TypeInv /\ Tight /\ Grown => InOrderReachable
<1> SUFFICES ASSUME TypeInv, Tight, Grown, phase = "pixels", NEW i \in 1 .. Count,
                    \A j \in 1 .. i - 1 : FillsRegion(j)
             PROVE  /\ dataAt[i] <= size
                    /\ \A t \in Tiles(images[i]) :
                         ~images[i].compressed /\ (\A u \in 0 .. t - 1 : Acked(i, u)) =>
                           dataAt[i] + t * images[i].raw <= size
  BY DEF InOrderReachable
<1>1. /\ TypeOK /\ Count \in Nat \ {0} /\ size \in Nat
      /\ Len(ifdAt) = Count /\ Len(dataAt) = Count
  BY ImageTypes DEF TypeInv, Progress, TypeOK
<1>2. ASSUME NEW j \in 1 .. Count, NEW t \in Tiles(images[j]), Acked(j, t),
             images[j].compressed => ~images[j].tiled /\ EncLen[acked[j][0]] >= images[j].raw
      PROVE  dataAt[j] + (t + 1) * images[j].raw <= size
  <2>1. /\ dataAt[j] \in Nat /\ images[j] \in Image /\ images[j].raw \in Nat /\ t \in Nat
        /\ t * images[j].raw \in Nat /\ acked[j][t] \in Payloads
        /\ images[j].compressed => t = 0
    <3>1. images[j].compressed => images[j].tiles = 1
      BY <1>1, <1>2, ImageTypes
    <3>2. /\ dataAt[j] \in Nat /\ images[j] \in Image /\ images[j].raw \in Nat
          /\ images[j].tiles \in Nat
      BY <1>1, AddressTypes, ImageTypes
    <3>3. t \in Nat /\ (images[j].compressed => t = 0)
      BY <3>1, <3>2 DEF Tiles
    <3>4. t * images[j].raw \in Nat
      BY <3>2, TilePlaces
    <3>5. acked[j][t] \in Payloads
      BY <1>1, <1>2 DEF TypeOK, Acked
    <3> QED BY <3>2, <3>3, <3>4, <3>5
  <2>2. TileEnd(j, t) <= size
    BY <1>2 DEF Grown, Packed
  <2>3. Length(images[j], acked[j][t]) \in Nat /\ Length(images[j], acked[j][t]) >= images[j].raw
    BY <1>2, <2>1, CallerAssumption DEF Length
  <2>4. (t + 1) * images[j].raw = t * images[j].raw + images[j].raw
    BY <2>1
  <2>5. dataAt[j] + t * images[j].raw + Length(images[j], acked[j][t]) <= size
    BY <2>2 DEF TileEnd
  <2>6. \A a, b, c, d \in Nat : a + b + c <= size /\ c >= d => a + (b + d) <= size
    BY <1>1
  <2> QED BY <2>1, <2>3, <2>4, <2>5, <2>6
<1>3. dataAt[i] <= size
  <2>1. CASE i = 1
    <3>1. dataAt[1] = IfdEnd(Count) /\ IfdEnd(Count) <= size
      BY <1>1 DEF Tight, Grown
    <3> QED BY <2>1, <3>1
  <2>2. CASE i # 1
    <3> PICK j \in {i - 1} : TRUE
      OBVIOUS
    <3>1. j \in 1 .. Count /\ j \in 1 .. i - 1 /\ i \in 2 .. Len(dataAt)
      BY <1>1, <2>2
    <3>2. FillsRegion(j)
      BY <3>1
    <3>3. images[j] \in Image /\ images[j].tiles \in Nat \ {0}
      BY <1>1, <3>1, ImageTypes
    <3>4. images[j].tiles - 1 \in Tiles(images[j])
      BY <3>3 DEF Tiles
    <3>5. dataAt[j] + ((images[j].tiles - 1) + 1) * images[j].raw <= size
      BY <1>2, <3>1, <3>2, <3>4 DEF FillsRegion, Complete
    <3>6. dataAt[i] = DataEnd(j)
      BY <1>1, <3>1 DEF Tight
    <3> QED BY <3>3, <3>5, <3>6 DEF DataEnd, Span
  <2> QED BY <2>1, <2>2
<1>4. ASSUME NEW t \in Tiles(images[i]), ~images[i].compressed,
             \A u \in 0 .. t - 1 : Acked(i, u)
      PROVE  dataAt[i] + t * images[i].raw <= size
  <2>1. /\ dataAt[i] \in Nat /\ images[i].raw \in Nat /\ t \in Nat
        /\ \A u \in 0 .. t - 1 : u \in Tiles(images[i])
    <3>1. dataAt[i] \in Nat /\ images[i].raw \in Nat /\ images[i].tiles \in Nat
      BY <1>1, AddressTypes, ImageTypes
    <3> QED BY <1>4, <3>1 DEF Tiles
  <2>2. CASE t = 0
    BY <1>3, <2>1, <2>2
  <2>3. CASE t # 0
    <3>1. t - 1 \in 0 .. t - 1
      BY <2>1, <2>3
    <3>2. dataAt[i] + ((t - 1) + 1) * images[i].raw <= size
      BY <1>2, <1>4, <2>1, <3>1
    <3> QED BY <2>1, <3>2
  <2> QED BY <2>2, <2>3
<1> QED BY <1>3, <1>4

(* A caller that writes images and tiles in order is not refused for a     *)
(* gap, as long as no image before came out smaller than its raw size. No  *)
(* assumption is made on the files: this also holds where images overlap.  *)
THEOREM InOrderHolds == Spec => []InOrderReachable
<1>1. Init => Tight /\ Grown
  <2> SUFFICES ASSUME Init PROVE Tight /\ Grown
    OBVIOUS
  <2>1. /\ phase = "ifds" /\ Len(ifdAt) = 0 /\ Len(dataAt) = 0 /\ size = 0
        /\ cursor = HeaderSize
    BY DEF Init
  <2>2. \A i \in 1 .. Count : \A t \in Tiles(images[i]) : ~Acked(i, t)
    BY DEF Init, Acked, Count
  <2> QED BY <2>1, <2>2 DEF Tight, Grown
<1> QED
  BY <1>1, TypeInvInit, TypeInvNext, TightNext, GrownNext, ReachInv, PTL DEF Spec
------------------------------------------------------------------------------
(* The writer implements the tile store.                                   *)

StoreOf == [i \in 1 .. Count |-> [t \in Tiles(images[i]) |->
              IF Acked(i, t) THEN ReadTile(i, t) ELSE Unknown]]
Promised == [i \in 1 .. Count |-> [t \in Tiles(images[i]) |-> acked[i][t]]]

LEMMA StoreIsPromised == RoundTrip => StoreOf = Promised
BY DEF RoundTrip, StoreOf, Promised, Acked

LEMMA ShapeFacts ==
  ASSUME TypeOK
  PROVE  /\ DOMAIN ShapeOf(images) = 1 .. Count
         /\ \A i \in 1 .. Count :
              /\ 0 .. ShapeOf(images)[i].tiles - 1 = Tiles(images[i])
              /\ ShapeOf(images)[i].packed = Packed(images[i])
BY DEF ShapeOf, Count, Tiles

LEMMA StoreInit == Init => Store!Init
<1> SUFFICES ASSUME Init PROVE Store!Init
  OBVIOUS
<1>1. TypeOK
  BY TypeInvInit DEF TypeInv
<1>2. ShapeOf(images) \in {ShapeOf(f) : f \in Files}
  BY DEF Init
<1>3. \A i \in 1 .. Count : \A t \in Tiles(images[i]) : ~Acked(i, t)
  BY DEF Init, Count, Acked
<1>4. StoreOf = [i \in DOMAIN ShapeOf(images) |->
                   [t \in 0 .. ShapeOf(images)[i].tiles - 1 |-> Unknown]]
  BY <1>1, <1>3, ShapeFacts DEF StoreOf
<1> QED BY <1>2, <1>4 DEF Store!Init, StoreOf

(* A write that ends with the promise q of tile t writes q to the store.   *)
LEMMA StoreWrite ==
  ASSUME TypeInv, RoundTrip, RoundTrip', sink # Closed, UNCHANGED plan,
         NEW t \in Tiles(images[sink.image]), NEW q \in Payloads \union {Unknown},
         Promise(t, q)
  PROVE  Store!Next
<1> PICK i \in {sink.image} : TRUE
  OBVIOUS
<1>1. /\ TypeOK /\ i = sink.image /\ i \in 1 .. Count /\ images' = images /\ Count' = Count
      /\ DOMAIN acked = 1 .. Count
      /\ acked[i] \in [Tiles(images[i]) -> Payloads \union {Unknown}]
  BY DEF TypeInv, TypeOK, Progress, plan, Count
<1>2. /\ acked'[i] = [u \in Tiles(images[i]) |->
                        IF u = t THEN q
                        ELSE IF u > t /\ Packed(images[i]) THEN Unknown
                        ELSE acked[i][u]]
      /\ \A j \in 1 .. Count : j # i => acked'[j] = acked[j]
  BY <1>1 DEF Promise
<1>3. Promised' = [j \in 1 .. Count |-> [u \in Tiles(images[j]) |-> acked'[j][u]]]
  BY <1>1 DEF Promised
<1> DEFINE new == [u \in Tiles(images[i]) |->
                     IF u = t THEN q
                     ELSE IF u > t /\ Packed(images[i]) THEN Unknown
                     ELSE acked[i][u]]
<1>4. Promised' = [Promised EXCEPT ![i] = new]
  <2>1. \A j \in 1 .. Count : j # i =>
          [u \in Tiles(images[j]) |-> acked'[j][u]] = Promised[j]
    BY <1>2 DEF Promised
  <2>2. [u \in Tiles(images[i]) |-> acked'[i][u]] = new
    BY <1>2
  <2>3. DOMAIN Promised = 1 .. Count
    BY DEF Promised
  <2> HIDE DEF new
  <2> QED BY <1>1, <1>3, <2>1, <2>2, <2>3
<1>5. /\ StoreOf = Promised /\ StoreOf' = Promised'
      /\ ShapeOf(images)' = ShapeOf(images)
  <2>1. StoreOf' = Promised'
    BY DEF RoundTrip, StoreOf, Promised, Acked
  <2>2. ShapeOf(images)' = ShapeOf(images)
    BY <1>1 DEF ShapeOf
  <2> QED BY <2>1, <2>2, StoreIsPromised
<1>6. Store!Write(i, t, q)
  <2>1. new = [u \in DOMAIN Promised[i] |->
                 IF u = t THEN q
                 ELSE IF u > t /\ ShapeOf(images)[i].packed THEN Unknown
                 ELSE Promised[i][u]]
    BY <1>1, ShapeFacts DEF Promised
  <2>2. StoreOf' = [StoreOf EXCEPT ![i] =
                      [u \in DOMAIN StoreOf[i] |->
                         IF u = t THEN q
                         ELSE IF u > t /\ ShapeOf(images)[i].packed THEN Unknown
                         ELSE StoreOf[i][u]]]
    <3> HIDE DEF new
    <3> QED BY <1>4, <1>5, <2>1
  <2> QED BY <1>5, <2>2 DEF Store!Write, StoreOf
<1>7. i \in DOMAIN ShapeOf(images) /\ t \in 0 .. ShapeOf(images)[i].tiles - 1
  BY <1>1, ShapeFacts
<1> QED BY <1>6, <1>7 DEF Store!Next
(* Every other step leaves the store alone. *)
LEMMA StoreStutter ==
  ASSUME RoundTrip, RoundTrip', UNCHANGED <<images, acked>>
  PROVE  UNCHANGED <<ShapeOf(images), StoreOf>>
<1>1. ShapeOf(images)' = ShapeOf(images) /\ Promised' = Promised
  BY DEF ShapeOf, Promised, Count
<1>2. StoreOf' = Promised'
  BY DEF RoundTrip, StoreOf, Promised, Acked
<1> QED BY <1>1, <1>2, StoreIsPromised

LEMMA StoreNext ==
  ASSUME TypeInv, RoundTrip, RoundTrip', [Next]_vars
  PROVE  Store!Next \/ UNCHANGED <<ShapeOf(images), StoreOf>>
<1>1. CASE PlanIfd \/ PlanData \/ Serialize
  BY <1>1, StoreStutter DEF PlanIfd, PlanData, Serialize
<1>2. ASSUME NEW i, OpenSink(i) PROVE UNCHANGED <<ShapeOf(images), StoreOf>>
  BY <1>2, StoreStutter DEF OpenSink, plan
<1>3. CASE DropSink \/ UNCHANGED vars
  BY <1>3, StoreStutter DEF DropSink, vars, plan
<1>4. ASSUME NEW p \in Payloads, NEW t, WriteRaw(t, p) PROVE Store!Next
  <2>1. /\ sink # Closed /\ UNCHANGED plan /\ t \in Tiles(images[sink.image])
        /\ \E q \in Payloads \union {Unknown} : Promise(t, q)
    BY <1>4 DEF WriteRaw
  <2> QED BY <2>1, StoreWrite
<1>5. ASSUME NEW p \in Payloads, WriteStrip(p) PROVE Store!Next
  <2>1. /\ sink # Closed /\ UNCHANGED plan /\ ~images[sink.image].tiled
        /\ \E q \in Payloads \union {Unknown} : Promise(0, q)
    BY <1>5 DEF WriteStrip
  <2>2. sink.image \in 1 .. Count
    BY <2>1 DEF TypeInv, Progress
  <2>3. 0 \in Tiles(images[sink.image])
    BY <2>1, <2>2, ImageTypes DEF TypeInv, Tiles
  <2> QED BY <2>1, <2>3, StoreWrite
<1>6. ASSUME NEW p \in Payloads, WriteTile(p) PROVE Store!Next
  <2>1. /\ sink # Closed /\ UNCHANGED plan /\ sink.next \in Tiles(images[sink.image])
        /\ Promise(sink.next, p)
    BY <1>6 DEF WriteTile
  <2>2. PICK t \in {sink.next} : Promise(t, p)
    BY <2>1
  <2> QED BY <2>1, <2>2, StoreWrite
<1>7. ASSUME NEW p \in Payloads, NEW step, WriteTileFails(p, step) PROVE Store!Next
  <2>1. /\ sink # Closed /\ UNCHANGED plan /\ sink.next \in Tiles(images[sink.image])
        /\ Promise(sink.next, Unknown)
    BY <1>7 DEF WriteTileFails
  <2>2. PICK t \in {sink.next}, q \in {Unknown} : Promise(t, q)
    BY <2>1
  <2> QED BY <2>1, <2>2, StoreWrite
<1> QED BY <1>1, <1>2, <1>3, <1>4, <1>5, <1>6, <1>7 DEF Next

(* The content of every tile, as its own IFD leads a reader to it, behaves *)
(* as a store whose writes touch nothing but the tile they name (and, in a *)
(* packed image, what an earlier pass left after it).                      *)
THEOREM Refinement == ASSUME FilesSafe PROVE Spec => ImplementsTileStore
<1>1. Inv => TypeInv /\ RoundTrip
  BY RoundTripInv DEF Inv, IInv
<1>2. TypeInv /\ RoundTrip /\ RoundTrip' /\ [Next]_vars
        => [Store!Next]_<<ShapeOf(images), StoreOf>>
  BY StoreNext
<1>3. [Store!Next]_<<ShapeOf(images), StoreOf>> =>
        [Store!Next]_<<ShapeOf(images),
           [i \in 1 .. Count |-> [t \in Tiles(images[i]) |->
              IF Acked(i, t) THEN ReadTile(i, t) ELSE Unknown]]>>
  BY DEF StoreOf
<1> QED
  BY <1>1, <1>2, <1>3, StoreInit, Invariance, PTL DEF Spec, ImplementsTileStore, Store!Spec
=============================================================================
