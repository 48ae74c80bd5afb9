----------------------------- MODULE CodecsProofs -----------------------------
(***************************************************************************)
(* Proofs about Codecs: for tiles of any size and bytes, LZW and PackBits  *)
(* of any limits and any sample layout, a tile that is encoded comes back  *)
(* whole, encoder and decoder of LZW stay in step, and whatever stream is  *)
(* decoded, the decoder stays in its bounds. The predictor comes first.    *)
(***************************************************************************)
EXTENDS Codecs, WellFoundedInduction, SequenceTheorems, FiniteSetTheorems, TLAPS

------------------------------------------------------------------------------
(* Arithmetic.                                                             *)

LEMMA LeastElement ==
  ASSUME NEW T, T \subseteq Nat, T # {}
  PROVE  \E x \in T : \A y \in T : x <= y
<1> DEFINE R == OpToRel(<, Nat)
<1>1. PICK x \in T : \A y \in T : ~(<<y, x>> \in R)
  <2>1. IsWellFoundedOn(R, Nat)
    BY NatLessThanWellFounded
  <2> HIDE DEF R
  <2> QED BY <2>1, WFMin
<1>2. \A y \in T : ~(y < x)
  BY <1>1, Zenon DEF OpToRel
<1> HIDE DEF R
<1> QED BY <1>1, <1>2

LEMMA Product == ASSUME NEW a \in Nat, NEW b \in Nat PROVE a * b \in Nat
OBVIOUS

LEMMA ProductPositive == ASSUME NEW a \in Nat \ {0}, NEW b \in Nat \ {0} PROVE a * b \in Nat \ {0}
OBVIOUS

LEMMA ProductMonotone ==
  ASSUME NEW a \in Nat, NEW b \in Nat, NEW d \in Nat, a <= b
  PROVE  a * d <= b * d
OBVIOUS

LEMMA Divide ==
  ASSUME NEW n \in Nat, NEW d \in Nat \ {0}
  PROVE  /\ n \div d \in Nat /\ n % d \in 0 .. d - 1
         /\ n = (n \div d) * d + (n % d)
OBVIOUS

LEMMA DivideSum ==
  ASSUME NEW a \in Nat, NEW d \in Nat \ {0}, NEW c \in 0 .. d - 1
  PROVE  (a * d + c) \div d = a /\ (a * d + c) % d = c
OBVIOUS

LEMMA DivideBound ==
  ASSUME NEW n \in Nat, NEW d \in Nat \ {0}, NEW q \in Nat, n < q * d
  PROVE  n \div d < q
<1>1. n \div d \in Nat /\ n = (n \div d) * d + (n % d) /\ n % d \in 0 .. d - 1
  BY Divide
<1>2. SUFFICES ASSUME q <= n \div d PROVE FALSE
  BY <1>1
<1>3. q * d <= (n \div d) * d
  BY <1>1, <1>2, ProductMonotone
<1> QED BY <1>1, <1>3

(* The sum of a difference, when both are taken modulo m.                  *)
LEMMA ModuloSum ==
  ASSUME NEW m \in Nat \ {0}, NEW x \in 0 .. m - 1, NEW p \in 0 .. m - 1
  PROVE  /\ (x - p) % m \in 0 .. m - 1
         /\ (p + ((x - p) % m)) % m = x
<1>1. CASE x >= p
  <2>1. (x - p) % m = x - p
    BY <1>1
  <2>2. x % m = x
    OBVIOUS
  <2> QED BY <2>1, <2>2, <1>1
<1>2. CASE x < p
  <2>1. (x - p) % m = x - p + m
    BY <1>2
  <2>2. (m + x) % m = x
    OBVIOUS
  <2> QED BY <2>1, <2>2, <1>2
<1> QED BY <1>1, <1>2

(* Two digits, of bases q and d.                                           *)
LEMMA Digits ==
  ASSUME NEW n \in Nat, NEW q \in Nat \ {0}, NEW d \in Nat \ {0}
  PROVE  /\ (n % (q * d)) \div d \in 0 .. q - 1
         /\ n % (q * d) = ((n % (q * d)) \div d) * d + (n % d)
<1> DEFINE s == n % (q * d)
           a == n \div (q * d)
<1>1. q * d \in Nat \ {0}
  BY ProductPositive
<1>2. a \in Nat /\ s \in 0 .. q * d - 1 /\ n = a * (q * d) + s
  BY <1>1, Divide
<1> HIDE DEF s, a
<1> s \in Nat
  BY <1>1, <1>2
<1>3. s \div d \in Nat /\ s % d \in 0 .. d - 1 /\ s = (s \div d) * d + (s % d)
  BY Divide
<1>4. s \div d < q
  BY <1>1, <1>2, DivideBound
<1>5. n % d = s % d
  <2> DEFINE b == s \div d
             c == s % d
             e == a * q + b
  <2>1. e \in Nat
    BY <1>2, <1>3, Product
  <2> HIDE DEF b, c
  <2>2. b \in Nat /\ c \in 0 .. d - 1 /\ s = b * d + c
    BY <1>3 DEF b, c
  <2>3. n = e * d + c
    BY <1>2, <2>2
  <2> HIDE DEF e
  <2>4. n % d = c
    BY <2>1, <2>2, <2>3, DivideSum
  <2> QED BY <2>4 DEF c
<1> QED BY <1>3, <1>4, <1>5 DEF s

LEMMA Compose ==
  ASSUME NEW a \in Nat, NEW q \in Nat \ {0}, NEW b \in 0 .. q - 1,
         NEW d \in Nat \ {0}, NEW c \in 0 .. d - 1
  PROVE  /\ b * d + c \in 0 .. q * d - 1
         /\ (a * (q * d) + (b * d + c)) % d = c
<1>1. (b + 1) * d <= q * d
  BY ProductMonotone
<1>2. b * d \in Nat
  BY Product
<1>3. b * d + c \in 0 .. q * d - 1
  BY <1>1, <1>2
<1>4. a * q + b \in Nat
  BY Product
<1>5. a * (q * d) + (b * d + c) = (a * q + b) * d + c
  OBVIOUS
<1>6. ((a * q + b) * d + c) % d = c
  <2> DEFINE e == a * q + b
  <2> HIDE DEF e
  <2> QED BY <1>4, DivideSum DEF e
<1> QED BY <1>3, <1>5, <1>6

------------------------------------------------------------------------------
(* The samples of a tile.                                                  *)

(* Where byte k of a sample is.                                            *)
At(row, column, comp, k) == row * Stride + column * Pixel + comp * tile.bps + 1 + k

Columns == 0 .. tile.row_width - 1

LEMMA Shape ==
  ASSUME tile \in Tiles
  PROVE  /\ tile.row_width \in Nat \ {0} /\ tile.samples \in Nat \ {0}
         /\ tile.bps \in {1, 2, 4} /\ tile.bps \in Nat \ {0} /\ tile.big_endian \in BOOLEAN
         /\ tile.bytes \in Seq(Bytes)
         /\ Pixel \in Nat \ {0} /\ Stride \in Nat \ {0} /\ Size \in Nat \ {0}
         /\ Pixel = tile.samples * tile.bps /\ Stride = tile.row_width * Pixel
         /\ Size \div Stride \in Nat \ {0} /\ Size = (Size \div Stride) * Stride
<1>1. /\ tile.row_width \in Nat \ {0} /\ tile.samples \in Nat \ {0}
      /\ tile.bps \in {1, 2, 4} /\ tile.big_endian \in BOOLEAN
      /\ tile.bytes \in Seq(Bytes)
  BY TilesAssumption DEF Bytes
<1>2. Pixel = tile.samples * tile.bps /\ Pixel \in Nat \ {0}
  BY <1>1, ProductPositive DEF Pixel
<1>3. Stride = tile.row_width * Pixel /\ Stride \in Nat \ {0}
  BY <1>1, <1>2, ProductPositive DEF Stride
<1>4. PICK rows \in Nat \ {0} : Size = rows * Stride
  BY TilesAssumption DEF Size, Stride, Pixel
<1>5. Size \div Stride = rows
  <2>1. (rows * Stride + 0) \div Stride = rows
    BY <1>3, DivideSum
  <2> QED BY <2>1, <1>4, <1>3
<1>6. Size \in Nat \ {0}
  BY <1>3, <1>4, ProductPositive
<1> QED BY <1>1, <1>2, <1>3, <1>4, <1>5, <1>6

LEMMA PlaceOf ==
  ASSUME tile \in Tiles, NEW i \in 1 .. Size
  PROVE  /\ RowOf(i - 1) \in Rows /\ ColumnOf(i - 1) \in Columns /\ CompOf(i - 1) \in Comps
         /\ (i - 1) % tile.bps \in 0 .. tile.bps - 1
         /\ i = At(RowOf(i - 1), ColumnOf(i - 1), CompOf(i - 1), (i - 1) % tile.bps)
<1> DEFINE n == i - 1
           w == tile.row_width
           m == tile.samples
           b == tile.bps
           p == Pixel
           S == Stride
           rows == Size \div Stride
<1>1. /\ n \in Nat /\ n < rows * S /\ i = n + 1 /\ rows \in Nat \ {0}
      /\ w \in Nat \ {0} /\ m \in Nat \ {0} /\ b \in Nat \ {0}
      /\ p \in Nat \ {0} /\ S \in Nat \ {0} /\ p = m * b /\ S = w * p
  BY Shape
<1> HIDE DEF n, w, m, b, p, S, rows
<1>2. n \div S \in Nat /\ n \div S < rows /\ n = (n \div S) * S + (n % S)
  BY <1>1, Divide, DivideBound
<1>3. (n % S) \div p \in 0 .. w - 1 /\ n % S = ((n % S) \div p) * p + (n % p)
  BY <1>1, Digits
<1>4. (n % p) \div b \in 0 .. m - 1 /\ n % p = ((n % p) \div b) * b + (n % b)
  BY <1>1, Digits
<1>5. n % b \in 0 .. b - 1
  BY <1>1, Divide
<1>6. RowOf(i - 1) = n \div S /\ ColumnOf(i - 1) = (n % S) \div p /\ CompOf(i - 1) = (n % p) \div b
  BY DEF RowOf, ColumnOf, CompOf, n, w, m, b, p, S
<1>7. Rows = 0 .. rows - 1 /\ Columns = 0 .. w - 1 /\ Comps = 0 .. m - 1
  BY DEF Rows, Columns, Comps, rows, w, m
<1>8. (i - 1) % tile.bps = n % b
  BY DEF n, b
<1>9. At(RowOf(i - 1), ColumnOf(i - 1), CompOf(i - 1), (i - 1) % tile.bps)
        = (n \div S) * S + ((n % S) \div p) * p + ((n % p) \div b) * b + 1 + (n % b)
  BY <1>6, <1>8 DEF At, S, p, b
<1> DEFINE x == (n \div S) * S
           y == ((n % S) \div p) * p
           z == ((n % p) \div b) * b
<1>10. x \in Nat /\ y \in Nat /\ z \in Nat
  <2> /\ n \div S \in Nat /\ (n % S) \div p \in Nat /\ (n % p) \div b \in Nat
      /\ S \in Nat /\ p \in Nat /\ b \in Nat
    BY <1>1, <1>2, <1>3, <1>4
  <2> QED BY Product
<1>11. n = x + (n % S) /\ n % S = y + (n % p) /\ n % p = z + (n % b) /\ n % b \in Nat
  BY <1>1, <1>2, <1>3, <1>4, <1>5
<1>12. i = x + y + z + 1 + (n % b)
  <2> HIDE DEF x, y, z
  <2> QED BY <1>1, <1>10, <1>11
<1> QED BY <1>1, <1>2, <1>3, <1>4, <1>5, <1>6, <1>7, <1>8, <1>9, <1>12 DEF b

LEMMA OfPlace ==
  ASSUME tile \in Tiles, NEW row \in Rows, NEW column \in Columns, NEW comp \in Comps,
         NEW k \in 0 .. tile.bps - 1
  PROVE  /\ At(row, column, comp, k) \in 1 .. Size
         /\ RowOf(At(row, column, comp, k) - 1) = row
         /\ ColumnOf(At(row, column, comp, k) - 1) = column
         /\ CompOf(At(row, column, comp, k) - 1) = comp
         /\ (At(row, column, comp, k) - 1) % tile.bps = k
<1> DEFINE w == tile.row_width
           m == tile.samples
           b == tile.bps
           p == Pixel
           S == Stride
           rows == Size \div Stride
<1>1. /\ rows \in Nat \ {0} /\ Size = rows * S
      /\ w \in Nat \ {0} /\ m \in Nat \ {0} /\ b \in Nat \ {0}
      /\ p \in Nat \ {0} /\ S \in Nat \ {0} /\ p = m * b /\ S = w * p
  BY Shape, Zenon
<1>2. row \in 0 .. rows - 1 /\ column \in 0 .. w - 1 /\ comp \in 0 .. m - 1 /\ k \in 0 .. b - 1
  BY DEF Rows, Columns, Comps
<1>3. At(row, column, comp, k) = row * S + column * p + comp * b + 1 + k
  BY DEF At
<1> HIDE DEF w, m, b, p, S, rows
<1> DEFINE x == comp * b + k
           s == column * p + x
           n == row * S + s
<1>4. comp * b \in Nat /\ column * p \in Nat /\ row * S \in Nat
  BY <1>1, <1>2, Product
<1>5. At(row, column, comp, k) = n + 1
  BY <1>2, <1>3, <1>4
<1>6. x \in 0 .. m * b - 1
  BY <1>1, <1>2, Compose
<1>7. x \div b = comp /\ x % b = k
  <2> comp \in Nat /\ b \in Nat \ {0} /\ k \in 0 .. b - 1
    BY <1>1, <1>2
  <2> QED BY DivideSum
<1> HIDE DEF x
<1> /\ row \in Nat /\ column \in Nat /\ w \in Nat \ {0} /\ column \in 0 .. w - 1
    /\ p \in Nat \ {0} /\ x \in 0 .. p - 1
  BY <1>1, <1>2, <1>6
<1>8. s \in 0 .. w * p - 1 /\ s \div p = column
  BY Compose, DivideSum
<1>9. n % p = x
  <2>1. (row * (w * p) + (column * p + x)) % p = x
    BY Compose
  <2> QED BY <2>1, <1>1
<1> HIDE DEF s
<1>10. n \in 0 .. rows * S - 1 /\ n \div S = row /\ n % S = s
  <2> /\ S \in Nat \ {0} /\ s \in 0 .. S - 1 /\ rows \in Nat \ {0} /\ row \in 0 .. rows - 1
    BY <1>1, <1>2, <1>8
  <2>1. row * S + s \in 0 .. rows * S - 1
    BY Compose
  <2>2. (row * S + s) \div S = row /\ (row * S + s) % S = s
    BY DivideSum
  <2> QED BY <2>1, <2>2
<1> HIDE DEF n
<1>11. n % b = k
  <2> DEFINE e == n \div p
  <2>1. e \in Nat /\ n = e * (m * b) + (comp * b + k)
    <3>1. n \in Nat
      BY <1>1, <1>10
    <3>2. e \in Nat /\ n = e * p + (n % p)
      BY <3>1, Divide
    <3> QED BY <3>2, <1>1, <1>9 DEF x
  <2> HIDE DEF e
  <2> QED BY <2>1, <1>1, <1>2, Compose
<1>12. At(row, column, comp, k) - 1 = n
  BY <1>5, <1>10, <1>1
<1> QED BY <1>1, <1>5, <1>7, <1>8, <1>9, <1>10, <1>11, <1>12
      DEF RowOf, ColumnOf, CompOf, S, p, b, Stride, w

(* Numbers to base B.                                                      *)
LEMMA DivideTwice ==
  ASSUME NEW n \in Nat, NEW d \in Nat \ {0}, NEW e \in Nat \ {0}
  PROVE  (n \div d) \div e = n \div (e * d)
<1> DEFINE q == n \div d
           r == n % d
           p == q \div e
           s == q % e
<1>1. q \in Nat /\ r \in 0 .. d - 1 /\ n = q * d + r
  BY Divide
<1> HIDE DEF q, r
<1>2. p \in Nat /\ s \in 0 .. e - 1 /\ q = p * e + s
  BY <1>1, Divide
<1> HIDE DEF p, s
<1>3. s * d + r \in 0 .. e * d - 1
  BY <1>1, <1>2, Compose
<1>4. n = p * (e * d) + (s * d + r)
  BY <1>1, <1>2
<1>5. n \div (e * d) = p
  <2> DEFINE f == e * d
             x == s * d + r
  <2>1. f \in Nat \ {0} /\ x \in 0 .. f - 1 /\ n = p * f + x
    BY <1>3, <1>4, ProductPositive
  <2> HIDE DEF f, x
  <2>2. n \div f = p
    BY <1>2, <2>1, DivideSum
  <2> QED BY <2>2 DEF f
<1> QED BY <1>5 DEF p, q

LEMMA BaseIsPositive == B \in Nat \ {0}
BY CodecAssumption

LEMMA Expand ==
  ASSUME NEW v \in Nat
  PROVE  /\ v = (v % B) + (v \div B) * B
         /\ v = (v % B) + ((v \div B) % B) * B + (v \div (B * B)) * (B * B)
         /\ v = (v % B) + ((v \div B) % B) * B + ((v \div (B * B)) % B) * (B * B)
                  + ((v \div (B * B * B)) % B) * (B * B * B)
                  + (v \div (B * B * B * B)) * (B * B * B * B)
<1> DEFINE v1 == v \div B
           v2 == v1 \div B
           v3 == v2 \div B
           v4 == v3 \div B
<1> B \in Nat \ {0}
  BY BaseIsPositive
<1>0. B * B \in Nat \ {0} /\ B * B * B \in Nat \ {0} /\ B * (B * B) = B * B * B
      /\ B * (B * B * B) = B * B * B * B
  <2>1. B * B \in Nat \ {0}
    BY ProductPositive
  <2>2. B * (B * B) \in Nat \ {0} /\ B * (B * B) = B * B * B
    BY <2>1, ProductPositive
  <2> QED BY <2>1, <2>2
<1>1. v1 \in Nat /\ v % B \in Nat /\ v = v1 * B + (v % B)
  BY Divide
<1> HIDE DEF v1
<1>2. v2 \in Nat /\ v1 % B \in Nat /\ v1 = v2 * B + (v1 % B)
  <2> v1 \in Nat
    BY <1>1
  <2> QED BY Divide
<1> HIDE DEF v2
<1>3. v3 \in Nat /\ v2 % B \in Nat /\ v2 = v3 * B + (v2 % B)
  <2> v2 \in Nat
    BY <1>2
  <2> QED BY Divide
<1> HIDE DEF v3
<1>4. v4 \in Nat /\ v3 % B \in Nat /\ v3 = v4 * B + (v3 % B)
  <2> v3 \in Nat
    BY <1>3
  <2> QED BY Divide
<1> HIDE DEF v4
<1>5. v2 = v \div (B * B)
  BY DivideTwice DEF v2, v1
<1>6. v3 = v \div (B * B * B)
  <2>1. (v \div (B * B)) \div B = v \div (B * (B * B))
    BY <1>0, DivideTwice
  <2> QED BY <2>1, <1>0, <1>5 DEF v3
<1>7. v4 = v \div (B * B * B * B)
  <2>1. (v \div (B * B * B)) \div B = v \div (B * (B * B * B))
    BY <1>0, DivideTwice
  <2> QED BY <2>1, <1>0, <1>6 DEF v4
<1>8. v = (v % B) + (v1 % B) * B + v2 * (B * B)
  BY <1>1, <1>2
<1>9. v2 * (B * B) = (v2 % B) * (B * B) + (v3 % B) * (B * B * B) + v4 * (B * B * B * B)
  <2> DEFINE e == v2 % B
             f == v3 % B
  <2>1. v2 = v3 * B + e /\ v3 = v4 * B + f /\ e \in Nat /\ f \in Nat /\ v4 \in Nat
    BY <1>3, <1>4
  <2> HIDE DEF e, f
  <2>2. v2 = v4 * (B * B) + f * B + e
    BY <2>1
  <2>3. v2 * (B * B) = e * (B * B) + f * (B * B * B) + v4 * (B * B * B * B)
    BY <2>1, <2>2
  <2> QED BY <2>3 DEF e, f
<1> DEFINE x == (v1 % B) * B
           y == (v2 % B) * (B * B)
           z == (v3 % B) * (B * B * B)
           u == v4 * (B * B * B * B)
<1>10. v = (v % B) + x + y + z + u
  <2>1. x \in Nat /\ y \in Nat /\ z \in Nat
    BY <1>0, <1>2, <1>3, <1>4, Product
  <2>2. u \in Nat
    <3>1. B * B * B * B \in Nat
      BY <1>0, ProductPositive
    <3> QED BY <3>1, <1>4, Product
  <2>3. v = (v % B) + x + (y + z + u)
    BY <1>8, <1>9
  <2> HIDE DEF x, y, z, u
  <2> QED BY <1>1, <2>1, <2>2, <2>3
<1> QED BY <1>1, <1>5, <1>6, <1>7, <1>8, <1>10 DEF v1

(* The digits of a number are those it was made of.                        *)
FourDigits(a, b, c, d) == a + b * B + c * (B * B) + d * (B * B * B)

Digit(v, power) == (v \div power) % B

LEMMA DigitsOf ==
  ASSUME NEW a \in 0 .. B - 1, NEW b \in 0 .. B - 1, NEW c \in 0 .. B - 1, NEW d \in 0 .. B - 1
  PROVE  /\ FourDigits(a, b, c, d) \in Nat /\ FourDigits(a, b, c, d) % B = a
         /\ Digit(FourDigits(a, b, c, d), B) = b /\ Digit(FourDigits(a, b, c, d), B * B) = c
         /\ Digit(FourDigits(a, b, c, d), B * B * B) = d
         /\ FourDigits(a, b, c, d) \div (B * B * B * B) = 0
<1> B \in Nat \ {0}
  BY BaseIsPositive
<1> DEFINE v == FourDigits(a, b, c, d)
           v3 == d
           v2 == v3 * B + c
           v1 == v2 * B + b
<1>1. v2 \in Nat /\ v1 \in Nat
  <2>1. v2 \in Nat
    BY Product
  <2> HIDE DEF v2
  <2> QED BY <2>1, Product
<1>2. v = v1 * B + a
  BY DEF FourDigits
<1> HIDE DEF v
<1>3. v \in Nat
  <2> HIDE DEF v1
  <2> QED BY <1>1, <1>2, Product
<1>4. v3 \div B = 0 /\ v3 % B = d
  <2>1. (0 * B + d) \div B = 0 /\ (0 * B + d) % B = d
    BY DivideSum
  <2> QED BY <2>1
<1>5. v2 \div B = v3 /\ v2 % B = c
  BY DivideSum
<1> HIDE DEF v2, v3
<1>6. v1 \div B = v2 /\ v1 % B = b
  BY <1>1, DivideSum
<1> HIDE DEF v1
<1>7. v \div B = v1 /\ v % B = a
  BY <1>1, <1>2, DivideSum
<1>8. B * B \in Nat \ {0} /\ B * B * B \in Nat \ {0} /\ B * (B * B) = B * B * B
      /\ B * (B * B * B) = B * B * B * B
  <2>1. B * B \in Nat \ {0}
    BY ProductPositive
  <2>2. B * (B * B) \in Nat \ {0} /\ B * (B * B) = B * B * B
    BY <2>1, ProductPositive
  <2> QED BY <2>1, <2>2
<1>9. v \div (B * B) = v2
  <2>1. (v \div B) \div B = v \div (B * B)
    BY <1>3, DivideTwice
  <2> QED BY <2>1, <1>7, <1>6
<1>10. v \div (B * B * B) = v3
  <2>1. (v \div (B * B)) \div B = v \div (B * (B * B))
    BY <1>3, <1>8, DivideTwice
  <2> QED BY <2>1, <1>8, <1>9, <1>5
<1>11. v \div (B * B * B * B) = 0
  <2>1. (v \div (B * B * B)) \div B = v \div (B * (B * B * B))
    BY <1>3, <1>8, DivideTwice
  <2> QED BY <2>1, <1>8, <1>10, <1>4
<1> QED BY <1>3, <1>4, <1>5, <1>6, <1>7, <1>9, <1>10, <1>11 DEF v, Digit

LEMMA TwoDigits ==
  ASSUME NEW a \in 0 .. B - 1, NEW b \in 0 .. B - 1, NEW v, v = a + b * B
  PROVE  v \in 0 .. B * B - 1 /\ v % B = a /\ (v \div B) % B = b
<1> B \in Nat \ {0}
  BY BaseIsPositive
<1>1. (b * B + a) % B = a /\ (b * B + a) \div B = b /\ b % B = b
  BY DivideSum
<1>2. b * B + a \in 0 .. B * B - 1
  BY Compose
<1>3. v = b * B + a
  <2>1. b * B \in Nat
    BY Product
  <2> QED BY <2>1
<1> QED BY <1>1, <1>2, <1>3

------------------------------------------------------------------------------
(* Samples and their bytes.                                                *)

SampleIn(s, row, column, comp) ==
  LET byte(k) == IF k < tile.bps THEN s[At(row, column, comp, k)] * Weight(k) ELSE 0
  IN  byte(0) + byte(1) + byte(2) + byte(3)

LEMMA Weights ==
  ASSUME tile \in Tiles
  PROVE  /\ Modulus \in Nat \ {0}
         /\ tile.bps = 1 => Modulus = B /\ Weight(0) = 1
         /\ tile.bps = 2 => /\ Modulus = B * B
                            /\ ~tile.big_endian => Weight(0) = 1 /\ Weight(1) = B
                            /\ tile.big_endian => Weight(1) = 1 /\ Weight(0) = B
         /\ tile.bps = 4 => /\ Modulus = B * B * B * B
                            /\ ~tile.big_endian => /\ Weight(0) = 1 /\ Weight(1) = B
                                                   /\ Weight(2) = B * B /\ Weight(3) = B * B * B
                            /\ tile.big_endian => /\ Weight(3) = 1 /\ Weight(2) = B
                                                  /\ Weight(1) = B * B /\ Weight(0) = B * B * B
<1>1. /\ Powers[1] = 1 /\ Powers[2] = B /\ Powers[3] = B * B /\ Powers[4] = B * B * B
      /\ Powers[5] = B * B * B * B
  BY DEF Powers
<1>2. \A k : Weight(k) = Powers[1 + (IF tile.big_endian THEN tile.bps - 1 - k ELSE k)]
  BY DEF Weight
<1>3. Modulus = Powers[1 + tile.bps]
  BY DEF Modulus
<1>4. B \in Nat \ {0} /\ B * B \in Nat \ {0} /\ B * B * B * B \in Nat \ {0}
  <2>1. B * B \in Nat \ {0}
    BY BaseIsPositive, ProductPositive
  <2>2. B * B * B \in Nat \ {0}
    BY <2>1, BaseIsPositive, ProductPositive
  <2> QED BY <2>1, <2>2, BaseIsPositive, ProductPositive
<1> HIDE DEF Powers
<1>5. tile.bps \in {1, 2, 4} /\ tile.big_endian \in BOOLEAN
  BY Shape
<1>6. CASE tile.bps = 1
  <2>1. Modulus = B /\ Weight(0) = 1
    BY <1>1, <1>2, <1>3, <1>5, <1>6
  <2> QED BY <2>1, <1>4, <1>6
<1>7. CASE tile.bps = 2
  <2>1. Modulus = B * B
    BY <1>1, <1>3, <1>7
  <2>2. CASE ~tile.big_endian
    <3>1. Weight(0) = 1 /\ Weight(1) = B
      BY <1>1, <1>2, <1>7, <2>2
    <3> QED BY <3>1, <2>1, <2>2, <1>4, <1>7
  <2>3. CASE tile.big_endian
    <3>1. Weight(1) = 1 /\ Weight(0) = B
      BY <1>1, <1>2, <1>7, <2>3
    <3> QED BY <3>1, <2>1, <2>3, <1>4, <1>7
  <2> QED BY <2>2, <2>3
<1>8. CASE tile.bps = 4
  <2>1. Modulus = B * B * B * B
    BY <1>1, <1>3, <1>8
  <2>2. CASE ~tile.big_endian
    <3>1. Weight(0) = 1 /\ Weight(1) = B /\ Weight(2) = B * B /\ Weight(3) = B * B * B
      BY <1>1, <1>2, <1>8, <2>2
    <3> QED BY <3>1, <2>1, <2>2, <1>4, <1>8
  <2>3. CASE tile.big_endian
    <3>1. Weight(3) = 1 /\ Weight(2) = B /\ Weight(1) = B * B /\ Weight(0) = B * B * B
      BY <1>1, <1>2, <1>8, <2>3
    <3> QED BY <3>1, <2>1, <2>3, <1>4, <1>8
  <2> QED BY <2>2, <2>3
<1> QED BY <1>5, <1>6, <1>7, <1>8

LEMMA BytesOfSample ==
  ASSUME tile \in Tiles, NEW s \in Seq(Bytes), Len(s) = Size,
         NEW row \in Rows, NEW column \in Columns, NEW comp \in Comps
  PROVE  /\ SampleIn(s, row, column, comp) \in 0 .. Modulus - 1
         /\ \A k \in 0 .. tile.bps - 1 :
              (SampleIn(s, row, column, comp) \div Weight(k)) % B = s[At(row, column, comp, k)]
<1> DEFINE v == SampleIn(s, row, column, comp)
           byte(k) == s[At(row, column, comp, k)]
<1> B \in Nat \ {0}
  BY BaseIsPositive
<1>0. tile.bps \in {1, 2, 4} /\ tile.big_endian \in BOOLEAN
  BY Shape
<1>1. \A k \in 0 .. tile.bps - 1 : byte(k) \in 0 .. B - 1
  BY OfPlace, LenProperties DEF Bytes
<1>2. v = (IF 0 < tile.bps THEN byte(0) * Weight(0) ELSE 0) + (IF 1 < tile.bps THEN byte(1) * Weight(1) ELSE 0)
           + (IF 2 < tile.bps THEN byte(2) * Weight(2) ELSE 0) + (IF 3 < tile.bps THEN byte(3) * Weight(3) ELSE 0)
  BY DEF SampleIn
<1> HIDE DEF v, byte
<1>3. CASE tile.bps = 1
  <2>1. byte(0) \in 0 .. B - 1 /\ Weight(0) = 1 /\ Modulus = B /\ v = byte(0)
    BY <1>1, <1>2, <1>3, Weights
  <2>2. (v \div 1) % B = v
    BY <2>1
  <2> QED BY <2>1, <2>2, <1>3 DEF v, byte
<1>4. CASE tile.bps = 2
  <2>1. byte(0) \in 0 .. B - 1 /\ byte(1) \in 0 .. B - 1 /\ Modulus = B * B
        /\ v = byte(0) * Weight(0) + byte(1) * Weight(1)
    <3>1. v = byte(0) * Weight(0) + byte(1) * Weight(1) + 0 + 0
      BY <1>2, <1>4
    <3>2. Weight(0) \in Nat /\ Weight(1) \in Nat
      BY <1>0, <1>4, Weights
    <3> QED BY <3>1, <3>2, <1>1, <1>4, Weights
  <2>2. CASE ~tile.big_endian
    <3>1. Weight(0) = 1 /\ Weight(1) = B
      BY <2>2, <1>4, Weights
    <3>2. v = byte(0) + byte(1) * B
      BY <2>1, <3>1
    <3>3. v \in 0 .. B * B - 1 /\ v % B = byte(0) /\ (v \div B) % B = byte(1)
      BY <3>2, <2>1, TwoDigits
    <3>4. v \div 1 = v
      BY <3>3
    <3> QED BY <3>1, <3>3, <3>4, <2>1, <1>4 DEF v, byte
  <2>3. CASE tile.big_endian
    <3>1. Weight(1) = 1 /\ Weight(0) = B
      BY <2>3, <1>4, Weights
    <3>2. v = byte(1) + byte(0) * B
      BY <2>1, <3>1
    <3>3. v \in 0 .. B * B - 1 /\ v % B = byte(1) /\ (v \div B) % B = byte(0)
      BY <3>2, <2>1, TwoDigits
    <3>4. v \div 1 = v
      BY <3>3
    <3> QED BY <3>1, <3>3, <3>4, <2>1, <1>4 DEF v, byte
  <2> QED BY <2>2, <2>3
<1>5. CASE tile.bps = 4
  <2>1. byte(0) \in 0 .. B - 1 /\ byte(1) \in 0 .. B - 1 /\ byte(2) \in 0 .. B - 1 /\ byte(3) \in 0 .. B - 1
    BY <1>1, <1>5
  <2>2. Modulus = B * B * B * B /\ Modulus \in Nat \ {0}
    BY <1>5, Weights
  <2>3. v = byte(0) * Weight(0) + byte(1) * Weight(1) + byte(2) * Weight(2) + byte(3) * Weight(3)
    BY <1>2, <1>5
  <2>4. ASSUME v \in Nat, v \div (B * B * B * B) = 0 PROVE v \in 0 .. Modulus - 1 /\ v \div 1 = v
    <3>1. v \div Modulus = 0
      BY <2>4, <2>2
    <3>2. v = (v \div Modulus) * Modulus + (v % Modulus) /\ v % Modulus \in 0 .. Modulus - 1
      BY <2>4, <2>2, Divide
    <3>3. v = v % Modulus
      BY <3>1, <3>2, <2>2
    <3> QED BY <3>2, <3>3, <2>4
  <2>5. CASE ~tile.big_endian
    <3>1. Weight(0) = 1 /\ Weight(1) = B /\ Weight(2) = B * B /\ Weight(3) = B * B * B
      BY <2>5, <1>5, Weights
    <3>2. v = byte(0) + byte(1) * B + byte(2) * (B * B) + byte(3) * (B * B * B)
      BY <2>1, <2>3, <3>1
    <3>3. /\ v \in Nat /\ v % B = byte(0) /\ (v \div B) % B = byte(1) /\ (v \div (B * B)) % B = byte(2)
          /\ (v \div (B * B * B)) % B = byte(3) /\ v \div (B * B * B * B) = 0
      <4> DEFINE d0 == byte(0)
                 d1 == byte(1)
                 d2 == byte(2)
                 d3 == byte(3)
      <4>1. v = FourDigits(d0, d1, d2, d3)
        BY <3>2 DEF FourDigits
      <4>2. d0 \in 0 .. B - 1 /\ d1 \in 0 .. B - 1 /\ d2 \in 0 .. B - 1 /\ d3 \in 0 .. B - 1
        BY <2>1
      <4> HIDE DEF d0, d1, d2, d3
      <4>3. /\ FourDigits(d0, d1, d2, d3) \in Nat /\ FourDigits(d0, d1, d2, d3) % B = d0
            /\ Digit(FourDigits(d0, d1, d2, d3), B) = d1 /\ Digit(FourDigits(d0, d1, d2, d3), B * B) = d2 /\ Digit(FourDigits(d0, d1, d2, d3), B * B * B) = d3
            /\ FourDigits(d0, d1, d2, d3) \div (B * B * B * B) = 0
        BY <4>2, DigitsOf
      <4> QED BY <4>1, <4>3, Zenon DEF Digit, d0, d1, d2, d3
    <3>4. v \in 0 .. Modulus - 1 /\ v \div 1 = v
      BY <3>3, <2>4
    <3>5. /\ (v \div Weight(0)) % B = byte(0) /\ (v \div Weight(1)) % B = byte(1)
          /\ (v \div Weight(2)) % B = byte(2) /\ (v \div Weight(3)) % B = byte(3)
      BY <3>1, <3>3, <3>4, Zenon
    <3>6. \A k \in 0 .. 3 : (v \div Weight(k)) % B = byte(k)
      <4> TAKE k \in 0 .. 3
      <4>1. k = 0 \/ k = 1 \/ k = 2 \/ k = 3
        OBVIOUS
      <4> QED BY <4>1, <3>5, Zenon
    <3> QED BY <3>4, <3>6, <1>5 DEF v, byte
  <2>6. CASE tile.big_endian
    <3>1. Weight(3) = 1 /\ Weight(2) = B /\ Weight(1) = B * B /\ Weight(0) = B * B * B
      BY <2>6, <1>5, Weights
    <3>2. v = byte(3) + byte(2) * B + byte(1) * (B * B) + byte(0) * (B * B * B)
      BY <2>1, <2>3, <3>1
    <3>3. /\ v \in Nat /\ v % B = byte(3) /\ (v \div B) % B = byte(2) /\ (v \div (B * B)) % B = byte(1)
          /\ (v \div (B * B * B)) % B = byte(0) /\ v \div (B * B * B * B) = 0
      <4> DEFINE d0 == byte(3)
                 d1 == byte(2)
                 d2 == byte(1)
                 d3 == byte(0)
      <4>1. v = FourDigits(d0, d1, d2, d3)
        BY <3>2 DEF FourDigits
      <4>2. d0 \in 0 .. B - 1 /\ d1 \in 0 .. B - 1 /\ d2 \in 0 .. B - 1 /\ d3 \in 0 .. B - 1
        BY <2>1
      <4> HIDE DEF d0, d1, d2, d3
      <4>3. /\ FourDigits(d0, d1, d2, d3) \in Nat /\ FourDigits(d0, d1, d2, d3) % B = d0
            /\ Digit(FourDigits(d0, d1, d2, d3), B) = d1 /\ Digit(FourDigits(d0, d1, d2, d3), B * B) = d2 /\ Digit(FourDigits(d0, d1, d2, d3), B * B * B) = d3
            /\ FourDigits(d0, d1, d2, d3) \div (B * B * B * B) = 0
        BY <4>2, DigitsOf
      <4> QED BY <4>1, <4>3, Zenon DEF Digit, d0, d1, d2, d3
    <3>4. v \in 0 .. Modulus - 1 /\ v \div 1 = v
      BY <3>3, <2>4
    <3>5. /\ (v \div Weight(0)) % B = byte(0) /\ (v \div Weight(1)) % B = byte(1)
          /\ (v \div Weight(2)) % B = byte(2) /\ (v \div Weight(3)) % B = byte(3)
      BY <3>1, <3>3, <3>4, Zenon
    <3>6. \A k \in 0 .. 3 : (v \div Weight(k)) % B = byte(k)
      <4> TAKE k \in 0 .. 3
      <4>1. k = 0 \/ k = 1 \/ k = 2 \/ k = 3
        OBVIOUS
      <4> QED BY <4>1, <3>5, Zenon
    <3> QED BY <3>4, <3>6, <1>5 DEF v, byte
  <2> QED BY <2>5, <2>6
<1> QED BY <1>0, <1>3, <1>4, <1>5

LEMMA SampleOfBytes ==
  ASSUME tile \in Tiles, NEW s, NEW v \in 0 .. Modulus - 1,
         NEW row, NEW column, NEW comp,
         \A k \in 0 .. tile.bps - 1 : s[At(row, column, comp, k)] = (v \div Weight(k)) % B
  PROVE  SampleIn(s, row, column, comp) = v
<1> DEFINE b(k) == s[At(row, column, comp, k)]
<1> B \in Nat \ {0}
  BY BaseIsPositive
<1>0. tile.bps \in {1, 2, 4} /\ tile.big_endian \in BOOLEAN
  BY Shape
<1>1. SampleIn(s, row, column, comp)
         = (IF 0 < tile.bps THEN b(0) * Weight(0) ELSE 0) + (IF 1 < tile.bps THEN b(1) * Weight(1) ELSE 0)
           + (IF 2 < tile.bps THEN b(2) * Weight(2) ELSE 0) + (IF 3 < tile.bps THEN b(3) * Weight(3) ELSE 0)
  BY DEF SampleIn
<1>2. \A k \in 0 .. tile.bps - 1 : b(k) = (v \div Weight(k)) % B
  OBVIOUS
<1>3. v \in Nat /\ v \div 1 = v
  BY Weights
<1>4. v \div Modulus = 0
  <2>1. Modulus \in Nat \ {0}
    BY Weights
  <2>2. (0 * Modulus + v) \div Modulus = 0
    BY <2>1, DivideSum
  <2> QED BY <2>1, <2>2, <1>3
<1> HIDE DEF b
<1>5. CASE tile.bps = 1
  <2>1. Weight(0) = 1 /\ Modulus = B
    BY <1>5, Weights
  <2>2. b(0) = v % B /\ v % B \in Nat
    BY <1>2, <1>3, <1>5, <2>1, Divide
  <2>3. v = v % B
    <3>1. v = (v % B) + (v \div B) * B
      BY <1>3, Expand, Zenon
    <3> QED BY <3>1, <1>3, <1>4, <2>1, <2>2
  <2> QED BY <1>1, <1>5, <2>1, <2>2, <2>3
<1>6. CASE tile.bps = 2
  <2>1. Modulus = B * B
    BY <1>6, Weights
  <2>2. v = (v % B) + ((v \div B) % B) * B
    <3>1. v = (v % B) + ((v \div B) % B) * B + (v \div (B * B)) * (B * B)
      BY <1>3, Expand
    <3> QED BY <3>1, <1>3, <1>4, <2>1
  <2>3. b(0) = (v \div Weight(0)) % B /\ b(1) = (v \div Weight(1)) % B
    BY <1>2, <1>6
  <2>4. v % B \in Nat /\ (v \div B) % B \in Nat
    <3>1. v % B \in 0 .. B - 1 /\ v \div B \in Nat
      BY <1>3, Divide, Zenon
    <3> QED BY <3>1, Divide
  <2>5. CASE ~tile.big_endian
    <3>1. Weight(0) = 1 /\ Weight(1) = B
      BY <2>5, <1>6, Weights
    <3> QED BY <3>1, <2>2, <2>3, <2>4, <1>1, <1>3, <1>6
  <2>6. CASE tile.big_endian
    <3>1. Weight(1) = 1 /\ Weight(0) = B
      BY <2>6, <1>6, Weights
    <3> QED BY <3>1, <2>2, <2>3, <2>4, <1>1, <1>3, <1>6
  <2> QED BY <2>5, <2>6
<1>7. CASE tile.bps = 4
  <2> DEFINE d0 == v % B
             d1 == (v \div B) % B
             d2 == (v \div (B * B)) % B
             d3 == (v \div (B * B * B)) % B
  <2>1. Modulus = B * B * B * B
    BY <1>7, Weights
  <2>2. B * B \in Nat \ {0} /\ B * B * B \in Nat \ {0}
    <3>1. B * B \in Nat \ {0}
      BY ProductPositive
    <3> QED BY <3>1, ProductPositive
  <2>3. d0 \in Nat /\ d1 \in Nat /\ d2 \in Nat /\ d3 \in Nat
    <3>1. v % B \in 0 .. B - 1 /\ v \div B \in Nat /\ v \div (B * B) \in Nat /\ v \div (B * B * B) \in Nat
      BY <1>3, <2>2, Divide, Zenon
    <3>2. (v \div B) % B \in 0 .. B - 1 /\ (v \div (B * B)) % B \in 0 .. B - 1
          /\ (v \div (B * B * B)) % B \in 0 .. B - 1
      BY <3>1, Divide, Zenon
    <3> QED BY <3>1, <3>2
  <2>4. v = d0 + d1 * B + d2 * (B * B) + d3 * (B * B * B)
    <3>1. v = d0 + d1 * B + d2 * (B * B) + d3 * (B * B * B) + (v \div (B * B * B * B)) * (B * B * B * B)
      BY <1>3, Expand, Zenon
    <3>2. (v \div (B * B * B * B)) * (B * B * B * B) = 0
      BY <1>4, <2>1
    <3>3. d1 * B \in Nat /\ d2 * (B * B) \in Nat /\ d3 * (B * B * B) \in Nat
      BY <2>2, <2>3, Product
    <3> DEFINE x == d1 * B
               y == d2 * (B * B)
               z == d3 * (B * B * B)
               u == (v \div (B * B * B * B)) * (B * B * B * B)
    <3>4. d0 \in Nat /\ x \in Nat /\ y \in Nat /\ z \in Nat /\ u = 0 /\ v = d0 + x + y + z + u
      BY <2>3, <3>1, <3>2, <3>3, Zenon
    <3>5. v = d0 + x + y + z
      <4> HIDE DEF d0, x, y, z, u
      <4> QED BY <3>4
    <3> QED BY <3>5, Zenon
  <2>5. /\ b(0) = (v \div Weight(0)) % B /\ b(1) = (v \div Weight(1)) % B
        /\ b(2) = (v \div Weight(2)) % B /\ b(3) = (v \div Weight(3)) % B
    BY <1>2, <1>7
  <2>6. SampleIn(s, row, column, comp)
          = b(0) * Weight(0) + b(1) * Weight(1) + b(2) * Weight(2) + b(3) * Weight(3)
    BY <1>1, <1>7
  <2>7. CASE ~tile.big_endian
    <3>1. Weight(0) = 1 /\ Weight(1) = B /\ Weight(2) = B * B /\ Weight(3) = B * B * B
      BY <2>7, <1>7, Weights
    <3>2. b(0) = d0 /\ b(1) = d1 /\ b(2) = d2 /\ b(3) = d3
      BY <3>1, <2>5, <1>3
    <3> HIDE DEF d0, d1, d2, d3
    <3> QED BY <3>1, <3>2, <2>3, <2>4, <2>6
  <2>8. CASE tile.big_endian
    <3>1. Weight(3) = 1 /\ Weight(2) = B /\ Weight(1) = B * B /\ Weight(0) = B * B * B
      BY <2>8, <1>7, Weights
    <3>2. b(3) = d0 /\ b(2) = d1 /\ b(1) = d2 /\ b(0) = d3
      BY <3>1, <2>5, <1>3
    <3> DEFINE x == d1 * B
               y == d2 * (B * B)
               z == d3 * (B * B * B)
    <3>3. x \in Nat /\ y \in Nat /\ z \in Nat
      BY <2>2, <2>3, Product
    <3>4. SampleIn(s, row, column, comp) = z + y + x + d0 * 1 /\ v = d0 + x + y + z
      BY <3>1, <3>2, <2>4, <2>6
    <3> HIDE DEF d0, x, y, z
    <3> QED BY <3>3, <3>4, <2>3
  <2> QED BY <2>7, <2>8
<1> QED BY <1>0, <1>5, <1>6, <1>7

LEMMA WeightIsPositive ==
  ASSUME tile \in Tiles, NEW k \in 0 .. tile.bps - 1
  PROVE  Weight(k) \in Nat \ {0}
<1>1. B \in Nat \ {0} /\ B * B \in Nat \ {0} /\ B * B * B \in Nat \ {0}
  <2>1. B * B \in Nat \ {0}
    BY BaseIsPositive, ProductPositive
  <2> QED BY <2>1, BaseIsPositive, ProductPositive
<1>2. tile.bps \in {1, 2, 4} /\ tile.big_endian \in BOOLEAN
  BY Shape
<1>3. CASE tile.bps = 1
  BY <1>3, Weights
<1>4. CASE tile.bps = 2
  <2>1. k = 0 \/ k = 1
    BY <1>4
  <2> QED BY <2>1, <1>1, <1>2, <1>4, Weights
<1>5. CASE tile.bps = 4
  <2>1. k = 0 \/ k = 1 \/ k = 2 \/ k = 3
    BY <1>5
  <2> QED BY <2>1, <1>1, <1>2, <1>5, Weights
<1> QED BY <1>2, <1>3, <1>4, <1>5

LEMMA ByteOfNumber ==
  ASSUME tile \in Tiles, NEW v \in Nat, NEW k \in 0 .. tile.bps - 1
  PROVE  (v \div Weight(k)) % B \in Bytes
<1>1. v \div Weight(k) \in Nat
  BY WeightIsPositive, Divide
<1>2. (v \div Weight(k)) % B \in 0 .. B - 1
  BY <1>1, BaseIsPositive, Divide
<1> QED BY <1>2 DEF Bytes

------------------------------------------------------------------------------
(* Tiles of which some columns are differenced.                            *)

Orig(r, x, c) == SampleIn(tile.bytes, r, x, c)
Before(r, x, c) == IF x = 0 THEN 0 ELSE Orig(r, x - 1, c)
Difference(r, x, c) == (Orig(r, x, c) - Before(r, x, c)) % Modulus

Mix(S) ==
  [i \in 1 .. Size |->
     IF ColumnOf(i - 1) \in S
       THEN (Difference(RowOf(i - 1), ColumnOf(i - 1), CompOf(i - 1))
               \div Weight((i - 1) % tile.bps)) % B
     ELSE tile.bytes[i]]

CarryAt(n) == [r \in Rows |-> [c \in Comps |-> Before(r, n, c)]]

LEMMA SamplesAreNumbers ==
  ASSUME tile \in Tiles, NEW r \in Rows, NEW x \in Columns, NEW c \in Comps
  PROVE  /\ Modulus \in Nat \ {0}
         /\ Orig(r, x, c) \in 0 .. Modulus - 1 /\ Before(r, x, c) \in 0 .. Modulus - 1
         /\ Difference(r, x, c) \in 0 .. Modulus - 1
         /\ (Before(r, x, c) + Difference(r, x, c)) % Modulus = Orig(r, x, c)
<1>1. Modulus \in Nat \ {0}
  BY Weights
<1>2. tile.bytes \in Seq(Bytes) /\ Len(tile.bytes) = Size
  BY Shape DEF Size
<1>3. \A y \in Columns : Orig(r, y, c) \in 0 .. Modulus - 1
  BY <1>2, BytesOfSample DEF Orig
<1>4. Before(r, x, c) \in 0 .. Modulus - 1
  <2>1. CASE x = 0
    BY <2>1, <1>1 DEF Before
  <2>2. CASE x # 0
    <3>1. x - 1 \in Columns
      BY <2>2, Shape DEF Columns
    <3> QED BY <3>1, <2>2, <1>3 DEF Before
  <2> QED BY <2>1, <2>2
<1> QED BY <1>1, <1>3, <1>4, ModuloSum DEF Difference

LEMMA MixOfBytes ==
  ASSUME tile \in Tiles, NEW S
  PROVE  Mix(S) \in Seq(Bytes) /\ Len(Mix(S)) = Size
<1>1. \A i \in 1 .. Size : Mix(S)[i] \in Bytes
  <2> TAKE i \in 1 .. Size
  <2>1. /\ RowOf(i - 1) \in Rows /\ ColumnOf(i - 1) \in Columns /\ CompOf(i - 1) \in Comps
        /\ (i - 1) % tile.bps \in 0 .. tile.bps - 1
    BY PlaceOf
  <2> DEFINE v == Difference(RowOf(i - 1), ColumnOf(i - 1), CompOf(i - 1))
             k == (i - 1) % tile.bps
  <2>2. v \in Nat
    BY <2>1, SamplesAreNumbers
  <2>3. (v \div Weight(k)) % B \in Bytes
    <3> HIDE DEF v
    <3> QED BY <2>1, <2>2, ByteOfNumber
  <2>4. tile.bytes[i] \in Bytes
    BY Shape DEF Size
  <2> QED BY <2>3, <2>4 DEF Mix
<1>2. Mix(S) = [i \in 1 .. Size |-> Mix(S)[i]] /\ Size \in Nat
  BY Shape DEF Mix
<1>3. Mix(S) \in [1 .. Size -> Bytes]
  BY <1>1, <1>2
<1> QED BY <1>2, <1>3, SeqDef, LenProperties

LEMMA MixSample ==
  ASSUME tile \in Tiles, NEW S, NEW r \in Rows, NEW x \in Columns, NEW c \in Comps
  PROVE  SampleIn(Mix(S), r, x, c) = IF x \in S THEN Difference(r, x, c) ELSE Orig(r, x, c)
<1>1. \A k \in 0 .. tile.bps - 1 :
        Mix(S)[At(r, x, c, k)] = IF x \in S THEN (Difference(r, x, c) \div Weight(k)) % B
                                 ELSE tile.bytes[At(r, x, c, k)]
  <2> TAKE k \in 0 .. tile.bps - 1
  <2> DEFINE i == At(r, x, c, k)
  <2>1. /\ i \in 1 .. Size /\ RowOf(i - 1) = r /\ ColumnOf(i - 1) = x /\ CompOf(i - 1) = c
        /\ (i - 1) % tile.bps = k
    BY OfPlace
  <2> HIDE DEF i
  <2>2. Mix(S)[i] = IF ColumnOf(i - 1) \in S
                      THEN (Difference(RowOf(i - 1), ColumnOf(i - 1), CompOf(i - 1))
                              \div Weight((i - 1) % tile.bps)) % B
                    ELSE tile.bytes[i]
    BY <2>1 DEF Mix
  <2>3. Mix(S)[i] = IF x \in S THEN (Difference(r, x, c) \div Weight(k)) % B ELSE tile.bytes[i]
    BY <2>1, <2>2, Zenon
  <2> QED BY <2>3 DEF i
<1>2. CASE x \in S
  <2>1. Difference(r, x, c) \in 0 .. Modulus - 1
    BY SamplesAreNumbers
  <2>2. \A k \in 0 .. tile.bps - 1 : Mix(S)[At(r, x, c, k)] = (Difference(r, x, c) \div Weight(k)) % B
    BY <1>1, <1>2, Zenon
  <2>3. SampleIn(Mix(S), r, x, c) = Difference(r, x, c)
    <3> DEFINE v == Difference(r, x, c)
    <3> HIDE DEF v
    <3>1. v \in 0 .. Modulus - 1 /\ \A k \in 0 .. tile.bps - 1 : Mix(S)[At(r, x, c, k)] = (v \div Weight(k)) % B
      BY <2>1, <2>2 DEF v
    <3>2. SampleIn(Mix(S), r, x, c) = v
      BY <3>1, SampleOfBytes
    <3> QED BY <3>2 DEF v
  <2> QED BY <2>3, <1>2
<1>3. CASE x \notin S
  <2>1. Orig(r, x, c) \in 0 .. Modulus - 1
    BY SamplesAreNumbers
  <2>2. tile.bytes \in Seq(Bytes) /\ Len(tile.bytes) = Size
    BY Shape DEF Size
  <2>3. \A k \in 0 .. tile.bps - 1 : tile.bytes[At(r, x, c, k)] = (Orig(r, x, c) \div Weight(k)) % B
    BY <2>2, BytesOfSample DEF Orig
  <2>4. \A k \in 0 .. tile.bps - 1 : Mix(S)[At(r, x, c, k)] = (Orig(r, x, c) \div Weight(k)) % B
    BY <2>3, <1>1, <1>3, Zenon
  <2> QED BY <2>1, <2>4, <1>3, SampleOfBytes
<1> QED BY <1>2, <1>3

LEMMA MixNothing ==
  ASSUME tile \in Tiles
  PROVE  Mix({}) = tile.bytes
<1>1. tile.bytes \in Seq(Bytes) /\ Len(tile.bytes) = Size
  BY Shape DEF Size
<1>2. tile.bytes = [i \in 1 .. Size |-> tile.bytes[i]]
  BY <1>1, LenProperties
<1>3. Mix({}) = [i \in 1 .. Size |-> tile.bytes[i]]
  BY DEF Mix
<1> QED BY <1>2, <1>3

LEMMA ReadMix ==
  ASSUME NEW S, data = Mix(S)
  PROVE  \A r, x, c : ReadSample(r, x, c) = SampleIn(Mix(S), r, x, c)
BY DEF ReadSample, SampleIn, At

(* Writing a column of differences, and one of the samples themselves.     *)
LEMMA WriteDifferences ==
  ASSUME tile \in Tiles, NEW S, data = Mix(S), NEW x \in Columns, NEW value,
         \A r \in Rows, c \in Comps : value[r][c] = Difference(r, x, c)
  PROVE  WriteColumn(x, value) = Mix(S \cup {x})
<1>1. DOMAIN data = 1 .. Size
  BY DEF Mix
<1>2. \A i \in 1 .. Size : WriteColumn(x, value)[i] = Mix(S \cup {x})[i]
  <2> TAKE i \in 1 .. Size
  <2>1. RowOf(i - 1) \in Rows /\ CompOf(i - 1) \in Comps
    BY PlaceOf
  <2>2. WriteColumn(x, value)[i]
          = IF ColumnOf(i - 1) # x THEN data[i]
            ELSE (value[RowOf(i - 1)][CompOf(i - 1)] \div Weight((i - 1) % tile.bps)) % B
    BY <1>1 DEF WriteColumn
  <2>3. CASE ColumnOf(i - 1) # x
    BY <2>2, <2>3 DEF Mix
  <2>4. CASE ColumnOf(i - 1) = x
    <3>1. value[RowOf(i - 1)][CompOf(i - 1)] = Difference(RowOf(i - 1), ColumnOf(i - 1), CompOf(i - 1))
      BY <2>1, <2>4
    <3> QED BY <3>1, <2>2, <2>4 DEF Mix
  <2> QED BY <2>3, <2>4
<1>3. WriteColumn(x, value) = [i \in 1 .. Size |-> WriteColumn(x, value)[i]]
  BY <1>1 DEF WriteColumn
<1>4. Mix(S \cup {x}) = [i \in 1 .. Size |-> Mix(S \cup {x})[i]]
  BY DEF Mix
<1> HIDE DEF WriteColumn, Mix
<1> QED BY <1>2, <1>3, <1>4

LEMMA WriteSamples ==
  ASSUME tile \in Tiles, NEW S, data = Mix(S), NEW x \in Columns, NEW value,
         \A r \in Rows, c \in Comps : value[r][c] = Orig(r, x, c)
  PROVE  WriteColumn(x, value) = Mix(S \ {x})
<1>1. DOMAIN data = 1 .. Size
  BY DEF Mix
<1>2. \A i \in 1 .. Size : WriteColumn(x, value)[i] = Mix(S \ {x})[i]
  <2> TAKE i \in 1 .. Size
  <2>1. /\ RowOf(i - 1) \in Rows /\ CompOf(i - 1) \in Comps
        /\ (i - 1) % tile.bps \in 0 .. tile.bps - 1
        /\ i = At(RowOf(i - 1), ColumnOf(i - 1), CompOf(i - 1), (i - 1) % tile.bps)
    BY PlaceOf
  <2>2. WriteColumn(x, value)[i]
          = IF ColumnOf(i - 1) # x THEN data[i]
            ELSE (value[RowOf(i - 1)][CompOf(i - 1)] \div Weight((i - 1) % tile.bps)) % B
    BY <1>1 DEF WriteColumn
  <2>3. CASE ColumnOf(i - 1) # x
    BY <2>2, <2>3 DEF Mix
  <2>4. CASE ColumnOf(i - 1) = x
    <3> DEFINE r == RowOf(i - 1)
               c == CompOf(i - 1)
               k == (i - 1) % tile.bps
    <3>1. value[r][c] = Orig(r, x, c)
      BY <2>1
    <3>2. tile.bytes \in Seq(Bytes) /\ Len(tile.bytes) = Size
      BY Shape DEF Size
    <3>3. (Orig(r, x, c) \div Weight(k)) % B = tile.bytes[At(r, x, c, k)]
      <4> HIDE DEF r, c, k
      <4>1. r \in Rows /\ c \in Comps /\ k \in 0 .. tile.bps - 1
        BY <2>1 DEF r, c, k
      <4> QED BY <4>1, <3>2, BytesOfSample DEF Orig
    <3>4. WriteColumn(x, value)[i] = tile.bytes[i]
      BY <3>1, <3>3, <2>1, <2>2, <2>4
    <3>5. Mix(S \ {x})[i] = tile.bytes[i]
      BY <2>4 DEF Mix
    <3> QED BY <3>4, <3>5
  <2> QED BY <2>3, <2>4
<1>3. WriteColumn(x, value) = [i \in 1 .. Size |-> WriteColumn(x, value)[i]]
  BY <1>1 DEF WriteColumn
<1>4. Mix(S \ {x}) = [i \in 1 .. Size |-> Mix(S \ {x})[i]]
  BY DEF Mix
<1> HIDE DEF WriteColumn, Mix
<1> QED BY <1>2, <1>3, <1>4


------------------------------------------------------------------------------
(* The inductive invariant.                                                *)

Phrases == Seq(Bytes) \ {<< >>}
PhraseTables == UNION {[D -> FirstDictionaryCode .. MaxDictionaryCode - 2] : D \in SUBSET Seq(Bytes)}

Typed ==
  /\ tile \in Tiles /\ scheme \in {"Lzw", "PackBits"} /\ predictor \in BOOLEAN /\ foreign \in BOOLEAN
  /\ stage \in {"apply", "code", "undo", "done", "failed"}
  /\ data \in Seq(Bytes) /\ Len(data) = Size
  /\ carry \in [Rows -> [Comps -> Nat]]
  /\ col \in 0 .. tile.row_width /\ pos \in 0 .. Size + 1 /\ noise \in 0 .. MaxNoise
  /\ enc \in [current : Seq(Bytes), table : PhraseTables,
              next_code : FirstDictionaryCode .. MaxDictionaryCode - 1]

(* The decoder, of any stream.                                             *)
IsDecoder(d) ==
  /\ d = [table |-> d.table, next_code |-> d.next_code,
          code_width |-> CodeWidthFor(d.next_code), old_entry |-> d.old_entry]
  /\ d.next_code \in FirstDictionaryCode .. MaxDictionaryCode + 1
  /\ d.table \in [FirstDictionaryCode .. d.next_code - 1 -> Phrases]
  /\ d.old_entry \in Seq(Bytes)

DecoderTyped ==
  /\ IsDecoder(dec)
  /\ output \in Seq(Bytes) /\ Len(output) <= Size
  /\ stage = "undo" => Len(output) = Size
  /\ foreign => codes = << >> /\ stage # "apply"

(* Before the encoder starts.                                              *)
NotStarted ==
  /\ pos = 0 /\ enc = [current |-> << >>, table |-> NoPhrases, next_code |-> FirstDictionaryCode]
  /\ codes = << >> /\ output = << >> /\ dec = FreshDecoder
  /\ written = [table_size |-> FirstDictionaryCode, have_previous |-> FALSE]

(* The columns that are differenced, and the samples before the next one.  *)
Differenced ==
  IF ~predictor THEN {}
  ELSE IF stage = "apply" THEN 0 .. col - 1
  ELSE IF stage = "code" THEN Columns
  ELSE IF stage = "undo" THEN col .. tile.row_width - 1
  ELSE {}

Predicted ==
  /\ stage # "failed"
  /\ data = Mix(Differenced)
  /\ stage \in {"apply", "code", "undo"} => carry = CarryAt(col)
  /\ stage = "code" => col = 0

(* The bytes of s are those of the whole behind the first n.               *)
Matches(whole, s, n) ==
  n + Len(s) <= Len(whole) /\ \A i \in 1 .. Len(s) : s[i] = whole[n + i]

(* The encoder's phrases are those of decoder d, but for the one that the  *)
(* decoder adds when it knows the first byte of the next phrase.           *)
Agrees(e, d, first) ==
  /\ e.next_code = d.next_code + (IF d.old_entry = << >> THEN 0 ELSE 1)
  /\ \A p \in DOMAIN e.table :
       \/ e.table[p] \in DOMAIN d.table /\ d.table[e.table[p]] = p
       \/ d.old_entry # << >> /\ e.table[p] = d.next_code /\ p = Append(d.old_entry, first)
  /\ \A c \in DOMAIN d.table : d.table[c] \in DOMAIN e.table /\ e.table[d.table[c]] = c
  /\ d.old_entry # << >> =>
       /\ Append(d.old_entry, first) \in DOMAIN e.table
       /\ e.table[Append(d.old_entry, first)] = d.next_code

NoEntries == enc.table = NoPhrases /\ enc.next_code = FirstDictionaryCode

(* The encoder holds one byte, the one behind the first n.                 *)
Holds(n) == pos = n + 1 /\ pos <= Size /\ enc.current = <<data[pos]>>

Collecting ==
  /\ codes = << >> /\ pos <= Size
  /\ enc.current # << >> /\ pos = Len(output) + Len(enc.current)
  /\ Matches(data, enc.current, Len(output))
  /\ Len(enc.current) = 1 \/ enc.current \in DOMAIN enc.table
  /\ Agrees(enc, dec, enc.current[1])

Cleared == codes = <<ClearCode>> /\ Holds(Len(output)) /\ NoEntries

Sent(code, entry) ==
  /\ code \in Nat \ {ClearCode, EoiCode} /\ code <= dec.next_code /\ dec.next_code < MaxDictionaryCode
  /\ entry # << >> /\ Matches(data, entry, Len(output))
  /\ \/ /\ codes = <<code>> /\ Holds(Len(output) + Len(entry))
        /\ Agrees(enc, DecoderAfter(entry), data[pos])
     \/ codes = <<code, ClearCode>> /\ Holds(Len(output) + Len(entry)) /\ NoEntries
     \/ codes = <<code, EoiCode>> /\ pos = Size + 1 /\ Len(output) + Len(entry) = Size

Ending == codes = <<EoiCode>> /\ pos = Size + 1 /\ Len(output) = Size

LzwInv ==
  /\ written = [table_size |-> dec.next_code, have_previous |-> dec.old_entry # << >>]
  /\ Matches(data, output, 0)
  /\ IsFiniteSet(DOMAIN enc.table)
  /\ Cardinality(DOMAIN enc.table) = enc.next_code - FirstDictionaryCode
  /\ Collecting \/ Cleared \/ Sent(codes[1], Entry(codes[1])) \/ Ending

Literal(t) ==
  /\ codes = <<t>> /\ t = [control |-> t.control, bytes |-> t.bytes]
  /\ t.control \in Nat /\ t.bytes \in Phrases
  /\ Matches(data, t.bytes, Len(output)) /\ pos = Len(output) + Len(t.bytes)

(* A run that is sent in m chunks, all but the last of MaxRun bytes.       *)
Run(m) ==
  LET rest == pos - Len(output) - MaxRun * (m - 1) IN
  /\ m \in Nat \ {0} /\ rest \in 1 .. MaxRun
  /\ codes = [k \in 1 .. m |-> Repeat(IF k < m THEN MaxRun ELSE rest, data[pos])]
  /\ \A i \in Len(output) + 1 .. pos : data[i] = data[pos]

PackInv ==
  /\ Matches(data, output, 0) /\ Len(output) < Size /\ pos <= Size
  /\ \/ codes = << >> /\ pos = Len(output)
     \/ Literal(codes[1])
     \/ Run(Len(codes))

Inv ==
  /\ Typed /\ DecoderTyped
  /\ stage = "apply" => NotStarted
  /\ ~foreign => Predicted
  /\ stage = "code" /\ ~foreign /\ scheme = "Lzw" => LzwInv
  /\ stage = "code" /\ ~foreign /\ scheme = "PackBits" => PackInv

------------------------------------------------------------------------------
(* What does not change with the tile.                                     *)

LEMMA Constants ==
  /\ B \in Nat \ {0} /\ ClearCode = B /\ EoiCode = B + 1 /\ FirstDictionaryCode = B + 2
  /\ FirstDictionaryCode \in Nat /\ MaxDictionaryCode \in Nat
  /\ FirstDictionaryCode < MaxDictionaryCode
  /\ MaxRun \in Nat /\ MaxRun >= 2 /\ MaxNoise \in Nat
BY CodecAssumption DEF ClearCode, EoiCode, FirstDictionaryCode

LEMMA TileUnchanged ==
  ASSUME tile' = tile
  PROVE  /\ Size' = Size /\ Rows' = Rows /\ Comps' = Comps /\ Columns' = Columns
         /\ \A S : Mix(S)' = Mix(S)
         /\ \A n : CarryAt(n)' = CarryAt(n)
<1>1. Size' = Size /\ Pixel' = Pixel /\ Modulus' = Modulus /\ Comps' = Comps /\ Columns' = Columns
  BY DEF Size, Pixel, Modulus, Comps, Columns
<1>2. Stride' = Stride
  BY <1>1 DEF Stride
<1>3. Rows' = Rows
  BY <1>1, <1>2 DEF Rows
<1>4. \A i : RowOf(i)' = RowOf(i) /\ ColumnOf(i)' = ColumnOf(i) /\ CompOf(i)' = CompOf(i)
  BY <1>1, <1>2, Zenon DEF RowOf, ColumnOf, CompOf
<1>5. \A k : Weight(k)' = Weight(k)
  BY Zenon DEF Weight
<1>6. \A s, r, x, c : SampleIn(s, r, x, c)' = SampleIn(s, r, x, c)
  <2>1. \A r, x, c, k : At(r, x, c, k)' = At(r, x, c, k)
    BY <1>1, <1>2, Zenon DEF At
  <2> QED BY <1>5, <2>1 DEF SampleIn
<1>7. \A r, x, c : Orig(r, x, c)' = Orig(r, x, c)
  BY <1>6, Zenon DEF Orig
<1>8. \A r, x, c : Before(r, x, c)' = Before(r, x, c)
  BY <1>7, Zenon DEF Before
<1>9. \A r, x, c : Difference(r, x, c)' = Difference(r, x, c)
  BY <1>1, <1>7, <1>8, Zenon DEF Difference
<1>10. \A S : Mix(S)' = Mix(S)
  BY <1>1, <1>4, <1>5, <1>9, Zenon DEF Mix
<1>11. \A n : CarryAt(n)' = CarryAt(n)
  BY <1>1, <1>3, <1>8, Zenon DEF CarryAt
<1> QED BY <1>1, <1>3, <1>10, <1>11

LEMMA FreshWidth == CodeWidthFor(FirstDictionaryCode) = FirstWidth
<1> DEFINE P(w) == /\ w = LastWidth \/ FirstDictionaryCode < 2^w - 1
                   /\ \A v \in FirstWidth .. w - 1 : FirstDictionaryCode >= 2^v - 1
<1>1. FirstWidth \in FirstWidth .. LastWidth /\ P(FirstWidth)
  BY CodecAssumption DEF FirstDictionaryCode
<1>2. ASSUME NEW w \in FirstWidth .. LastWidth, P(w) PROVE w = FirstWidth
  <2>1. SUFFICES ASSUME w # FirstWidth PROVE FALSE
    OBVIOUS
  <2>2. FirstWidth \in FirstWidth .. w - 1
    BY <2>1, CodecAssumption
  <2>3. FirstDictionaryCode >= 2^FirstWidth - 1
    BY <1>2, <2>2
  <2> QED BY <2>3, CodecAssumption DEF FirstDictionaryCode
<1>3. CodeWidthFor(FirstDictionaryCode) = CHOOSE w \in FirstWidth .. LastWidth : P(w)
  BY DEF CodeWidthFor
<1> HIDE DEF P
<1> QED BY <1>1, <1>2, <1>3

LEMMA FreshIsTyped ==
  /\ FreshDecoder.next_code = FirstDictionaryCode /\ FreshDecoder.old_entry = << >>
  /\ FreshDecoder.code_width = CodeWidthFor(FirstDictionaryCode)
  /\ FreshDecoder = [table |-> FreshDecoder.table, next_code |-> FreshDecoder.next_code,
                     code_width |-> FreshDecoder.code_width, old_entry |-> FreshDecoder.old_entry]
  /\ FreshDecoder.table \in [FirstDictionaryCode .. FirstDictionaryCode - 1 -> Phrases]
  /\ DOMAIN FreshDecoder.table = {}
<1>1. FirstDictionaryCode .. FirstDictionaryCode - 1 = {}
  BY Constants
<1>2. FreshDecoder.table \in [{} -> Phrases]
  BY DEF FreshDecoder
<1> QED BY <1>1, <1>2, FreshWidth DEF FreshDecoder

LEMMA Start ==
  ASSUME Init
  PROVE  Inv
<1> USE DEF Init
<1>1. tile \in Tiles
  OBVIOUS
<1>2. /\ tile.bytes \in Seq(Bytes) /\ Size = Len(tile.bytes) /\ Size \in Nat \ {0}
      /\ tile.row_width \in Nat
  BY <1>1, Shape DEF Size
<1>3. Typed
  <2>1. enc \in [current : Seq(Bytes), table : PhraseTables,
              next_code : FirstDictionaryCode .. MaxDictionaryCode - 1]
    <3>1. NoPhrases \in PhraseTables
      <4>1. NoPhrases \in [{} -> FirstDictionaryCode .. MaxDictionaryCode - 2]
        BY DEF NoPhrases
      <4> QED BY <4>1 DEF PhraseTables
    <3> QED BY <3>1, Constants
  <2>2. carry \in [Rows -> [Comps -> Nat]]
    BY DEF ZeroCarry
  <2> QED BY <1>1, <1>2, <2>1, <2>2, Constants DEF Typed
<1>4. DecoderTyped
  BY <1>2, FreshIsTyped, Constants DEF DecoderTyped, IsDecoder
<1>5. NotStarted
  BY DEF NotStarted
<1>6. ASSUME ~foreign PROVE Predicted
  <2>1. stage = "apply" /\ col = 0
    BY <1>6
  <2>2. Differenced = {}
    <3>1. 0 .. 0 - 1 = {}
      OBVIOUS
    <3> QED BY <2>1, <3>1 DEF Differenced
  <2>3. data = Mix({})
    BY MixNothing
  <2>4. carry = CarryAt(0)
    BY DEF ZeroCarry, CarryAt, Before
  <2> QED BY <2>1, <2>2, <2>3, <2>4 DEF Predicted
<1>7. stage = "code" => foreign
  OBVIOUS
<1> QED BY <1>3, <1>4, <1>5, <1>6, <1>7 DEF Inv

------------------------------------------------------------------------------
(* The predictor's steps.                                                  *)

LEMMA CarryIsTyped ==
  ASSUME tile \in Tiles, NEW n \in 0 .. tile.row_width
  PROVE  CarryAt(n) \in [Rows -> [Comps -> Nat]]
<1>1. \A r \in Rows, c \in Comps : Before(r, n, c) \in Nat
  <2> TAKE r \in Rows, c \in Comps
  <2>1. CASE n = 0
    BY <2>1 DEF Before
  <2>2. CASE n # 0
    <3>1. n - 1 \in Columns
      BY <2>2, Shape DEF Columns
    <3>2. Orig(r, n - 1, c) \in Nat
      BY <3>1, SamplesAreNumbers
    <3> QED BY <3>2, <2>2 DEF Before
  <2> QED BY <2>1, <2>2
<1> HIDE DEF Before
<1> QED BY <1>1 DEF CarryAt

LEMMA ApplyColumnStep ==
  ASSUME Inv, ApplyColumn
  PROVE  Inv'
<1> DEFINE S == 0 .. col - 1
<1>1. /\ Typed /\ DecoderTyped /\ NotStarted /\ Predicted /\ ~foreign
      /\ stage = "apply" /\ predictor /\ tile \in Tiles
  BY DEF Inv, ApplyColumn, DecoderTyped, Typed
<1>2. col \in Columns /\ col + 1 \in 0 .. tile.row_width /\ col \in Nat
  <2>1. tile.row_width \in Nat
    BY <1>1, Shape
  <2>2. col \in 0 .. tile.row_width /\ col < tile.row_width
    BY <1>1 DEF Typed, ApplyColumn
  <2> QED BY <2>1, <2>2 DEF Columns
<1>3. data = Mix(S) /\ carry = CarryAt(col)
  BY <1>1 DEF Predicted, Differenced
<1>4. \A r \in Rows, c \in Comps :
        ReadSample(r, col, c) = Orig(r, col, c) /\ Previous(r, c) = Before(r, col, c)
  <2> TAKE r \in Rows, c \in Comps
  <2>1. ReadSample(r, col, c) = SampleIn(Mix(S), r, col, c)
    BY <1>3, ReadMix
  <2>2. col \notin S
    BY <1>2
  <2>3. SampleIn(Mix(S), r, col, c) = Orig(r, col, c)
    BY <1>1, <1>2, <2>2, MixSample
  <2>4. Previous(r, c) = Before(r, col, c)
    BY <1>3, Zenon DEF Previous, CarryAt
  <2> QED BY <2>1, <2>3, <2>4
<1>5. data' = Mix(S \cup {col})
  <2> DEFINE value == [r \in Rows |-> [c \in Comps |->
                         (ReadSample(r, col, c) - Previous(r, c)) % Modulus]]
  <2>1. data' = WriteColumn(col, value)
    BY DEF ApplyColumn
  <2>2. \A r \in Rows, c \in Comps : value[r][c] = Difference(r, col, c)
    BY <1>4, Zenon DEF Difference
  <2> HIDE DEF value
  <2> QED BY <1>1, <1>2, <1>3, <2>1, <2>2, WriteDifferences
<1>6. carry' = CarryAt(col + 1)
  <2>1. \A r \in Rows, c \in Comps : Before(r, col + 1, c) = Orig(r, col, c)
    <3>1. col + 1 # 0 /\ (col + 1) - 1 = col
      BY <1>2
    <3> QED BY <3>1 DEF Before
  <2>2. carry' = [r \in Rows |-> [c \in Comps |-> ReadSample(r, col, c)]]
    BY DEF ApplyColumn
  <2> QED BY <1>4, <2>1, <2>2, Zenon DEF CarryAt
<1>7. /\ tile' = tile /\ scheme' = scheme /\ predictor' = predictor /\ foreign' = foreign
      /\ stage' = stage /\ pos' = pos /\ coding' = coding /\ col' = col + 1
  BY DEF ApplyColumn
<1>8. Size' = Size /\ Rows' = Rows /\ Comps' = Comps
      /\ \A X : Mix(X)' = Mix(X) /\ \A n : CarryAt(n)' = CarryAt(n)
  BY <1>7, TileUnchanged
<1>9. data' \in Seq(Bytes) /\ Len(data') = Size
  BY <1>1, <1>5, MixOfBytes
<1>10. Typed'
  <2>1. CarryAt(col + 1) \in [Rows -> [Comps -> Nat]]
    BY <1>1, <1>2, CarryIsTyped
  <2> QED BY <1>1, <1>2, <1>6, <1>7, <1>8, <1>9, <2>1 DEF Typed, coding, Bytes, FirstDictionaryCode, PhraseTables
<1>11. DecoderTyped'
  BY <1>1, <1>7, <1>8 DEF DecoderTyped, IsDecoder, coding, Phrases, Bytes, FirstDictionaryCode, CodeWidthFor
<1>12. NotStarted'
  BY <1>1, <1>7 DEF NotStarted, coding, NoPhrases, FirstDictionaryCode, FreshDecoder
<1>13. Predicted'
  <2>1. S \cup {col} = 0 .. (col + 1) - 1
    BY <1>2
  <2>2. Differenced' = S \cup {col}
    BY <1>1, <1>7, <2>1 DEF Differenced
  <2> QED BY <1>1, <1>5, <1>6, <1>7, <1>8, <2>2 DEF Predicted
<1> QED BY <1>1, <1>7, <1>10, <1>11, <1>12, <1>13 DEF Inv

LEMMA UndoColumnStep ==
  ASSUME Inv, UndoColumn
  PROVE  Inv'
<1>1. Typed /\ DecoderTyped /\ (~foreign => Predicted) /\ stage = "undo" /\ predictor /\ tile \in Tiles
  BY DEF Inv, UndoColumn, Typed
<1>2. col \in Columns /\ col + 1 \in 0 .. tile.row_width /\ col \in Nat /\ tile.row_width \in Nat
  <2>1. tile.row_width \in Nat
    BY <1>1, Shape
  <2>2. col \in 0 .. tile.row_width /\ col < tile.row_width
    BY <1>1 DEF Typed, UndoColumn
  <2> QED BY <2>1, <2>2 DEF Columns
<1>3. /\ tile' = tile /\ scheme' = scheme /\ predictor' = predictor /\ foreign' = foreign
      /\ stage' = stage /\ pos' = pos /\ coding' = coding /\ col' = col + 1
      /\ data' = WriteColumn(col, RunningSum) /\ carry' = RunningSum
  BY DEF UndoColumn
<1>4. Size' = Size /\ Rows' = Rows /\ Comps' = Comps
      /\ \A X : Mix(X)' = Mix(X) /\ \A n : CarryAt(n)' = CarryAt(n)
  BY <1>3, TileUnchanged
<1>5. RunningSum \in [Rows -> [Comps -> Nat]]
  <2>1. \A r \in Rows, c \in Comps : (carry[r][c] + ReadSample(r, col, c)) % Modulus \in Nat
    <3> TAKE r \in Rows, c \in Comps
    <3>1. carry[r][c] \in Nat
      BY <1>1 DEF Typed
    <3>2. ReadSample(r, col, c) \in Nat
      <4>1. SampleIn(data, r, col, c) \in 0 .. Modulus - 1
        BY <1>1, <1>2, BytesOfSample DEF Typed
      <4>2. ReadSample(r, col, c) = SampleIn(data, r, col, c)
        BY DEF ReadSample, SampleIn, At
      <4> QED BY <1>1, <4>1, <4>2, Weights
    <3>3. Modulus \in Nat \ {0}
      BY <1>1, Weights
    <3> DEFINE v == carry[r][c] + ReadSample(r, col, c)
    <3>4. v \in Nat
      BY <3>1, <3>2
    <3> HIDE DEF v
    <3>5. v % Modulus \in Nat
      BY <3>3, <3>4, Divide
    <3> QED BY <3>5 DEF v
  <2> QED BY <2>1 DEF RunningSum
<1>6. WriteColumn(col, RunningSum) \in Seq(Bytes) /\ Len(WriteColumn(col, RunningSum)) = Size
  <2> DEFINE w == WriteColumn(col, RunningSum)
  <2>1. data \in Seq(Bytes) /\ Len(data) = Size /\ DOMAIN data = 1 .. Size /\ Size \in Nat
    BY <1>1, Shape DEF Typed
  <2>2. \A i \in 1 .. Size : w[i] \in Bytes
    <3> TAKE i \in 1 .. Size
    <3>1. /\ RowOf(i - 1) \in Rows /\ CompOf(i - 1) \in Comps
          /\ (i - 1) % tile.bps \in 0 .. tile.bps - 1
      BY <1>1, PlaceOf
    <3>2. RunningSum[RowOf(i - 1)][CompOf(i - 1)] \in Nat
      BY <3>1, <1>5
    <3>3. (RunningSum[RowOf(i - 1)][CompOf(i - 1)] \div Weight((i - 1) % tile.bps)) % B \in Bytes
      BY <1>1, <3>1, <3>2, ByteOfNumber
    <3> HIDE DEF RunningSum
    <3> QED BY <2>1, <3>3 DEF WriteColumn
  <2>3. w = [i \in 1 .. Size |-> w[i]]
    BY <2>1 DEF WriteColumn
  <2> HIDE DEF w
  <2>4. w \in [1 .. Size -> Bytes]
    BY <2>2, <2>3
  <2>5. w \in Seq(Bytes) /\ Len(w) = Size
    BY <2>1, <2>3, <2>4, SeqDef, LenProperties
  <2> QED BY <2>5 DEF w
<1>7. Typed'
  BY <1>1, <1>2, <1>3, <1>4, <1>5, <1>6 DEF Typed, coding, Bytes, FirstDictionaryCode, PhraseTables
<1>8. DecoderTyped'
  BY <1>1, <1>3, <1>4 DEF DecoderTyped, IsDecoder, coding, Phrases, Bytes, FirstDictionaryCode, CodeWidthFor
<1>9. ASSUME ~foreign PROVE Predicted'
  <2> DEFINE S == col .. tile.row_width - 1
  <2>1. data = Mix(S) /\ carry = CarryAt(col)
    BY <1>1, <1>9 DEF Predicted, Differenced
  <2>2. \A r \in Rows, c \in Comps : RunningSum[r][c] = Orig(r, col, c)
    <3> TAKE r \in Rows, c \in Comps
    <3>1. ReadSample(r, col, c) = SampleIn(Mix(S), r, col, c)
      BY <2>1, ReadMix
    <3>2. col \in S
      BY <1>2 DEF Columns
    <3>3. SampleIn(Mix(S), r, col, c) = Difference(r, col, c)
      BY <1>1, <1>2, <3>2, MixSample
    <3>4. carry[r][c] = Before(r, col, c)
      BY <2>1, Zenon DEF CarryAt
    <3>5. (Before(r, col, c) + Difference(r, col, c)) % Modulus = Orig(r, col, c)
      BY <1>1, <1>2, SamplesAreNumbers
    <3>6. RunningSum[r][c] = (carry[r][c] + ReadSample(r, col, c)) % Modulus
      BY Zenon DEF RunningSum
    <3> QED BY <3>1, <3>3, <3>4, <3>5, <3>6, Zenon
  <2>3. data' = Mix(S \ {col})
    <3> HIDE DEF RunningSum, S
    <3> QED BY <1>1, <1>2, <1>3, <2>1, <2>2, WriteSamples
  <2>4. RunningSum = CarryAt(col + 1)
    <3>1. \A r \in Rows, c \in Comps : Before(r, col + 1, c) = Orig(r, col, c)
      <4>1. col + 1 # 0 /\ (col + 1) - 1 = col
        BY <1>2
      <4> QED BY <4>1 DEF Before
    <3>2. RunningSum = [r \in Rows |-> [c \in Comps |-> RunningSum[r][c]]]
      BY Zenon DEF RunningSum
    <3>3. CarryAt(col + 1) = [r \in Rows |-> [c \in Comps |-> RunningSum[r][c]]]
      BY <2>2, <3>1, Zenon DEF CarryAt
    <3> QED BY <3>2, <3>3
  <2>5. S \ {col} = (col + 1) .. tile.row_width - 1
    BY <1>2
  <2>6. Differenced' = S \ {col}
    BY <1>1, <1>3, <2>5 DEF Differenced
  <2> QED BY <1>1, <1>3, <1>4, <2>3, <2>4, <2>6 DEF Predicted
<1> QED BY <1>1, <1>3, <1>7, <1>8, <1>9 DEF Inv

LEMMA UndoneStep ==
  ASSUME Inv, Undone
  PROVE  Inv'
<1>1. /\ Typed /\ DecoderTyped /\ (~foreign => Predicted) /\ tile \in Tiles /\ col \in 0 .. tile.row_width
      /\ stage = "undo" /\ (predictor => col = tile.row_width)
  BY DEF Inv, Undone, Typed
<1>2. /\ tile' = tile /\ scheme' = scheme /\ predictor' = predictor /\ foreign' = foreign
      /\ stage' = "done" /\ pos' = pos /\ coding' = coding /\ col' = col /\ data' = data /\ carry' = carry
  BY DEF Undone
<1>3. Size' = Size /\ Rows' = Rows /\ Comps' = Comps /\ \A X : Mix(X)' = Mix(X)
  BY <1>2, TileUnchanged
<1>4. Typed'
  BY <1>1, <1>2, <1>3 DEF Typed, coding, Bytes, FirstDictionaryCode, PhraseTables
<1>5. DecoderTyped'
  BY <1>1, <1>2, <1>3 DEF DecoderTyped, IsDecoder, coding, Phrases, Bytes, FirstDictionaryCode, CodeWidthFor
<1>6. ASSUME ~foreign PROVE Predicted'
  <2>1. tile.row_width .. tile.row_width - 1 = {}
    BY <1>1, Shape
  <2>2. Differenced = {} /\ Differenced' = {}
    BY <1>1, <1>2, <2>1 DEF Differenced
  <2> QED BY <1>1, <1>2, <1>3, <1>6, <2>2 DEF Predicted
<1> QED BY <1>2, <1>4, <1>5, <1>6 DEF Inv

LEMMA AppliedStep ==
  ASSUME Inv, Applied
  PROVE  Inv'
<1>1. /\ Typed /\ DecoderTyped /\ NotStarted /\ Predicted /\ ~foreign /\ tile \in Tiles
      /\ stage = "apply" /\ (predictor => col = tile.row_width) /\ Size \in Nat \ {0}
  BY Shape DEF Inv, Applied, Typed, DecoderTyped
<1>2. /\ tile' = tile /\ scheme' = scheme /\ predictor' = predictor /\ foreign' = foreign
      /\ stage' = "code" /\ col' = 0 /\ data' = data /\ carry' = ZeroCarry
      /\ written' = written /\ dec' = dec /\ output' = output /\ noise' = noise
  BY DEF Applied
<1>3. Size' = Size /\ Rows' = Rows /\ Comps' = Comps /\ Columns' = Columns
      /\ \A X : Mix(X)' = Mix(X) /\ \A n : CarryAt(n)' = CarryAt(n)
  BY <1>2, TileUnchanged
<1>4. \/ /\ scheme = "Lzw" /\ codes' = <<ClearCode>> /\ pos' = 1
         /\ enc' = [current |-> <<data[1]>>, table |-> NoPhrases, next_code |-> FirstDictionaryCode]
      \/ scheme = "PackBits" /\ codes' = codes /\ enc' = enc /\ pos' = pos
  BY <1>1 DEF Applied, NotStarted, Typed
<1>5. ZeroCarry = CarryAt(0)
  BY DEF ZeroCarry, CarryAt, Before
<1>6. data[1] \in Bytes
  BY <1>1 DEF Typed
<1>7. Typed'
  <2>1. ZeroCarry \in [Rows -> [Comps -> Nat]]
    BY DEF ZeroCarry
  <2>2. pos' \in 0 .. Size + 1 /\ 0 \in 0 .. tile.row_width
    <3>1. tile.row_width \in Nat /\ pos \in 0 .. Size + 1
      BY <1>1, Shape DEF Typed
    <3> QED BY <3>1, <1>1, <1>4
  <2>3. enc' \in [current : Seq(Bytes), table : PhraseTables,
                  next_code : FirstDictionaryCode .. MaxDictionaryCode - 1]
    <3>1. enc.table = NoPhrases /\ enc.next_code = FirstDictionaryCode
      BY <1>1 DEF NotStarted
    <3>2. /\ enc.table \in PhraseTables
          /\ enc.next_code \in FirstDictionaryCode .. MaxDictionaryCode - 1
      BY <1>1 DEF Typed
    <3>3. <<data[1]>> \in Seq(Bytes)
      BY <1>6
    <3>4. enc \in [current : Seq(Bytes), table : PhraseTables,
                   next_code : FirstDictionaryCode .. MaxDictionaryCode - 1]
      BY <1>1 DEF Typed
    <3>5. CASE enc' = enc
      BY <3>4, <3>5
    <3>6. CASE enc' = [current |-> <<data[1]>>, table |-> NoPhrases,
                       next_code |-> FirstDictionaryCode]
      <4>1. NoPhrases \in PhraseTables /\ FirstDictionaryCode \in FirstDictionaryCode .. MaxDictionaryCode - 1
        BY <3>1, <3>2
      <4> HIDE DEF NoPhrases, FirstDictionaryCode, PhraseTables
      <4> QED BY <4>1, <3>3, <3>6
    <3> QED BY <1>4, <3>5, <3>6
  <2> QED BY <1>1, <1>2, <1>3, <2>1, <2>2, <2>3 DEF Typed, Bytes, FirstDictionaryCode, PhraseTables
<1>8. DecoderTyped'
  BY <1>1, <1>2, <1>3 DEF DecoderTyped, IsDecoder, Phrases, Bytes, FirstDictionaryCode, CodeWidthFor
<1>9. Predicted'
  <2>1. 0 .. tile.row_width - 1 = Columns
    BY DEF Columns
  <2>2. Differenced' = Differenced
    BY <1>1, <1>2, <1>3, <2>1 DEF Differenced
  <2> QED BY <1>1, <1>2, <1>3, <1>5, <2>2 DEF Predicted
<1>10. output = << >> /\ Len(output) = 0
  BY <1>1 DEF NotStarted
<1>11. Matches(data', output', 0)
  <2>1. Len(data) = Size
    BY <1>1 DEF Typed
  <2> QED BY <1>1, <1>2, <1>10, <2>1 DEF Matches
<1>12. ASSUME scheme = "Lzw" PROVE LzwInv'
  <2>1. /\ enc' = [current |-> <<data[1]>>, table |-> NoPhrases, next_code |-> FirstDictionaryCode]
        /\ codes' = <<ClearCode>> /\ pos' = 1
    BY <1>4, <1>12
  <2>2. dec = FreshDecoder /\ written = [table_size |-> FirstDictionaryCode, have_previous |-> FALSE]
    BY <1>1 DEF NotStarted
  <2>3. written' = [table_size |-> dec'.next_code, have_previous |-> dec'.old_entry # << >>]
    BY <1>2, <2>2, FreshIsTyped
  <2>4. DOMAIN enc'.table = {} /\ IsFiniteSet(DOMAIN enc'.table) /\ Cardinality(DOMAIN enc'.table) = 0
    <3>1. DOMAIN enc'.table = {}
      BY <2>1 DEF NoPhrases
    <3> QED BY <3>1, FS_EmptySet
  <2>5. enc'.next_code - FirstDictionaryCode = 0
    BY <2>1, Constants
  <2>6. Cleared'
    BY <1>1, <1>2, <1>3, <1>10, <2>1 DEF Cleared, Holds, NoEntries, ClearCode, FirstDictionaryCode, NoPhrases
  <2> QED BY <1>11, <2>3, <2>4, <2>5, <2>6 DEF LzwInv, FirstDictionaryCode
<1>13. ASSUME scheme = "PackBits" PROVE PackInv'
  <2>1. codes' = << >> /\ pos' = 0
    BY <1>1, <1>4, <1>13 DEF NotStarted
  <2> QED BY <1>1, <1>2, <1>3, <1>10, <1>11, <2>1 DEF PackInv
<1>14. Inv' = (/\ Typed' /\ DecoderTyped'
               /\ stage' = "apply" => NotStarted'
               /\ ~foreign' => Predicted'
               /\ stage' = "code" /\ ~foreign' /\ scheme' = "Lzw" => LzwInv'
               /\ stage' = "code" /\ ~foreign' /\ scheme' = "PackBits" => PackInv')
  BY DEF Inv
<1> QED BY <1>2, <1>7, <1>8, <1>9, <1>12, <1>13, <1>14

------------------------------------------------------------------------------
(* The decoder of LZW, whatever the stream.                                *)

LEMMA EntryIsPhrase ==
  ASSUME IsDecoder(dec), NEW code \in Nat
  PROVE  Entry(code) \in Seq(Bytes)
<1>1. CASE code \in Bytes
  BY <1>1 DEF Entry
<1>2. CASE code \notin Bytes /\ code >= FirstDictionaryCode /\ code < dec.next_code
  <2>1. code \in FirstDictionaryCode .. dec.next_code - 1
    BY <1>2, Constants DEF IsDecoder
  <2>2. dec.table[code] \in Phrases
    BY <2>1 DEF IsDecoder
  <2> QED BY <1>2, <2>2 DEF Entry, Phrases
<1>3. CASE dec.old_entry # << >>
  <2>1. dec.old_entry \in Seq(Bytes)
    BY DEF IsDecoder
  <2>2. dec.old_entry[1] \in Bytes
    BY <1>3, <2>1
  <2>3. Append(dec.old_entry, dec.old_entry[1]) \in Seq(Bytes)
    BY <2>1, <2>2
  <2> HIDE DEF Bytes
  <2> QED BY <1>1, <1>2, <2>3 DEF Entry
<1>4. CASE dec.old_entry = << >>
  BY <1>1, <1>2, <1>4 DEF Entry
<1> QED BY <1>3, <1>4

LEMMA AfterIsDecoder ==
  ASSUME IsDecoder(dec), NEW entry \in Phrases,
         dec.old_entry # << >> => dec.next_code <= MaxDictionaryCode
  PROVE  /\ IsDecoder(DecoderAfter(entry))
         /\ DecoderAfter(entry).old_entry = entry
         /\ dec.old_entry = << >> => /\ DecoderAfter(entry).next_code = dec.next_code
                                     /\ DecoderAfter(entry).table = dec.table
         /\ dec.old_entry # << >> =>
              /\ DecoderAfter(entry).next_code = dec.next_code + 1
              /\ DOMAIN DecoderAfter(entry).table = DOMAIN dec.table \cup {dec.next_code}
              /\ DecoderAfter(entry).table[dec.next_code] = Append(dec.old_entry, entry[1])
              /\ \A c \in DOMAIN dec.table : DecoderAfter(entry).table[c] = dec.table[c]
<1>1. entry \in Seq(Bytes) /\ entry # << >> /\ dec.old_entry \in Seq(Bytes) /\ entry[1] \in Bytes
  BY DEF Phrases, IsDecoder
<1>2. CASE dec.old_entry = << >>
  <2>1. dec = [table |-> dec.table, next_code |-> dec.next_code,
               code_width |-> CodeWidthFor(dec.next_code), old_entry |-> dec.old_entry]
    BY DEF IsDecoder
  <2>2. DecoderAfter(entry) = [table |-> dec.table, next_code |-> dec.next_code,
                               code_width |-> CodeWidthFor(dec.next_code), old_entry |-> entry]
    BY <1>2, <2>1 DEF DecoderAfter
  <2> QED BY <1>1, <1>2, <2>2 DEF IsDecoder
<1>3. CASE dec.old_entry # << >>
  <2> DEFINE n == dec.next_code
             grown == [c \in DOMAIN dec.table \cup {n} |->
                         IF c = n THEN Append(dec.old_entry, entry[1]) ELSE dec.table[c]]
  <2>1. DecoderAfter(entry) = [table |-> grown, next_code |-> n + 1,
                               code_width |-> CodeWidthFor(n + 1), old_entry |-> entry]
    BY <1>3 DEF DecoderAfter, DecoderWidth
  <2>2. n \in FirstDictionaryCode .. MaxDictionaryCode /\ n + 1 \in FirstDictionaryCode .. MaxDictionaryCode + 1
    BY <1>3, Constants DEF IsDecoder
  <2>3. dec.table \in [FirstDictionaryCode .. n - 1 -> Phrases] /\ DOMAIN dec.table = FirstDictionaryCode .. n - 1
    BY DEF IsDecoder
  <2>4. FirstDictionaryCode .. (n + 1) - 1 = DOMAIN dec.table \cup {n} /\ n \notin DOMAIN dec.table
    BY <2>2, <2>3, Constants
  <2>5. Append(dec.old_entry, entry[1]) \in Phrases
    <3>1. Append(dec.old_entry, entry[1]) \in Seq(Bytes) /\ Len(Append(dec.old_entry, entry[1])) # 0
      BY <1>1
    <3>2. Append(dec.old_entry, entry[1]) # << >>
      BY <3>1, EmptySeq
    <3> QED BY <3>1, <3>2, Zenon DEF Phrases
  <2>6. grown \in [FirstDictionaryCode .. (n + 1) - 1 -> Phrases]
    BY <2>3, <2>4, <2>5
  <2>7. /\ DOMAIN grown = DOMAIN dec.table \cup {n} /\ grown[n] = Append(dec.old_entry, entry[1])
        /\ \A c \in DOMAIN dec.table : grown[c] = dec.table[c]
    BY <2>4
  <2> HIDE DEF grown
  <2>8. IsDecoder(DecoderAfter(entry))
    BY <1>1, <2>1, <2>2, <2>6 DEF IsDecoder
  <2> QED BY <2>1, <2>7, <2>8, <1>3
<1> QED BY <1>2, <1>3

LEMMA DecodeIsSafe ==
  ASSUME Typed, DecoderTyped, stage = "code", NEW code \in Nat, Decode(code)
  PROVE  /\ IsDecoder(dec') /\ output' \in Seq(Bytes) /\ Len(output') <= Size
         /\ stage' \in {"code", "undo", "failed"}
         /\ data' \in Seq(Bytes) /\ Len(data') = Size
         /\ stage' = "undo" => Len(output') = Size
<1>1. /\ IsDecoder(dec) /\ output \in Seq(Bytes) /\ Len(output) <= Size
      /\ data \in Seq(Bytes) /\ Len(data) = Size /\ Size \in Nat
  BY Shape DEF DecoderTyped, Typed
<1> DEFINE entry == Entry(code)
           full == dec.old_entry # << >> /\ dec.next_code > MaxDictionaryCode
<1>2. entry \in Seq(Bytes)
  BY <1>1, EntryIsPhrase
<1>3. CASE code = ClearCode
  <2>1. dec' = FreshDecoder /\ stage' = stage /\ data' = data /\ output' = output
    BY <1>3, Constants DEF Decode, GoesOn
  <2>2. IsDecoder(FreshDecoder)
    BY FreshIsTyped, Constants DEF IsDecoder
  <2> QED BY <1>1, <2>1, <2>2
<1>4. CASE code = EoiCode
  <2>1. /\ dec' = dec /\ output' = output
        /\ IF Len(output) = Size THEN Succeeds ELSE Fails
    BY <1>4, Constants DEF Decode
  <2> QED BY <1>1, <2>1 DEF Succeeds, Fails
<1>5. CASE code \notin {ClearCode, EoiCode}
  <2>1. \/ Fails /\ dec' = dec /\ output' = output
        \/ /\ entry # << >> /\ Len(output) + Len(entry) <= Size /\ ~full
           /\ output' = output \o entry /\ dec' = DecoderAfter(entry) /\ GoesOn
    <3>1. IF entry = << >> \/ Len(output) + Len(entry) > Size \/ full
            THEN Fails /\ UNCHANGED <<dec, output>>
          ELSE /\ output' = output \o entry /\ dec' = DecoderAfter(entry) /\ GoesOn
      BY <1>5 DEF Decode
    <3>2. Len(output) \in Nat /\ Len(entry) \in Nat
      BY <1>1, <1>2
    <3> HIDE DEF entry, full
    <3> QED BY <3>1, <3>2, <1>1
  <2>2. CASE Fails /\ dec' = dec /\ output' = output
    BY <1>1, <2>2 DEF Fails
  <2>3. CASE /\ entry # << >> /\ Len(output) + Len(entry) <= Size /\ ~full
             /\ output' = output \o entry /\ dec' = DecoderAfter(entry) /\ GoesOn
    <3> HIDE DEF entry
    <3>1. entry \in Phrases
      BY <1>2, <2>3 DEF Phrases
    <3>2. dec.old_entry # << >> => dec.next_code <= MaxDictionaryCode
      BY <1>1, <2>3, Constants DEF IsDecoder
    <3>3. IsDecoder(DecoderAfter(entry))
      BY <1>1, <3>1, <3>2, AfterIsDecoder
    <3>4. output \o entry \in Seq(Bytes) /\ Len(output \o entry) = Len(output) + Len(entry)
      BY <1>1, <1>2
    <3> QED BY <1>1, <2>3, <3>3, <3>4 DEF GoesOn
  <2> QED BY <2>1, <2>2, <2>3
<1> QED BY <1>3, <1>4, <1>5

LEMMA UnpackedIsBytes ==
  ASSUME NEW t, t.control \in Int, t.bytes \in Phrases
  PROVE  /\ Unpacked(t) \in Seq(Bytes)
         /\ t.control < 0 /\ t.control # -MaxRun =>
              /\ Len(Unpacked(t)) = 1 - t.control
              /\ \A k \in 1 .. 1 - t.control : Unpacked(t)[k] = t.bytes[1]
<1>1. t.bytes \in Seq(Bytes) /\ t.bytes[1] \in Bytes
  BY DEF Phrases
<1>2. CASE t.control >= 0
  BY <1>1, <1>2 DEF Unpacked
<1>3. CASE t.control < 0 /\ t.control = -MaxRun
  <2>1. Unpacked(t) = << >>
    BY <1>3, Constants DEF Unpacked
  <2> QED BY <2>1, <1>3
<1>4. CASE t.control < 0 /\ t.control # -MaxRun
  <2> DEFINE n == 1 - t.control
             x == t.bytes[1]
  <2>1. n \in Nat /\ x \in Bytes
    BY <1>1, <1>4
  <2>2. Unpacked(t) = [k \in 1 .. n |-> x]
    BY <1>4 DEF Unpacked
  <2> HIDE DEF n, x
  <2>3. [k \in 1 .. n |-> x] \in Seq(Bytes) /\ Len([k \in 1 .. n |-> x]) = n
    BY <2>1
  <2> QED BY <2>1, <2>2, <2>3 DEF n, x
<1> QED BY <1>2, <1>3, <1>4

LEMMA UnpackIsSafe ==
  ASSUME Typed, DecoderTyped, stage = "code", NEW t, t.control \in Int, t.bytes \in Phrases, Unpack(t)
  PROVE  /\ output' \in Seq(Bytes) /\ Len(output') <= Size
         /\ stage' \in {"code", "undo", "failed"}
         /\ data' \in Seq(Bytes) /\ Len(data') = Size
         /\ stage' = "undo" => Len(output') = Size
<1>1. /\ output \in Seq(Bytes) /\ Len(output) <= Size /\ Len(output) \in Nat
      /\ data \in Seq(Bytes) /\ Len(data) = Size /\ Size \in Nat
  BY Shape DEF DecoderTyped, Typed
<1> DEFINE u == Unpacked(t)
<1>2. u \in Seq(Bytes) /\ Len(u) \in Nat
  BY UnpackedIsBytes
<1>3. IF Len(output) + Len(u) > Size THEN Fails /\ UNCHANGED output
      ELSE /\ output' = output \o u
           /\ IF Len(output') = Size THEN Succeeds ELSE GoesOn
  BY DEF Unpack
<1> HIDE DEF u
<1>4. CASE Len(output) + Len(u) > Size
  BY <1>1, <1>3, <1>4 DEF Fails
<1>5. CASE ~(Len(output) + Len(u) > Size)
  <2>1. output \o u \in Seq(Bytes) /\ Len(output \o u) = Len(output) + Len(u)
    BY <1>1, <1>2
  <2>2. Len(output) + Len(u) <= Size
    BY <1>1, <1>2, <1>5
  <2> QED BY <1>1, <1>3, <1>5, <2>1, <2>2 DEF Succeeds, GoesOn
<1> QED BY <1>4, <1>5

(* A step of a foreign stream leaves everything else as it was.            *)
LEMMA ForeignStep ==
  ASSUME Inv, foreign, foreign' = foreign, tile' = tile, scheme' = scheme, predictor' = predictor,
         carry' = carry, col' = col, pos' = pos, enc' = enc, codes' = codes, written' = written,
         noise' \in 0 .. MaxNoise,
         IsDecoder(dec'), output' \in Seq(Bytes), Len(output') <= Size,
         stage' \in {"code", "undo", "failed"}, data' \in Seq(Bytes), Len(data') = Size,
         stage' = "undo" => Len(output') = Size
  PROVE  Inv'
<1>1. Typed /\ DecoderTyped
  BY DEF Inv
<1>2. Size' = Size /\ Rows' = Rows /\ Comps' = Comps
  BY TileUnchanged
<1>3. Typed'
  BY <1>1, <1>2 DEF Typed, Bytes, FirstDictionaryCode, PhraseTables
<1>4. IsDecoder(dec)'
  BY DEF IsDecoder, Phrases, Bytes, FirstDictionaryCode, CodeWidthFor
<1>5. DecoderTyped'
  BY <1>1, <1>2, <1>4 DEF DecoderTyped, Bytes
<1> QED BY <1>3, <1>5 DEF Inv

LEMMA ForeignCodeStep ==
  ASSUME Inv, NEW code \in 0 .. 2^LastWidth - 1, ForeignCode(code)
  PROVE  Inv'
<1>1. /\ Typed /\ DecoderTyped /\ stage = "code" /\ foreign /\ noise < MaxNoise /\ noise \in 0 .. MaxNoise
      /\ Decode(code) /\ noise' = noise + 1
  BY DEF Inv, ForeignCode, Typed
<1>2. code \in Nat
  OBVIOUS
<1>3. /\ foreign' = foreign /\ tile' = tile /\ scheme' = scheme /\ predictor' = predictor
      /\ carry' = carry /\ col' = col /\ pos' = pos /\ enc' = enc /\ codes' = codes /\ written' = written
  BY DEF ForeignCode, setup
<1>4. noise' \in 0 .. MaxNoise
  BY <1>1, Constants
<1> QED BY <1>1, <1>2, <1>3, <1>4, DecodeIsSafe, ForeignStep

LEMMA ForeignControlStep ==
  ASSUME Inv, NEW control \in -MaxRun .. MaxRun - 1, NEW byte \in Bytes, ForeignControl(control, byte)
  PROVE  Inv'
<1> DEFINE n == IF control < 0 THEN 1 ELSE control + 1
           t == [control |-> control, bytes |-> [k \in 1 .. n |-> byte]]
<1>1. /\ Typed /\ DecoderTyped /\ stage = "code" /\ foreign /\ noise < MaxNoise /\ noise \in 0 .. MaxNoise
      /\ Unpack(t) /\ noise' = noise + 1
  BY DEF Inv, ForeignControl, Typed
<1>2. control \in Int /\ n \in Nat \ {0}
  BY Constants
<1>3. t.control \in Int /\ t.bytes \in Phrases
  <2> HIDE DEF n
  <2>1. [k \in 1 .. n |-> byte] \in Seq(Bytes) /\ Len([k \in 1 .. n |-> byte]) = n
    BY <1>2
  <2>2. [k \in 1 .. n |-> byte] # << >>
    BY <1>2, <2>1, EmptySeq
  <2> QED BY <1>2, <2>1, <2>2 DEF Phrases
<1>4. /\ foreign' = foreign /\ tile' = tile /\ scheme' = scheme /\ predictor' = predictor
      /\ carry' = carry /\ col' = col /\ pos' = pos /\ enc' = enc /\ codes' = codes /\ written' = written
      /\ dec' = dec
  BY DEF ForeignControl, setup
<1>5. noise' \in 0 .. MaxNoise
  BY <1>1, Constants
<1> HIDE DEF t
<1>6. IsDecoder(dec')
  BY <1>1, <1>4 DEF DecoderTyped
<1> QED BY <1>1, <1>3, <1>4, <1>5, <1>6, UnpackIsSafe, ForeignStep

LEMMA ForeignEndStep ==
  ASSUME Inv, ForeignEnd
  PROVE  Inv'
<1>1. /\ Typed /\ DecoderTyped /\ foreign /\ stage' = "failed" /\ data' = data
      /\ foreign' = foreign /\ tile' = tile /\ scheme' = scheme /\ predictor' = predictor
      /\ carry' = carry /\ col' = col /\ pos' = pos /\ coding' = coding
  BY DEF Inv, ForeignEnd, Fails, setup
<1>2. /\ enc' = enc /\ codes' = codes /\ written' = written /\ dec' = dec /\ output' = output
      /\ noise' = noise
  BY <1>1 DEF coding
<1>3. /\ IsDecoder(dec') /\ output' \in Seq(Bytes) /\ Len(output') <= Size
      /\ data' \in Seq(Bytes) /\ Len(data') = Size /\ noise' \in 0 .. MaxNoise
  BY <1>1, <1>2 DEF DecoderTyped, Typed
<1> QED BY <1>1, <1>2, <1>3, ForeignStep

------------------------------------------------------------------------------
(* LZW, encoder and decoder.                                               *)

(* A step of the program's own stream, once both sides are shown.          *)
LEMMA OwnStep ==
  ASSUME Inv, ~foreign, stage = "code",
         foreign' = foreign, tile' = tile, scheme' = scheme, predictor' = predictor,
         carry' = carry, col' = col, noise' = noise,
         pos' \in 0 .. Size + 1,
         enc' \in [current : Seq(Bytes), table : PhraseTables,
                   next_code : FirstDictionaryCode .. MaxDictionaryCode - 1],
         IsDecoder(dec'), output' \in Seq(Bytes), Len(output') <= Size,
         stage' \in {"code", "undo"}, data' = data, stage' = "undo" => Len(output') = Size,
         stage' = "code" /\ scheme = "Lzw" => LzwInv',
         stage' = "code" /\ scheme = "PackBits" => PackInv'
  PROVE  Inv'
<1>1. Typed /\ DecoderTyped /\ Predicted /\ tile \in Tiles
  BY DEF Inv, Typed
<1>2. Size' = Size /\ Rows' = Rows /\ Comps' = Comps /\ Columns' = Columns
      /\ \A X : Mix(X)' = Mix(X) /\ \A n : CarryAt(n)' = CarryAt(n)
  BY TileUnchanged
<1>3. Typed'
  BY <1>1, <1>2 DEF Typed, Bytes, FirstDictionaryCode, PhraseTables
<1>4. IsDecoder(dec)'
  BY DEF IsDecoder, Phrases, Bytes, FirstDictionaryCode, CodeWidthFor
<1>5. DecoderTyped'
  BY <1>1, <1>2, <1>4 DEF DecoderTyped, Bytes
<1>6. Predicted'
  <2>1. col = 0 /\ 0 .. tile.row_width - 1 = Columns
    BY <1>1 DEF Predicted, Columns
  <2>2. Differenced' = Differenced
    BY <1>2, <2>1 DEF Differenced
  <2> QED BY <1>1, <1>2, <2>2 DEF Predicted
<1>7. Inv' = (/\ Typed' /\ DecoderTyped'
              /\ stage' = "apply" => NotStarted'
              /\ ~foreign' => Predicted'
              /\ stage' = "code" /\ ~foreign' /\ scheme' = "Lzw" => LzwInv'
              /\ stage' = "code" /\ ~foreign' /\ scheme' = "PackBits" => PackInv')
  BY DEF Inv
<1> QED BY <1>3, <1>5, <1>6, <1>7

LEMMA AgreesAfter ==
  ASSUME IsDecoder(dec), NEW phrase \in Phrases, NEW next \in Bytes,
         Agrees(enc, dec, phrase[1]), dec.next_code < MaxDictionaryCode,
         Append(phrase, next) \notin DOMAIN enc.table,
         NEW e, e.next_code = enc.next_code + 1,
         e.table = [p \in DOMAIN enc.table \cup {Append(phrase, next)} |->
                      IF p = Append(phrase, next) THEN enc.next_code ELSE enc.table[p]]
  PROVE  Agrees(e, DecoderAfter(phrase), next)
<1> DEFINE d == DecoderAfter(phrase)
           longer == Append(phrase, next)
           old == dec.old_entry
           T == enc.table
           U == e.table
<1>0. dec.next_code \in Nat
  BY Constants DEF IsDecoder
<1>1. /\ d.old_entry = phrase /\ phrase # << >>
      /\ old = << >> => d.next_code = dec.next_code /\ d.table = dec.table
      /\ old # << >> => /\ d.next_code = dec.next_code + 1
                        /\ DOMAIN d.table = DOMAIN dec.table \cup {dec.next_code}
                        /\ d.table[dec.next_code] = Append(old, phrase[1])
                        /\ \A c \in DOMAIN dec.table : d.table[c] = dec.table[c]
  <2>1. phrase # << >>
    BY DEF Phrases
  <2>2. dec.old_entry # << >> => dec.next_code <= MaxDictionaryCode
    BY <1>0, Constants
  <2> QED BY <2>1, <2>2, AfterIsDecoder
<1>2. /\ enc.next_code = dec.next_code + (IF old = << >> THEN 0 ELSE 1)
      /\ \A p \in DOMAIN T :
           \/ T[p] \in DOMAIN dec.table /\ dec.table[T[p]] = p
           \/ old # << >> /\ T[p] = dec.next_code /\ p = Append(old, phrase[1])
      /\ \A c \in DOMAIN dec.table : dec.table[c] \in DOMAIN T /\ T[dec.table[c]] = c
      /\ old # << >> => Append(old, phrase[1]) \in DOMAIN T /\ T[Append(old, phrase[1])] = dec.next_code
  BY DEF Agrees
<1>3. /\ DOMAIN U = DOMAIN T \cup {longer} /\ U[longer] = enc.next_code
      /\ longer \notin DOMAIN T /\ \A p \in DOMAIN T : U[p] = T[p]
  OBVIOUS
<1>4. d.next_code = enc.next_code
  BY <1>0, <1>1, <1>2
<1> HIDE DEF d, longer, old, T, U
<1>5. \A p \in DOMAIN U : \/ U[p] \in DOMAIN d.table /\ d.table[U[p]] = p
                          \/ U[p] = d.next_code /\ p = longer
  <2> TAKE p \in DOMAIN U
  <2>1. CASE p = longer
    BY <2>1, <1>3, <1>4
  <2>2. CASE p \in DOMAIN T /\ T[p] \in DOMAIN dec.table /\ dec.table[T[p]] = p
    BY <2>2, <1>1, <1>3
  <2>3. CASE p \in DOMAIN T /\ old # << >> /\ T[p] = dec.next_code /\ p = Append(old, phrase[1])
    BY <2>3, <1>1, <1>3
  <2> QED BY <2>1, <2>2, <2>3, <1>2, <1>3
<1>6. \A c \in DOMAIN d.table : d.table[c] \in DOMAIN U /\ U[d.table[c]] = c
  <2> TAKE c \in DOMAIN d.table
  <2>1. CASE c \in DOMAIN dec.table
    BY <2>1, <1>1, <1>2, <1>3
  <2>2. CASE c \notin DOMAIN dec.table
    <3>1. old # << >> /\ c = dec.next_code /\ d.table[c] = Append(old, phrase[1])
      BY <2>2, <1>1, Zenon
    <3> DEFINE p == Append(old, phrase[1])
    <3>2. p \in DOMAIN T /\ T[p] = dec.next_code
      BY <3>1, <1>2
    <3> HIDE DEF p
    <3>3. p \in DOMAIN U /\ U[p] = c
      BY <3>1, <3>2, <1>3
    <3> QED BY <3>1, <3>3 DEF p
  <2> QED BY <2>1, <2>2
<1>7. longer = Append(phrase, next)
  BY DEF longer
<1> QED BY <1>1, <1>3, <1>4, <1>5, <1>6, <1>7 DEF Agrees, U, d

LEMMA CodeOfCurrent ==
  ASSUME Typed, DecoderTyped, Collecting
  PROVE  /\ enc.current \in Phrases
         /\ CodeOf(enc.current) \in Nat \ {ClearCode, EoiCode}
         /\ CodeOf(enc.current) <= dec.next_code /\ dec.next_code < MaxDictionaryCode
         /\ Entry(CodeOf(enc.current)) = enc.current
<1> DEFINE cur == enc.current
           code == CodeOf(enc.current)
           old == dec.old_entry
<1>1. /\ cur \in Seq(Bytes) /\ cur # << >> /\ cur[1] \in Bytes
      /\ enc.next_code \in FirstDictionaryCode .. MaxDictionaryCode - 1
      /\ enc.table \in PhraseTables
  BY DEF Typed, Collecting
<1>2. /\ enc.next_code = dec.next_code + (IF old = << >> THEN 0 ELSE 1)
      /\ \A p \in DOMAIN enc.table :
           \/ enc.table[p] \in DOMAIN dec.table /\ dec.table[enc.table[p]] = p
           \/ old # << >> /\ enc.table[p] = dec.next_code /\ p = Append(old, cur[1])
  BY DEF Collecting, Agrees
<1>3. /\ dec.next_code \in FirstDictionaryCode .. MaxDictionaryCode + 1
      /\ DOMAIN dec.table = FirstDictionaryCode .. dec.next_code - 1 /\ old \in Seq(Bytes)
  BY DEF DecoderTyped, IsDecoder
<1>4. dec.next_code \in Nat /\ dec.next_code < MaxDictionaryCode
  BY <1>1, <1>2, <1>3, Constants
<1>5. CASE Len(cur) = 1
  <2>1. code = cur[1] /\ cur = <<cur[1]>>
    BY <1>1, <1>5 DEF CodeOf
  <2>2. Entry(code) = <<cur[1]>>
    BY <1>1, <2>1 DEF Entry
  <2>3. code \in 0 .. B - 1
    BY <1>1, <2>1 DEF Bytes
  <2>4. code \in Nat \ {ClearCode, EoiCode} /\ code <= dec.next_code
    BY <2>3, <1>3, Constants
  <2> QED BY <1>1, <1>4, <2>1, <2>2, <2>4 DEF Phrases
<1>6. CASE Len(cur) # 1
  <2>1. cur \in DOMAIN enc.table /\ code = enc.table[cur]
    BY <1>6 DEF Collecting, CodeOf
  <2>2. CASE code \in DOMAIN dec.table /\ dec.table[code] = cur
    <3>1. code \in Nat /\ code >= FirstDictionaryCode /\ code < dec.next_code
      BY <2>2, <1>3, <1>4, Constants
    <3>2. code \notin Bytes /\ code \notin {ClearCode, EoiCode} /\ code <= dec.next_code
      BY <3>1, <1>4, Constants DEF Bytes
    <3>3. Entry(code) = cur
      BY <2>2, <3>1, <3>2 DEF Entry
    <3> QED BY <1>1, <1>4, <3>1, <3>2, <3>3 DEF Phrases
  <2>3. CASE old # << >> /\ code = dec.next_code /\ cur = Append(old, cur[1])
    <3>1. code \notin Bytes /\ code \notin {ClearCode, EoiCode} /\ code \in Nat /\ ~(code < dec.next_code)
      BY <2>3, <1>3, <1>4, Constants DEF Bytes
    <3>2. Entry(code) = Append(old, old[1])
      BY <2>3, <3>1 DEF Entry
    <3>3. cur[1] = old[1]
      <4>1. old[1] = Append(old, cur[1])[1]
        BY <2>3, <1>1, <1>3
      <4> QED BY <4>1, <2>3
    <3>4. Entry(code) = cur
      BY <2>3, <3>2, <3>3
    <3> QED BY <1>1, <1>4, <2>3, <3>1, <3>4 DEF Phrases
  <2> QED BY <2>1, <2>2, <2>3, <1>2
<1> QED BY <1>5, <1>6

(* A code that the encoder has just pushed.                                *)
LEMMA SentNext ==
  ASSUME NEW code \in Nat \ {ClearCode, EoiCode}, NEW entry,
         Entry(code) = entry, dec' = dec, codes'[1] = code,
         code <= dec.next_code, dec.next_code < MaxDictionaryCode,
         entry # << >>, Matches(data', entry, Len(output')),
         \/ /\ codes' = <<code>> /\ pos' = Len(output') + Len(entry) + 1 /\ pos' <= Size'
            /\ enc'.current = <<data'[pos']>> /\ Agrees(enc', DecoderAfter(entry), data'[pos'])
         \/ /\ codes' = <<code, ClearCode>> /\ pos' = Len(output') + Len(entry) + 1 /\ pos' <= Size'
            /\ enc'.current = <<data'[pos']>>
            /\ enc'.table = NoPhrases /\ enc'.next_code = FirstDictionaryCode
         \/ codes' = <<code, EoiCode>> /\ pos' = Size' + 1 /\ Len(output') + Len(entry) = Size'
  PROVE  Sent(codes[1], Entry(codes[1]))'
<1>1. Entry(code)' = entry
  BY DEF Entry, Bytes, FirstDictionaryCode
<1>2. DecoderAfter(entry)' = DecoderAfter(entry)
  BY Zenon DEF DecoderAfter, DecoderWidth, CodeWidthFor
<1>3. Sent(code, entry)'
  BY <1>2 DEF Sent, Holds, NoEntries, NoPhrases, ClearCode, EoiCode, FirstDictionaryCode
<1>4. Sent(codes[1], Entry(codes[1]))' = Sent(code, entry)'
  BY <1>1
<1> QED BY <1>3, <1>4

LEMMA LzwByteStep ==
  ASSUME Inv, LzwByte
  PROVE  Inv'
<1>0. PICK cur, next, longer, n :
        /\ cur = enc.current /\ next = data[pos + 1] /\ longer = Append(cur, next) /\ n = Len(output)
  OBVIOUS
<1>1. /\ Typed /\ DecoderTyped /\ ~foreign /\ stage = "code" /\ scheme = "Lzw" /\ LzwInv
      /\ codes = << >> /\ pos < Size /\ Size \in Nat /\ tile \in Tiles /\ Len(data) = Size
  BY Shape DEF Inv, LzwByte, Typed
<1>2. Collecting
  BY <1>1 DEF LzwInv, Cleared, Sent, Ending
<1>3. /\ cur \in Seq(Bytes) /\ cur # << >> /\ pos = n + Len(cur) /\ n \in Nat /\ pos \in Nat
      /\ Len(cur) \in Nat \ {0} /\ Matches(data, cur, n) /\ Agrees(enc, dec, cur[1]) /\ cur[1] \in Bytes
  <2>1. cur \in Seq(Bytes) /\ output \in Seq(Bytes) /\ pos \in 0 .. Size + 1
    BY <1>0, <1>1 DEF Typed, DecoderTyped
  <2>2. cur # << >> /\ pos = n + Len(cur) /\ Matches(data, cur, n) /\ Agrees(enc, dec, cur[1])
    BY <1>0, <1>2 DEF Collecting
  <2>3. cur[1] \in Bytes /\ Len(cur) \in Nat \ {0} /\ n \in Nat
    BY <2>1, <2>2, <1>0
  <2> QED BY <2>1, <2>2, <2>3, <1>1
<1>4. next \in Bytes /\ pos + 1 \in 1 .. Size /\ pos + 1 \in 0 .. Size + 1
  <2>1. pos + 1 \in 1 .. Size /\ pos + 1 \in 0 .. Size + 1
    BY <1>1, <1>3
  <2> QED BY <2>1, <1>0, <1>1 DEF Typed
<1>5. /\ foreign' = foreign /\ tile' = tile /\ scheme' = scheme /\ predictor' = predictor
      /\ carry' = carry /\ col' = col /\ noise' = noise /\ stage' = stage /\ data' = data
      /\ written' = written /\ dec' = dec /\ output' = output /\ pos' = pos + 1
  BY DEF LzwByte, setup
<1>6. Size' = Size
  BY <1>5, TileUnchanged
<1>7. IsDecoder(dec') /\ output' \in Seq(Bytes) /\ Len(output') <= Size
  BY <1>1, <1>5 DEF DecoderTyped
<1>8. /\ enc.table \in PhraseTables /\ enc.next_code \in FirstDictionaryCode .. MaxDictionaryCode - 1
      /\ enc.next_code \in Nat
      /\ enc = [current |-> cur, table |-> enc.table, next_code |-> enc.next_code]
      /\ DOMAIN enc.table \in SUBSET Seq(Bytes)
      /\ enc.table \in [DOMAIN enc.table -> FirstDictionaryCode .. MaxDictionaryCode - 2]
  <2>1. enc.table \in PhraseTables /\ enc.next_code \in FirstDictionaryCode .. MaxDictionaryCode - 1
        /\ enc = [current |-> cur, table |-> enc.table, next_code |-> enc.next_code]
    BY <1>0, <1>1 DEF Typed
  <2> QED BY <2>1, Constants DEF PhraseTables
<1>9. /\ IsFiniteSet(DOMAIN enc.table)
      /\ Cardinality(DOMAIN enc.table) = enc.next_code - FirstDictionaryCode
      /\ written' = [table_size |-> dec'.next_code, have_previous |-> dec'.old_entry # << >>]
      /\ Matches(data', output', 0)
  BY <1>1, <1>5 DEF LzwInv
<1>10. /\ cur \in Phrases /\ CodeOf(cur) \in Nat \ {ClearCode, EoiCode}
       /\ CodeOf(cur) <= dec.next_code /\ dec.next_code < MaxDictionaryCode
       /\ Entry(CodeOf(cur)) = cur
  BY <1>0, <1>1, <1>2, CodeOfCurrent
<1>11. /\ longer \in Seq(Bytes) /\ longer # << >> /\ Len(longer) = Len(cur) + 1 /\ longer[1] = cur[1]
       /\ \A i \in 1 .. Len(cur) : longer[i] = cur[i]
       /\ longer[Len(cur) + 1] = next
  <2>1. longer \in Seq(Bytes) /\ Len(longer) = Len(cur) + 1
        /\ \A i \in 1 .. Len(cur) : longer[i] = cur[i]
        /\ longer[Len(cur) + 1] = next
    BY <1>0, <1>3, <1>4
  <2> QED BY <2>1, <1>3, EmptySeq
<1>12. CASE longer \in DOMAIN enc.table
  <2>1. enc' = [enc EXCEPT !.current = longer] /\ codes' = codes
    BY <1>0, <1>12 DEF LzwByte
  <2>2. enc' = [current |-> longer, table |-> enc.table, next_code |-> enc.next_code]
    BY <1>8, <2>1
  <2>3. enc' \in [current : Seq(Bytes), table : PhraseTables,
                  next_code : FirstDictionaryCode .. MaxDictionaryCode - 1]
    BY <1>8, <1>11, <2>2
  <2>4. Matches(data, longer, n)
    <3>1. n + Len(longer) <= Len(data)
      BY <1>1, <1>3, <1>11
    <3>2. ASSUME NEW i \in 1 .. Len(longer) PROVE longer[i] = data[n + i]
      <4>1. CASE i \in 1 .. Len(cur)
        BY <4>1, <1>3, <1>11 DEF Matches
      <4>2. CASE i = Len(cur) + 1
        <5>1. n + i = pos + 1
          BY <4>2, <1>3
        <5> QED BY <5>1, <4>2, <1>0, <1>11
      <4> QED BY <4>1, <4>2, <1>3, <1>11
    <3> QED BY <3>1, <3>2 DEF Matches
  <2>5. Agrees(enc', dec', longer[1])
    BY <1>3, <1>5, <1>11, <2>2 DEF Agrees
  <2>6. Collecting'
    <3>1. pos' = Len(output') + Len(enc'.current)
      BY <1>0, <1>3, <1>5, <1>11, <2>2
    <3>2. Matches(data', enc'.current, Len(output'))
      BY <1>0, <1>5, <2>2, <2>4
    <3>3. pos' <= Size'
      BY <1>4, <1>5, <1>6
    <3>4. codes' = << >> /\ enc'.current = longer /\ enc'.current \in DOMAIN enc'.table
      BY <1>1, <1>12, <2>1, <2>2
    <3> QED BY <1>11, <2>5, <3>1, <3>2, <3>3, <3>4 DEF Collecting
  <2>7. LzwInv'
    BY <1>9, <2>2, <2>6 DEF LzwInv, FirstDictionaryCode
  <2> QED BY <1>1, <1>4, <1>5, <1>7, <2>3, <2>7, OwnStep
<1>13. CASE longer \notin DOMAIN enc.table
  <2>1. <<next>> \in Seq(Bytes) /\ data'[pos'] = next /\ pos' <= Size' /\ pos' = Len(output') + Len(cur) + 1
        /\ Matches(data', cur, Len(output'))
    BY <1>0, <1>3, <1>4, <1>5, <1>6
  <2>2. ASSUME LzwInv',
               enc' \in [current : Seq(Bytes), table : PhraseTables,
                         next_code : FirstDictionaryCode .. MaxDictionaryCode - 1]
        PROVE  Inv'
    BY <1>1, <1>4, <1>5, <1>7, <2>2, OwnStep
  <2>3. CASE Full(enc.next_code + 1)
    <3>1. /\ codes' = <<CodeOf(cur), ClearCode>>
          /\ enc' = [current |-> <<next>>, table |-> NoPhrases, next_code |-> FirstDictionaryCode]
      BY <1>0, <1>13, <2>3 DEF LzwByte
    <3>2. NoPhrases \in PhraseTables /\ DOMAIN NoPhrases = {}
      <4>1. NoPhrases \in [{} -> FirstDictionaryCode .. MaxDictionaryCode - 2]
        BY DEF NoPhrases
      <4> QED BY <4>1 DEF PhraseTables
    <3> HIDE DEF NoPhrases
    <3>3. enc' \in [current : Seq(Bytes), table : PhraseTables,
                    next_code : FirstDictionaryCode .. MaxDictionaryCode - 1]
      BY <3>1, <3>2, <2>1, Constants
    <3>4. enc'.current = <<next>> /\ enc'.table = NoPhrases /\ enc'.next_code = FirstDictionaryCode
      BY <3>1
    <3>5. Sent(codes[1], Entry(codes[1]))'
      BY <1>3, <1>5, <1>10, <2>1, <3>1, <3>4, SentNext
    <3>6. IsFiniteSet(DOMAIN enc'.table) /\ Cardinality(DOMAIN enc'.table) = 0
      BY <3>2, <3>4, FS_EmptySet
    <3>7. LzwInv'
      BY <1>9, <3>4, <3>5, <3>6, Constants DEF LzwInv, FirstDictionaryCode
    <3> QED BY <2>2, <3>3, <3>7
  <2>4. CASE ~Full(enc.next_code + 1)
    <3> DEFINE U == [p \in DOMAIN enc.table \cup {longer} |->
                       IF p = longer THEN enc.next_code ELSE enc.table[p]]
    <3>1. /\ codes' = <<CodeOf(cur)>>
          /\ enc' = [current |-> <<next>>, table |-> U, next_code |-> enc.next_code + 1]
      BY <1>0, <1>13, <2>4 DEF LzwByte
    <3>2. enc.next_code \in FirstDictionaryCode .. MaxDictionaryCode - 2
          /\ enc.next_code + 1 \in FirstDictionaryCode .. MaxDictionaryCode - 1
      BY <1>8, <2>4, Constants DEF Full
    <3>3. U \in PhraseTables /\ DOMAIN U = DOMAIN enc.table \cup {longer}
      <4>1. U \in [DOMAIN enc.table \cup {longer} -> FirstDictionaryCode .. MaxDictionaryCode - 2]
        BY <1>8, <3>2
      <4>2. DOMAIN enc.table \cup {longer} \in SUBSET Seq(Bytes)
        BY <1>8, <1>11
      <4> QED BY <4>1, <4>2 DEF PhraseTables
    <3>4. enc'.current = <<next>> /\ enc'.table = U /\ enc'.next_code = enc.next_code + 1
      BY <3>1
    <3>5. Agrees(enc', DecoderAfter(cur), next)
      <4>1. IsDecoder(dec) /\ longer = Append(cur, next)
        BY <1>0, <1>1 DEF DecoderTyped
      <4>2. enc'.table = [p \in DOMAIN enc.table \cup {Append(cur, next)} |->
                            IF p = Append(cur, next) THEN enc.next_code ELSE enc.table[p]]
        BY <4>1, <3>4
      <4> HIDE DEF U
      <4>3. Append(cur, next) \notin DOMAIN enc.table /\ enc'.next_code = enc.next_code + 1
        BY <4>1, <1>13, <3>4
      <4> QED BY <4>1, <4>2, <4>3, <1>3, <1>4, <1>10, AgreesAfter
    <3> HIDE DEF U
    <3>6. enc' \in [current : Seq(Bytes), table : PhraseTables,
                    next_code : FirstDictionaryCode .. MaxDictionaryCode - 1]
      BY <3>1, <3>2, <3>3, <2>1
    <3>7. Sent(codes[1], Entry(codes[1]))'
      BY <1>3, <1>5, <1>10, <2>1, <3>1, <3>4, <3>5, SentNext
    <3>8. IsFiniteSet(DOMAIN enc'.table)
          /\ Cardinality(DOMAIN enc'.table) = enc'.next_code - FirstDictionaryCode
      <4>1. IsFiniteSet(DOMAIN enc.table \cup {longer})
            /\ Cardinality(DOMAIN enc.table \cup {longer}) = Cardinality(DOMAIN enc.table) + 1
        BY <1>9, <1>13, FS_AddElement
      <4> QED BY <4>1, <1>8, <1>9, <3>3, <3>4, Constants
    <3>9. LzwInv'
      BY <1>9, <3>7, <3>8 DEF LzwInv, FirstDictionaryCode
    <3> QED BY <2>2, <3>6, <3>9
  <2> QED BY <2>3, <2>4
<1> QED BY <1>12, <1>13

LEMMA LzwEndStep ==
  ASSUME Inv, LzwEnd
  PROVE  Inv'
<1>0. PICK cur : cur = enc.current
  OBVIOUS
<1>1. /\ Typed /\ DecoderTyped /\ ~foreign /\ stage = "code" /\ scheme = "Lzw" /\ LzwInv
      /\ codes = << >> /\ pos = Size /\ Size \in Nat /\ tile \in Tiles
  BY Shape DEF Inv, LzwEnd, Typed
<1>2. Collecting
  BY <1>1 DEF LzwInv, Cleared, Sent, Ending
<1>3. cur # << >> /\ pos = Len(output) + Len(cur) /\ Matches(data, cur, Len(output))
  BY <1>0, <1>2 DEF Collecting
<1>4. /\ cur \in Phrases /\ CodeOf(cur) \in Nat \ {ClearCode, EoiCode}
      /\ CodeOf(cur) <= dec.next_code /\ dec.next_code < MaxDictionaryCode
      /\ Entry(CodeOf(cur)) = cur
  BY <1>0, <1>1, <1>2, CodeOfCurrent
<1>5. /\ foreign' = foreign /\ tile' = tile /\ scheme' = scheme /\ predictor' = predictor
      /\ carry' = carry /\ col' = col /\ noise' = noise /\ stage' = stage /\ data' = data
      /\ written' = written /\ dec' = dec /\ output' = output /\ pos' = pos + 1 /\ enc' = enc
      /\ codes' = <<CodeOf(cur), EoiCode>>
  BY <1>0 DEF LzwEnd, setup
<1>6. Size' = Size
  BY <1>5, TileUnchanged
<1>7. /\ IsDecoder(dec') /\ output' \in Seq(Bytes) /\ Len(output') <= Size
      /\ enc' \in [current : Seq(Bytes), table : PhraseTables,
                   next_code : FirstDictionaryCode .. MaxDictionaryCode - 1]
  BY <1>1, <1>5 DEF DecoderTyped, Typed
<1>8. pos' \in 0 .. Size + 1 /\ pos' = Size' + 1 /\ Len(output') + Len(cur) = Size'
  <2>1. pos' = Size + 1 /\ Size + 1 \in 0 .. Size + 1
    BY <1>1, <1>5
  <2>2. Len(output') + Len(cur) = Size
    BY <1>1, <1>3, <1>5
  <2> QED BY <2>1, <2>2, <1>6
<1>9. Sent(codes[1], Entry(codes[1]))'
  BY <1>3, <1>4, <1>5, <1>8, SentNext
<1>10. LzwInv'
  BY <1>1, <1>5, <1>9 DEF LzwInv, FirstDictionaryCode
<1> QED BY <1>1, <1>5, <1>7, <1>8, <1>10, OwnStep

LEMMA MatchesBoth ==
  ASSUME NEW w \in Seq(Bytes), NEW s \in Seq(Bytes), NEW u \in Seq(Bytes),
         Matches(w, s, 0), Matches(w, u, Len(s))
  PROVE  s \o u \in Seq(Bytes) /\ Len(s \o u) = Len(s) + Len(u) /\ Matches(w, s \o u, 0)
<1>1. /\ s \o u \in Seq(Bytes) /\ Len(s \o u) = Len(s) + Len(u)
      /\ \A i \in 1 .. Len(s) : (s \o u)[i] = s[i]
      /\ \A i \in 1 .. Len(u) : (s \o u)[Len(s) + i] = u[i]
  OBVIOUS
<1>2. ASSUME NEW i \in 1 .. Len(s \o u) PROVE (s \o u)[i] = w[0 + i]
  <2>1. CASE i \in 1 .. Len(s)
    BY <2>1, <1>1 DEF Matches
  <2>2. CASE i \notin 1 .. Len(s)
    <3>1. i - Len(s) \in 1 .. Len(u) /\ Len(s) + (i - Len(s)) = i
      BY <2>2, <1>1
    <3>2. (s \o u)[Len(s) + (i - Len(s))] = u[i - Len(s)]
      BY <3>1, <1>1
    <3>3. u[i - Len(s)] = w[Len(s) + (i - Len(s))]
      BY <3>1 DEF Matches
    <3> QED BY <3>1, <3>2, <3>3
  <2> QED BY <2>1, <2>2
<1>3. 0 + Len(s \o u) <= Len(w)
  BY <1>1 DEF Matches
<1> QED BY <1>1, <1>2, <1>3 DEF Matches

LEMMA MatchesWhole ==
  ASSUME NEW w \in Seq(Bytes), NEW s \in Seq(Bytes), Matches(w, s, 0), Len(s) = Len(w)
  PROVE  s = w
<1>1. \A i \in 1 .. Len(s) : s[i] = w[i]
  BY DEF Matches
<1> QED BY <1>1

LEMMA LzwCodeStep ==
  ASSUME Inv, LzwCode
  PROVE  Inv'
<1>0. PICK code, entry : code = codes[1] /\ entry = Entry(codes[1])
  OBVIOUS
<1>1. /\ Typed /\ DecoderTyped /\ stage = "code" /\ scheme = "Lzw" /\ codes # << >>
      /\ ~foreign /\ LzwInv
      /\ Size \in Nat /\ tile \in Tiles /\ Len(data) = Size /\ data \in Seq(Bytes)
      /\ output \in Seq(Bytes) /\ Len(output) \in Nat /\ IsDecoder(dec)
  <2>1. Typed /\ DecoderTyped /\ stage = "code" /\ scheme = "Lzw" /\ codes # << >>
    BY DEF Inv, LzwCode
  <2>2. ~foreign /\ output \in Seq(Bytes) /\ IsDecoder(dec)
    BY <2>1 DEF DecoderTyped
  <2>3. LzwInv
    BY <2>1, <2>2 DEF Inv
  <2>4. tile \in Tiles /\ Len(data) = Size /\ data \in Seq(Bytes)
    BY <2>1 DEF Typed
  <2>5. Size \in Nat
    BY <2>4, Shape
  <2> QED BY <2>1, <2>2, <2>3, <2>4, <2>5
<1>2. Cleared \/ Sent(code, entry) \/ Ending
  BY <1>0, <1>1 DEF LzwInv, Collecting
<1>3. /\ written = [table_size |-> dec.next_code, have_previous |-> dec.old_entry # << >>]
      /\ Matches(data, output, 0) /\ IsFiniteSet(DOMAIN enc.table)
      /\ Cardinality(DOMAIN enc.table) = enc.next_code - FirstDictionaryCode
  BY <1>1 DEF LzwInv
<1>4. CodeWidthFor(written.table_size) = dec.code_width
  BY <1>1, <1>3 DEF IsDecoder
<1>5. /\ foreign' = foreign /\ tile' = tile /\ scheme' = scheme /\ predictor' = predictor
      /\ carry' = carry /\ col' = col /\ noise' = noise /\ pos' = pos /\ enc' = enc
      /\ codes' = Tail(codes) /\ written' = WriterAfter(Head(codes)) /\ Decode(Head(codes))
  BY <1>4 DEF LzwCode, setup
<1>6. Size' = Size
  BY <1>5, TileUnchanged
<1>7. /\ pos' \in 0 .. Size + 1
      /\ enc' \in [current : Seq(Bytes), table : PhraseTables,
                   next_code : FirstDictionaryCode .. MaxDictionaryCode - 1]
  BY <1>1, <1>5 DEF Typed
<1>8. CASE Cleared
  <2>1. /\ codes = <<ClearCode>> /\ pos = Len(output) + 1 /\ pos <= Size /\ enc.current = <<data[pos]>>
        /\ enc.table = NoPhrases /\ enc.next_code = FirstDictionaryCode
    BY <1>8 DEF Cleared, Holds, NoEntries
  <2>2. Head(codes) = ClearCode /\ codes' = << >>
    BY <2>1, <1>5
  <2>3. dec' = FreshDecoder /\ stage' = stage /\ data' = data /\ output' = output
    BY <1>5, <2>2, Constants DEF Decode, GoesOn
  <2>4. written' = [table_size |-> dec'.next_code, have_previous |-> dec'.old_entry # << >>]
    BY <1>5, <2>2, <2>3, FreshIsTyped DEF WriterAfter
  <2>5. IsDecoder(dec')
    BY <2>3, FreshIsTyped, Constants DEF IsDecoder
  <2>6. Agrees(enc', dec', data[pos])
    <3>1. DOMAIN enc'.table = {}
      BY <2>1, <1>5 DEF NoPhrases
    <3> QED BY <3>1, <1>5, <2>1, <2>3, FreshIsTyped, Constants DEF Agrees
  <2>7. Collecting'
    <3>1. enc'.current = <<data[pos]>> /\ Len(enc'.current) = 1 /\ enc'.current # << >> /\ enc'.current[1] = data[pos]
      BY <2>1, <1>5
    <3>2. Matches(data', enc'.current, Len(output'))
      BY <1>1, <2>1, <2>3, <3>1 DEF Matches
    <3> QED BY <1>5, <1>6, <2>1, <2>2, <2>3, <2>6, <3>1, <3>2 DEF Collecting
  <2>8. LzwInv'
    BY <1>3, <1>5, <2>3, <2>4, <2>7 DEF LzwInv, FirstDictionaryCode
  <2>9. Len(output') <= Size
    BY <1>1, <2>3 DEF DecoderTyped
  <2> QED BY <1>1, <1>5, <1>7, <2>3, <2>5, <2>8, <2>9, OwnStep
<1>9. CASE Sent(code, entry)
  <2>1. /\ code \in Nat \ {ClearCode, EoiCode} /\ code <= dec.next_code
        /\ dec.next_code < MaxDictionaryCode
        /\ entry # << >> /\ Matches(data, entry, Len(output))
        /\ \/ /\ codes = <<code>> /\ Holds(Len(output) + Len(entry))
              /\ Agrees(enc, DecoderAfter(entry), data[pos])
           \/ codes = <<code, ClearCode>> /\ Holds(Len(output) + Len(entry)) /\ NoEntries
           \/ codes = <<code, EoiCode>> /\ pos = Size + 1 /\ Len(output) + Len(entry) = Size
    BY <1>9 DEF Sent
  <2>2. Head(codes) = code /\ Entry(code) = entry
    BY <1>0, <2>1
  <2>3. entry \in Seq(Bytes) /\ entry \in Phrases /\ Len(entry) \in Nat
    BY <1>1, <2>1, <2>2, EntryIsPhrase DEF Phrases
  <2>4. /\ output \o entry \in Seq(Bytes) /\ Len(output \o entry) = Len(output) + Len(entry)
        /\ Matches(data, output \o entry, 0)
    BY <1>1, <1>3, <2>1, <2>3, MatchesBoth
  <2>5. Len(output) + Len(entry) <= Size
    BY <1>1, <2>1 DEF Matches
  <2>6. dec.next_code \in Nat /\ ~(dec.next_code > MaxDictionaryCode)
    BY <1>1, <2>1, Constants DEF IsDecoder
  <2>7. /\ output' = output \o entry /\ dec' = DecoderAfter(entry) /\ stage' = stage /\ data' = data
    <3>1. ~(entry = << >> \/ Len(output) + Len(entry) > Size
             \/ (dec.old_entry # << >> /\ dec.next_code > MaxDictionaryCode))
      BY <1>1, <2>1, <2>3, <2>5, <2>6
    <3>2. Decode(code) /\ Entry(code) = entry
      BY <1>5, <2>2
    <3> QED BY <2>1, <3>1, <3>2 DEF Decode, GoesOn
  <2>8. IsDecoder(dec')
        /\ dec'.old_entry = entry
        /\ dec'.next_code = dec.next_code + (IF dec.old_entry = << >> THEN 0 ELSE 1)
    BY <1>1, <2>3, <2>6, <2>7, Constants, AfterIsDecoder
  <2>9. written' = [table_size |-> dec'.next_code, have_previous |-> dec'.old_entry # << >>]
    <3>1. written' = [table_size |-> IF written.have_previous /\ written.table_size < MaxDictionaryCode
                                       THEN written.table_size + 1
                                     ELSE written.table_size,
                      have_previous |-> TRUE]
      BY <1>5, <2>1, <2>2 DEF WriterAfter
    <3>2. written.have_previous = (dec.old_entry # << >>) /\ written.table_size = dec.next_code
      BY <1>3
    <3>3. (dec'.old_entry # << >>) = TRUE
      BY <2>1, <2>8
    <3>4. (IF written.have_previous /\ written.table_size < MaxDictionaryCode
             THEN written.table_size + 1
           ELSE written.table_size) = dec'.next_code
      <4>1. CASE dec.old_entry = << >>
        <5>1. ~written.have_previous
          BY <4>1, <3>2, Zenon
        <5>2. dec'.next_code = written.table_size
          BY <4>1, <3>2, <2>6, <2>8
        <5> QED BY <5>1, <5>2, Zenon
      <4>2. CASE dec.old_entry # << >>
        <5>1. written.have_previous
          BY <4>2, <3>2, Zenon
        <5>2. dec'.next_code = written.table_size + 1 /\ written.table_size < MaxDictionaryCode
          BY <4>2, <3>2, <2>1, <2>8
        <5> QED BY <5>1, <5>2, Zenon
      <4> QED BY <4>1, <4>2
    <3> QED BY <3>1, <3>3, <3>4, Zenon
  <2>10. Len(output') = Len(output) + Len(entry) /\ Matches(data', output', 0)
    BY <2>4, <2>7
  <2>11. Collecting' \/ Cleared' \/ Ending'
    <3>1. CASE codes = <<code>> /\ Holds(Len(output) + Len(entry))
               /\ Agrees(enc, DecoderAfter(entry), data[pos])
      <4>1. codes' = << >> /\ pos = Len(output) + Len(entry) + 1 /\ pos <= Size
            /\ enc.current = <<data[pos]>>
        BY <3>1, <1>5 DEF Holds
      <4>2. enc'.current = <<data[pos]>> /\ Len(enc'.current) = 1 /\ enc'.current # << >>
            /\ enc'.current[1] = data[pos]
        <5>1. enc'.current = <<data[pos]>>
          BY <4>1, <1>5, Zenon
        <5> QED BY <5>1
      <4>3. Matches(data', enc'.current, Len(output'))
        BY <1>1, <2>3, <2>7, <2>10, <4>1, <4>2 DEF Matches
      <4>4. pos' = Len(output') + Len(enc'.current) /\ pos' <= Size'
        BY <1>1, <1>5, <1>6, <2>3, <2>10, <4>1, <4>2
      <4>5. Agrees(enc', dec', enc'.current[1])
        BY <1>5, <2>7, <3>1, <4>2
      <4> QED BY <4>1, <4>2, <4>3, <4>4, <4>5 DEF Collecting
    <3>2. CASE codes = <<code, ClearCode>> /\ Holds(Len(output) + Len(entry)) /\ NoEntries
      <4>1. codes' = <<ClearCode>>
        BY <3>2, <1>5
      <4> QED BY <3>2, <4>1, <1>5, <1>6, <2>7, <2>10
              DEF Cleared, Holds, NoEntries, NoPhrases, ClearCode, FirstDictionaryCode
    <3>3. CASE codes = <<code, EoiCode>> /\ pos = Size + 1 /\ Len(output) + Len(entry) = Size
      <4>1. codes' = <<EoiCode>>
        BY <3>3, <1>5
      <4> QED BY <3>3, <4>1, <1>5, <1>6, <2>10 DEF Ending, EoiCode
    <3> QED BY <2>1, <3>1, <3>2, <3>3
  <2>12. LzwInv'
    BY <1>3, <1>5, <2>9, <2>10, <2>11 DEF LzwInv, FirstDictionaryCode
  <2> QED BY <1>1, <1>5, <1>7, <2>4, <2>5, <2>7, <2>8, <2>12, OwnStep
<1>10. CASE Ending
  <2>1. Head(codes) = EoiCode /\ Len(output) = Size
    BY <1>10 DEF Ending
  <2>2. dec' = dec /\ output' = output /\ stage' = "undo" /\ data' = output
    BY <1>5, <2>1, Constants DEF Decode, Succeeds
  <2>3. output = data
    BY <1>1, <1>3, <2>1, MatchesWhole
  <2> QED BY <1>1, <1>5, <1>7, <2>1, <2>2, <2>3, OwnStep
<1> QED BY <1>2, <1>8, <1>9, <1>10

------------------------------------------------------------------------------
(* PackBits.                                                               *)

LEMMA RunAtExists ==
  ASSUME Size \in Nat, NEW p \in Nat, p < Size
  PROVE  /\ RunAt(p) \in 1 .. Size - p
         /\ \A k \in 1 .. RunAt(p) : data[p + k] = data[p + 1]
<1> DEFINE T == {n \in 1 .. Size - p : n = Size - p \/ data[p + n + 1] # data[p + 1]}
           P(n) == /\ \A k \in 1 .. n : data[p + k] = data[p + 1]
                   /\ n = Size - p \/ data[p + n + 1] # data[p + 1]
<1>1. Size - p \in T /\ T \subseteq Nat
  OBVIOUS
<1>2. PICK n \in T : \A y \in T : n <= y
  <2> HIDE DEF T
  <2> QED BY <1>1, LeastElement
<1>3. n \in 1 .. Size - p /\ P(n)
  <2>1. ASSUME NEW k \in 1 .. n PROVE data[p + k] = data[p + 1]
    <3>1. CASE k = 1
      BY <3>1
    <3>2. CASE k # 1
      <4>0. n \in 1 .. Size - p
        BY <1>2
      <4>1. k - 1 \in 1 .. Size - p /\ k - 1 < n /\ k - 1 \notin T
        <5>1. k - 1 \in 1 .. Size - p /\ ~(n <= k - 1) /\ k - 1 < n
          BY <3>2, <4>0
        <5> HIDE DEF T
        <5> QED BY <5>1, <1>2
      <4>2. data[p + (k - 1) + 1] = data[p + 1]
        BY <4>1
      <4>3. p + (k - 1) + 1 = p + k
        OBVIOUS
      <4> QED BY <4>2, <4>3
    <3> QED BY <3>1, <3>2
  <2> QED BY <2>1, <1>2
<1>4. RunAt(p) = CHOOSE m \in 1 .. Size - p : P(m)
  BY DEF RunAt
<1>5. RunAt(p) \in 1 .. Size - p /\ P(RunAt(p))
  <2> HIDE DEF P
  <2> QED BY <1>3, <1>4
<1> QED BY <1>5

LEMMA LiteralAtExists ==
  ASSUME Size \in Nat, NEW p \in Nat, p < Size
  PROVE  LiteralAt(p) \in 1 .. Size - p
<1> DEFINE T == {n \in 1 .. Size - p : n = Size - p \/ n = MaxRun \/ data[p + n + 1] = data[p + n]}
           P(n) == /\ \A k \in 2 .. n : data[p + k] # data[p + k - 1]
                   /\ n = Size - p \/ n = MaxRun \/ data[p + n + 1] = data[p + n]
                   /\ n <= MaxRun
<1>0. MaxRun \in Nat /\ MaxRun >= 2
  BY Constants
<1>1. Size - p \in T /\ T \subseteq Nat /\ (MaxRun <= Size - p => MaxRun \in T)
  BY <1>0
<1>2. PICK n \in T : \A y \in T : n <= y
  <2> HIDE DEF T
  <2> QED BY <1>1, LeastElement
<1>3. n \in 1 .. Size - p /\ P(n)
  <2>1. ASSUME NEW k \in 2 .. n PROVE data[p + k] # data[p + k - 1]
    <3>1. k - 1 \in 1 .. Size - p /\ k - 1 < n /\ k - 1 \notin T
      BY <1>2
    <3>2. data[p + (k - 1) + 1] # data[p + (k - 1)]
      BY <3>1
    <3>3. p + (k - 1) + 1 = p + k /\ p + (k - 1) = p + k - 1
      OBVIOUS
    <3> QED BY <3>2, <3>3
  <2>2. n <= MaxRun
    <3>1. CASE MaxRun <= Size - p
      BY <3>1, <1>0, <1>1, <1>2
    <3>2. CASE ~(MaxRun <= Size - p)
      BY <3>2, <1>0, <1>2
    <3> QED BY <3>1, <3>2
  <2> QED BY <2>1, <2>2, <1>2
<1>4. LiteralAt(p) = CHOOSE m \in 1 .. Size - p : P(m)
  BY DEF LiteralAt
<1>5. LiteralAt(p) \in 1 .. Size - p
  <2> HIDE DEF P
  <2> QED BY <1>3, <1>4
<1> QED BY <1>5

LEMMA ChunksOf ==
  ASSUME NEW n \in Nat \ {0}
  PROVE  Chunks(n) \in Nat \ {0} /\ n - MaxRun * (Chunks(n) - 1) \in 1 .. MaxRun
<1> DEFINE m == Chunks(n)
           r == (n + MaxRun - 1) % MaxRun
<1>0. MaxRun \in Nat \ {0}
  BY Constants
<1>1. n + MaxRun - 1 \in Nat
  BY <1>0
<1>2. m \in Nat /\ r \in 0 .. MaxRun - 1 /\ n + MaxRun - 1 = m * MaxRun + r
  BY <1>0, <1>1, Divide DEF Chunks
<1> HIDE DEF m, r
<1>3. m # 0
  BY <1>0, <1>2
<1>4. MaxRun * (m - 1) = m * MaxRun - MaxRun
  BY <1>0, <1>2
<1>5. n - MaxRun * (m - 1) = r + 1
  <2> DEFINE x == m * MaxRun
  <2>1. x \in Nat
    BY <1>0, <1>2, Product
  <2> HIDE DEF x
  <2>2. n + MaxRun - 1 = x + r /\ MaxRun * (m - 1) = x - MaxRun
    BY <1>2, <1>4 DEF x
  <2> QED BY <1>0, <1>2, <2>1, <2>2
<1> QED BY <1>0, <1>2, <1>3, <1>5 DEF m

LEMMA PackLiteralStep ==
  ASSUME Inv, PackLiteral
  PROVE  Inv'
<1>0. PICK n, t : n = LiteralAt(pos) /\ t = [control |-> n - 1, bytes |-> SubSeq(data, pos + 1, pos + n)]
  OBVIOUS
<1>1. /\ Typed /\ DecoderTyped /\ stage = "code" /\ scheme = "PackBits" /\ ~foreign /\ PackInv
      /\ codes = << >> /\ pos < Size /\ tile \in Tiles /\ Len(data) = Size /\ data \in Seq(Bytes)
      /\ pos \in Nat /\ Size \in Nat
  <2>1. /\ Typed /\ DecoderTyped /\ stage = "code" /\ scheme = "PackBits" /\ ~foreign /\ PackInv
        /\ codes = << >> /\ pos < Size
    BY DEF Inv, PackLiteral
  <2>2. tile \in Tiles /\ Len(data) = Size /\ data \in Seq(Bytes) /\ pos \in 0 .. Size + 1
    BY <2>1 DEF Typed
  <2>3. Size \in Nat
    BY <2>2, Shape
  <2> QED BY <2>1, <2>2, <2>3
<1>2. pos = Len(output) /\ Matches(data, output, 0) /\ Len(output) < Size
  <2>1. ~Literal(codes[1])
    BY <1>1 DEF Literal
  <2>2. ~Run(Len(codes))
    BY <1>1 DEF Run
  <2> QED BY <1>1, <2>1, <2>2 DEF PackInv
<1>3. n \in 1 .. Size - pos /\ pos + n \in 1 .. Size /\ n \in Nat \ {0}
  BY <1>0, <1>1, LiteralAtExists
<1>4. /\ foreign' = foreign /\ tile' = tile /\ scheme' = scheme /\ predictor' = predictor
      /\ carry' = carry /\ col' = col /\ noise' = noise /\ stage' = stage /\ data' = data
      /\ dec' = dec /\ output' = output /\ pos' = pos + n /\ enc' = enc /\ codes' = <<t>>
  BY <1>0 DEF PackLiteral, setup
<1>5. Size' = Size
  BY <1>4, TileUnchanged
<1>6. /\ IsDecoder(dec') /\ output' \in Seq(Bytes) /\ Len(output') <= Size
      /\ enc' \in [current : Seq(Bytes), table : PhraseTables,
                   next_code : FirstDictionaryCode .. MaxDictionaryCode - 1]
  BY <1>1, <1>4 DEF DecoderTyped, Typed
<1>7. /\ t.bytes \in Seq(Bytes) /\ Len(t.bytes) = n /\ \A i \in 1 .. n : t.bytes[i] = data[pos + i]
      /\ t.control = n - 1 /\ t = [control |-> t.control, bytes |-> t.bytes]
  <2>1. t.bytes = SubSeq(data, pos + 1, pos + n) /\ t.control = n - 1
        /\ t = [control |-> t.control, bytes |-> t.bytes]
    BY <1>0
  <2>2. SubSeq(data, pos + 1, pos + n) \in Seq(Bytes) /\ Len(SubSeq(data, pos + 1, pos + n)) = n
        /\ \A i \in 1 .. n : SubSeq(data, pos + 1, pos + n)[i] = data[pos + i]
    <3>1. \A i \in pos + 1 .. pos + n : data[i] \in Bytes
      BY <1>1, <1>3
    <3> QED BY <1>1, <1>3, <3>1
  <2> QED BY <2>1, <2>2
<1>8. Literal(codes[1])'
  <2>1. codes'[1] = t /\ codes' = <<t>>
    BY <1>4
  <2>2. t.control \in Nat /\ t.bytes \in Phrases
    <3>1. t.bytes # << >>
      BY <1>3, <1>7, EmptySeq
    <3> QED BY <1>3, <1>7, <3>1 DEF Phrases
  <2>3. Matches(data', t.bytes, Len(output')) /\ pos' = Len(output') + Len(t.bytes)
    BY <1>1, <1>2, <1>3, <1>4, <1>7 DEF Matches
  <2>4. Literal(t)'
    BY <1>7, <2>1, <2>2, <2>3 DEF Literal, Phrases, Bytes
  <2>5. Literal(codes[1])' = Literal(t)'
    BY <2>1
  <2> QED BY <2>4, <2>5
<1>9. PackInv'
  BY <1>2, <1>3, <1>4, <1>5, <1>8 DEF PackInv
<1>10. pos' \in 0 .. Size + 1
  BY <1>1, <1>3, <1>4
<1> QED BY <1>1, <1>4, <1>6, <1>9, <1>10, OwnStep

LEMMA PackRunStep ==
  ASSUME Inv, PackRun
  PROVE  Inv'
<1>0. PICK n, m : n = RunAt(pos) /\ m = Chunks(n)
  OBVIOUS
<1>1. /\ Typed /\ DecoderTyped /\ stage = "code" /\ scheme = "PackBits" /\ ~foreign /\ PackInv
      /\ codes = << >> /\ pos < Size /\ tile \in Tiles /\ Len(data) = Size /\ data \in Seq(Bytes)
      /\ pos \in Nat /\ Size \in Nat
  <2>1. /\ Typed /\ DecoderTyped /\ stage = "code" /\ scheme = "PackBits" /\ ~foreign /\ PackInv
        /\ codes = << >> /\ pos < Size
    BY DEF Inv, PackRun
  <2>2. tile \in Tiles /\ Len(data) = Size /\ data \in Seq(Bytes) /\ pos \in 0 .. Size + 1
    BY <2>1 DEF Typed
  <2>3. Size \in Nat
    BY <2>2, Shape
  <2> QED BY <2>1, <2>2, <2>3
<1>2. pos = Len(output) /\ Matches(data, output, 0) /\ Len(output) < Size
  <2>1. ~Literal(codes[1])
    BY <1>1 DEF Literal
  <2>2. ~Run(Len(codes))
    BY <1>1 DEF Run
  <2> QED BY <1>1, <2>1, <2>2 DEF PackInv
<1>3. /\ n \in 1 .. Size - pos /\ pos + n \in 1 .. Size /\ n \in Nat \ {0}
      /\ \A k \in 1 .. n : data[pos + k] = data[pos + 1]
  BY <1>0, <1>1, RunAtExists
<1>4. /\ foreign' = foreign /\ tile' = tile /\ scheme' = scheme /\ predictor' = predictor
      /\ carry' = carry /\ col' = col /\ noise' = noise /\ stage' = stage /\ data' = data
      /\ dec' = dec /\ output' = output /\ pos' = pos + n /\ enc' = enc
      /\ codes' = [k \in 1 .. m |-> Repeat(ChunkLen(n, k), data[pos + 1])]
  BY <1>0 DEF PackRun, setup
<1>5. Size' = Size
  BY <1>4, TileUnchanged
<1>6. /\ IsDecoder(dec') /\ output' \in Seq(Bytes) /\ Len(output') <= Size
      /\ enc' \in [current : Seq(Bytes), table : PhraseTables,
                   next_code : FirstDictionaryCode .. MaxDictionaryCode - 1]
  BY <1>1, <1>4 DEF DecoderTyped, Typed
<1>7. m \in Nat \ {0} /\ n - MaxRun * (m - 1) \in 1 .. MaxRun
  BY <1>0, <1>3, ChunksOf
<1>8. Run(Len(codes))'
  <2>1. Len(codes') = m
    BY <1>4, <1>7
  <2>2. data'[pos'] = data[pos + 1]
    BY <1>3, <1>4
  <2>3. pos' - Len(output') = n
    BY <1>1, <1>2, <1>3, <1>4
  <2>4. codes' = [k \in 1 .. m |-> Repeat(IF k < m THEN MaxRun ELSE n - MaxRun * (m - 1), data'[pos'])]
    <3>1. \A k \in 1 .. m : ChunkLen(n, k) = IF k < m THEN MaxRun ELSE n - MaxRun * (m - 1)
      BY <1>0, Zenon DEF ChunkLen
    <3> QED BY <1>4, <2>2, <3>1, Zenon
  <2>5. \A i \in Len(output') + 1 .. pos' : data'[i] = data'[pos']
    <3> TAKE i \in Len(output') + 1 .. pos'
    <3>1. i - pos \in 1 .. n /\ pos + (i - pos) = i
      BY <1>1, <1>2, <1>3, <1>4
    <3> QED BY <3>1, <1>3, <1>4, <2>2
  <2>6. Run(m)'
    BY <1>7, <2>3, <2>4, <2>5 DEF Run, Repeat
  <2>7. Run(Len(codes))' = Run(m)'
    BY <2>1
  <2> QED BY <2>6, <2>7
<1>9. PackInv'
  <2>1. Matches(data', output', 0) /\ Len(output') < Size' /\ pos' <= Size'
    BY <1>2, <1>3, <1>4, <1>5
  <2> QED BY <2>1, <1>8 DEF PackInv
<1>10. pos' \in 0 .. Size + 1
  BY <1>1, <1>3, <1>4
<1> QED BY <1>1, <1>4, <1>6, <1>9, <1>10, OwnStep

LEMMA PackCodeStep ==
  ASSUME Inv, PackCode
  PROVE  Inv'
<1>0. PICK t, n, m, u, x :
        t = codes[1] /\ n = Len(output) /\ m = Len(codes) /\ u = Unpacked(codes[1]) /\ x = data[pos]
  OBVIOUS
<1>1. /\ Typed /\ DecoderTyped /\ stage = "code" /\ scheme = "PackBits" /\ ~foreign /\ PackInv
      /\ codes # << >> /\ tile \in Tiles /\ Len(data) = Size /\ data \in Seq(Bytes)
      /\ pos \in Nat /\ Size \in Nat /\ output \in Seq(Bytes) /\ n \in Nat
  <2>1. /\ Typed /\ DecoderTyped /\ stage = "code" /\ scheme = "PackBits" /\ codes # << >>
    BY DEF Inv, PackCode
  <2>2. ~foreign /\ output \in Seq(Bytes)
    BY <2>1 DEF DecoderTyped
  <2>3. PackInv
    BY <2>1, <2>2 DEF Inv
  <2>4. tile \in Tiles /\ Len(data) = Size /\ data \in Seq(Bytes) /\ pos \in 0 .. Size + 1
    BY <2>1 DEF Typed
  <2>5. Size \in Nat
    BY <2>4, Shape
  <2> QED BY <2>1, <2>2, <2>3, <2>4, <2>5, <1>0
<1>2. Matches(data, output, 0) /\ n < Size /\ pos <= Size /\ (Literal(t) \/ Run(m))
  BY <1>0, <1>1 DEF PackInv
<1>3. /\ foreign' = foreign /\ tile' = tile /\ scheme' = scheme /\ predictor' = predictor
      /\ carry' = carry /\ col' = col /\ noise' = noise /\ pos' = pos /\ enc' = enc /\ dec' = dec
      /\ codes' = Tail(codes) /\ Unpack(Head(codes))
  BY DEF PackCode, setup
<1>4. Size' = Size
  BY <1>3, TileUnchanged
<1>5. /\ pos' \in 0 .. Size + 1 /\ IsDecoder(dec')
      /\ enc' \in [current : Seq(Bytes), table : PhraseTables,
                   next_code : FirstDictionaryCode .. MaxDictionaryCode - 1]
  BY <1>1, <1>3 DEF DecoderTyped, Typed
(* Whatever is sent, what comes of it is the tile's next bytes.            *)
<1>6. /\ Head(codes) = t /\ u \in Seq(Bytes) /\ Len(u) \in Nat \ {0} /\ Matches(data, u, n)
      /\ n + Len(u) <= pos
      /\ \/ codes' = << >> /\ n + Len(u) = pos
         \/ m > 1 /\ Run(m) /\ codes' = Tail(codes) /\ Len(u) = MaxRun
  <2>1. CASE Literal(t)
    <3>1. /\ codes = <<t>> /\ t.control \in Nat /\ t.bytes \in Phrases
          /\ Matches(data, t.bytes, Len(output)) /\ pos = Len(output) + Len(t.bytes)
      BY <2>1 DEF Literal
    <3>2. u = t.bytes
      BY <1>0, <3>1 DEF Unpacked
    <3>3. u \in Seq(Bytes) /\ Len(u) \in Nat \ {0}
      BY <3>1, <3>2 DEF Phrases
    <3>4. Head(codes) = t /\ codes' = << >>
      BY <1>3, <3>1
    <3>5. Matches(data, u, n) /\ n + Len(u) = pos
      BY <1>0, <3>1, <3>2
    <3> QED BY <1>1, <3>3, <3>4, <3>5
  <2>2. CASE Run(m)
    <3> DEFINE rest == pos - n - MaxRun * (m - 1)
    <3>1. /\ m \in Nat \ {0} /\ rest \in 1 .. MaxRun
          /\ codes = [k \in 1 .. m |-> Repeat(IF k < m THEN MaxRun ELSE rest, x)]
          /\ \A i \in n + 1 .. pos : data[i] = x
      BY <1>0, <2>2, Zenon DEF Run
    <3>2. MaxRun \in Nat \ {0} /\ MaxRun >= 2
      BY Constants
    <3> PICK l : l = IF 1 < m THEN MaxRun ELSE rest
      OBVIOUS
    <3>3. t = Repeat(l, x) /\ l \in 1 .. MaxRun
      BY <1>0, <3>1, <3>2
    <3>4. n + l <= pos /\ (m = 1 => n + l = pos) /\ pos \in 1 .. Size
      <4>1. CASE m = 1
        <5>1. MaxRun * (m - 1) = 0
          BY <4>1, <3>2
        <5>2. l = pos - n
          BY <1>1, <4>1, <5>1
        <5> QED BY <1>1, <1>2, <3>1, <3>3, <4>1, <5>2
      <4>2. CASE m # 1
        <5>1. l = MaxRun /\ 1 \in Nat /\ m - 1 \in Nat /\ 1 <= m - 1
          BY <3>1, <4>2
        <5>2. 1 * MaxRun <= (m - 1) * MaxRun
          BY <3>2, <5>1, ProductMonotone
        <5>3. MaxRun <= MaxRun * (m - 1) /\ MaxRun * (m - 1) \in Nat
          BY <3>2, <5>1, <5>2
        <5> DEFINE y == MaxRun * (m - 1)
        <5>4. MaxRun <= y /\ y \in Nat /\ pos - n - y >= 1
          BY <3>1, <5>3
        <5> HIDE DEF y
        <5> QED BY <1>1, <1>2, <3>2, <4>2, <5>1, <5>4
      <4> QED BY <4>1, <4>2
    <3> HIDE DEF rest
    <3>5. x \in Bytes
      BY <1>0, <1>1, <3>4
    <3>6. t.control = 1 - l /\ t.bytes = <<x>> /\ t.control \in Int /\ t.bytes \in Phrases
      <4>1. <<x>> \in Seq(Bytes) /\ <<x>> # << >>
        BY <3>5
      <4> QED BY <3>3, <4>1 DEF Repeat, Phrases
    <3>7. u \in Seq(Bytes) /\ Len(u) = l /\ \A k \in 1 .. l : u[k] = x
      <4>1. CASE l = 1
        <5>1. u = <<x>>
          BY <1>0, <3>6, <4>1 DEF Unpacked
        <5> QED BY <3>5, <4>1, <5>1
      <4>2. CASE l # 1
        <5>1. t.control < 0 /\ t.control # -MaxRun /\ 1 - t.control = l
          BY <3>2, <3>3, <3>6, <4>2
        <5>2. t.bytes[1] = x
          BY <3>6
        <5> QED BY <1>0, <3>6, <5>1, <5>2, UnpackedIsBytes
      <4> QED BY <4>1, <4>2
    <3>8. Matches(data, u, n)
      <4>1. \A k \in 1 .. Len(u) : u[k] = data[n + k]
        BY <1>1, <3>1, <3>3, <3>4, <3>7
      <4> QED BY <1>1, <3>3, <3>4, <3>7, <4>1 DEF Matches
    <3>9. Len(codes) = m /\ Head(codes) = t
      BY <1>0, <3>1
    <3>10. CASE m = 1
      <4>1. codes' = << >>
        BY <1>3, <3>1, <3>10
      <4> QED BY <3>3, <3>4, <3>7, <3>8, <3>9, <3>10, <4>1
    <3>11. CASE m # 1
      BY <1>3, <2>2, <3>1, <3>3, <3>4, <3>7, <3>8, <3>9, <3>11
    <3> QED BY <3>10, <3>11
  <2> QED BY <1>2, <2>1, <2>2
<1>7. /\ output \o u \in Seq(Bytes) /\ Len(output \o u) = n + Len(u) /\ Matches(data, output \o u, 0)
  BY <1>0, <1>1, <1>2, <1>6, MatchesBoth
<1>8. output' = output \o u /\ (IF Len(output') = Size THEN Succeeds ELSE GoesOn)
  <2>1. ~(Len(output) + Len(u) > Size)
    BY <1>0, <1>1, <1>2, <1>6
  <2>2. Unpack(t) /\ u = Unpacked(t)
    BY <1>0, <1>3, <1>6
  <2> QED BY <2>1, <2>2 DEF Unpack
<1>9. CASE Len(output') = Size
  <2>1. stage' = "undo" /\ data' = output'
    BY <1>8, <1>9 DEF Succeeds
  <2>2. output' = data
    BY <1>1, <1>7, <1>8, <1>9, MatchesWhole
  <2> QED BY <1>1, <1>3, <1>5, <1>7, <1>8, <1>9, <2>1, <2>2, OwnStep
<1>10. CASE Len(output') # Size
  <2>1. stage' = stage /\ data' = data
    BY <1>8, <1>10 DEF GoesOn
  <2>2. Len(output') = n + Len(u) /\ Len(output') < Size /\ Len(output') <= Size
    <3>1. Len(output') = n + Len(u) /\ n + Len(u) <= pos /\ Len(u) \in Nat
      BY <1>6, <1>7, <1>8
    <3>2. n + Len(u) <= Size
      BY <1>1, <1>2, <3>1
    <3> QED BY <1>1, <1>10, <3>1, <3>2
  <2>3. (codes' = << >> /\ pos' = Len(output')) \/ Run(Len(codes))'
    <3>1. CASE codes' = << >> /\ n + Len(u) = pos
      BY <1>3, <2>2, <3>1
    <3>2. CASE m > 1 /\ Run(m) /\ codes' = Tail(codes) /\ Len(u) = MaxRun
      <4> DEFINE rest == pos - n - MaxRun * (m - 1)
      <4>1. /\ m \in Nat \ {0} /\ rest \in 1 .. MaxRun
            /\ codes = [k \in 1 .. m |-> Repeat(IF k < m THEN MaxRun ELSE rest, x)]
            /\ \A i \in n + 1 .. pos : data[i] = x
        BY <1>0, <3>2, Zenon DEF Run
      <4>2. MaxRun \in Nat /\ m - 1 \in Nat \ {0}
        BY <3>2, <4>1, Constants
      <4>3. pos' - Len(output') - MaxRun * ((m - 1) - 1) = rest
        <5>1. MaxRun * (m - 1) = MaxRun * ((m - 1) - 1) + MaxRun /\ MaxRun * ((m - 1) - 1) \in Nat
          <6> DEFINE q == (m - 1) - 1
          <6>1. q \in Nat /\ m - 1 = q + 1
            BY <4>1, <4>2
          <6> HIDE DEF q
          <6>2. MaxRun * (q + 1) = MaxRun * q + MaxRun /\ MaxRun * q \in Nat
            BY <4>2, <6>1, Product
          <6> QED BY <6>1, <6>2 DEF q
        <5> DEFINE y == MaxRun * ((m - 1) - 1)
                   z == MaxRun * (m - 1)
        <5>2. z = y + MaxRun /\ y \in Nat /\ Len(output') = n + MaxRun /\ rest = pos - n - z /\ pos' = pos
          BY <1>3, <2>2, <3>2, <5>1
        <5> HIDE DEF y, z, rest
        <5>3. pos' - Len(output') - y = rest
          BY <5>2, <1>1, <4>2
        <5> QED BY <5>3 DEF y
      <4> HIDE DEF rest
      <4>4. /\ Len(codes') = m - 1
            /\ codes' = [k \in 1 .. m - 1 |-> Repeat(IF k < m - 1 THEN MaxRun ELSE rest, x)]
        <5>1. codes' = [k \in 1 .. m - 1 |-> codes[k + 1]] /\ Len(codes') = m - 1
          BY <3>2, <4>1
        <5>2. \A k \in 1 .. m - 1 : codes[k + 1] = Repeat(IF k < m - 1 THEN MaxRun ELSE rest, x)
          <6> TAKE k \in 1 .. m - 1
          <6>1. k + 1 \in 1 .. m /\ (k + 1 < m <=> k < m - 1)
            BY <4>1
          <6> HIDE DEF Repeat
          <6>2. codes[k + 1] = Repeat(IF k + 1 < m THEN MaxRun ELSE rest, x)
            BY <4>1, <6>1
          <6> QED BY <6>1, <6>2
        <5> QED BY <5>1, <5>2
      <4>5. x = data'[pos'] /\ \A i \in Len(output') + 1 .. pos' : data'[i] = x
        <5>1. x = data'[pos']
          BY <1>0, <1>3, <2>1
        <5>2. ASSUME NEW i \in Len(output') + 1 .. pos' PROVE data'[i] = x
          <6>1. i \in n + 1 .. pos
            BY <1>1, <1>3, <2>2, <3>2, <4>2
          <6> QED BY <6>1, <4>1, <2>1
        <5> QED BY <5>1, <5>2
      <4>6. Run(m - 1)'
        BY <4>1, <4>2, <4>3, <4>4, <4>5 DEF Run, Repeat
      <4>7. Run(Len(codes))' = Run(m - 1)'
        BY <4>4
      <4> QED BY <4>6, <4>7
    <3> QED BY <1>6, <3>1, <3>2
  <2>4. PackInv'
    <3>1. Matches(data', output', 0) /\ Len(output') < Size' /\ pos' <= Size'
      BY <1>2, <1>3, <1>4, <1>7, <1>8, <2>1, <2>2
    <3> QED BY <2>3, <3>1 DEF PackInv
  <2> QED BY <1>1, <1>3, <1>5, <1>7, <1>8, <2>1, <2>2, <2>4, OwnStep
<1> QED BY <1>9, <1>10

------------------------------------------------------------------------------
(* The theorems.                                                           *)

LEMMA StutterStep ==
  ASSUME Inv, UNCHANGED vars
  PROVE  Inv'
<1>1. /\ tile' = tile /\ scheme' = scheme /\ predictor' = predictor /\ foreign' = foreign
      /\ stage' = stage /\ data' = data /\ carry' = carry /\ col' = col /\ pos' = pos
      /\ enc' = enc /\ codes' = codes /\ written' = written /\ dec' = dec /\ output' = output
      /\ noise' = noise
  BY DEF vars, coding
<1>2. Size' = Size /\ Rows' = Rows /\ Comps' = Comps /\ Columns' = Columns
      /\ \A X : Mix(X)' = Mix(X) /\ \A n : CarryAt(n)' = CarryAt(n)
  BY <1>1, TileUnchanged
<1>3. Typed' = Typed
  BY <1>1, <1>2 DEF Typed, Bytes, FirstDictionaryCode, PhraseTables
<1>4. DecoderTyped' = DecoderTyped
  BY <1>1, <1>2 DEF DecoderTyped, Bytes
<1>5. NotStarted' = NotStarted
  BY <1>1 DEF NotStarted, NoPhrases, FirstDictionaryCode, FreshDecoder
<1>6. Predicted' = Predicted
  <2>1. Differenced' = Differenced
    BY <1>1, <1>2 DEF Differenced
  <2> QED BY <1>1, <1>2, <2>1 DEF Predicted
<1>7. LzwInv' = LzwInv
  <2>1. /\ \A c : Entry(c)' = Entry(c)
        /\ \A p : DecoderAfter(p)' = DecoderAfter(p)
    BY <1>1, Zenon DEF Entry, Bytes, FirstDictionaryCode, DecoderAfter, DecoderWidth, CodeWidthFor
  <2>2. Collecting' = Collecting /\ Cleared' = Cleared /\ Ending' = Ending
    BY <1>1, <1>2 DEF Collecting, Cleared, Ending, Holds, NoEntries, NoPhrases, ClearCode, EoiCode,
                      FirstDictionaryCode
  <2>3. Sent(codes[1], Entry(codes[1]))' = Sent(codes[1], Entry(codes[1]))
    BY <1>1, <1>2, <2>1, Zenon DEF Sent, Holds, NoEntries, NoPhrases, ClearCode, EoiCode, FirstDictionaryCode
  <2> QED BY <1>1, <2>2, <2>3 DEF LzwInv, FirstDictionaryCode
<1>8. PackInv' = PackInv
  <2>1. \A t : Literal(t)' = Literal(t)
    BY <1>1, Zenon DEF Literal, Phrases, Bytes
  <2>2. \A m : Run(m)' = Run(m)
    BY <1>1, Zenon DEF Run, Repeat
  <2> QED BY <1>1, <1>2, <2>1, <2>2, Zenon DEF PackInv
<1> QED BY <1>1, <1>3, <1>4, <1>5, <1>6, <1>7, <1>8, Zenon DEF Inv

LEMMA Step ==
  ASSUME Inv, [Next]_vars
  PROVE  Inv'
<1>1. CASE ApplyColumn BY <1>1, ApplyColumnStep
<1>2. CASE Applied BY <1>2, AppliedStep
<1>3. CASE UndoColumn BY <1>3, UndoColumnStep
<1>4. CASE Undone BY <1>4, UndoneStep
<1>5. CASE LzwByte BY <1>5, LzwByteStep
<1>6. CASE LzwEnd BY <1>6, LzwEndStep
<1>7. CASE LzwCode BY <1>7, LzwCodeStep
<1>8. CASE PackRun BY <1>8, PackRunStep
<1>9. CASE PackLiteral BY <1>9, PackLiteralStep
<1>10. CASE PackCode BY <1>10, PackCodeStep
<1>11. CASE \E code \in 0 .. 2^LastWidth - 1 : ForeignCode(code) BY <1>11, ForeignCodeStep
<1>12. CASE \E control \in -MaxRun .. MaxRun - 1, byte \in Bytes : ForeignControl(control, byte)
  BY <1>12, ForeignControlStep
<1>13. CASE ForeignEnd BY <1>13, ForeignEndStep
<1>14. CASE Over BY <1>14, StutterStep DEF Over
<1>15. CASE UNCHANGED vars BY <1>15, StutterStep
<1> QED BY <1>1, <1>2, <1>3, <1>4, <1>5, <1>6, <1>7, <1>8, <1>9, <1>10, <1>11, <1>12, <1>13,
          <1>14, <1>15 DEF Next

(* The inductive invariant: the encoder's dictionary is the decoder's plus *)
(* the one entry that waits for the next code, the columns differenced so  *)
(* far are exactly the predictor's, and the codes in flight stand for      *)
(* exactly the bytes between what was read and what was written.           *)
THEOREM Invariant == Spec => []Inv
BY Start, Step, PTL DEF Spec

(* Every variable of the codecs keeps its type: bytes are bytes, positions *)
(* stay in the tile, and the encoder hands out no code past its last.      *)
THEOREM TypeCorrect == Spec => []TypeOK
<1>1. Inv => TypeOK
  <2> SUFFICES ASSUME Inv PROVE TypeOK
    OBVIOUS
  <2>1. Typed
    BY DEF Inv
  <2>2. \A p \in DOMAIN enc.table : enc.table[p] \in FirstDictionaryCode .. MaxDictionaryCode - 2
    BY <2>1 DEF Typed, PhraseTables
  <2> QED BY <2>1, <2>2 DEF Typed, TypeOK
<1> QED BY <1>1, Invariant, PTL

(* Whatever codes arrive, own or foreign, decode_lzw and decode_pack_bits  *)
(* write no more than the tile, hand on nothing but a whole tile, and the  *)
(* dictionary holds a phrase for every code below the next.                *)
THEOREM DecoderSafeHolds == Spec => []DecoderSafe
<1>1. Inv => DecoderSafe
  <2> SUFFICES ASSUME Inv PROVE DecoderSafe
    OBVIOUS
  <2>1. /\ IsDecoder(dec) /\ Len(output) <= Size
        /\ stage = "undo" => Len(output) = Size
    BY DEF Inv, DecoderTyped
  <2>2. /\ dec.next_code \in FirstDictionaryCode .. MaxDictionaryCode + 1
        /\ DOMAIN dec.table = FirstDictionaryCode .. dec.next_code - 1
        /\ \A c \in DOMAIN dec.table : dec.table[c] \in Phrases
    BY <2>1 DEF IsDecoder
  <2>3. dec.next_code <= MaxDictionaryCode + 1
    <3>1. FirstDictionaryCode \in Int /\ MaxDictionaryCode + 1 \in Int
      BY Constants
    <3> QED BY <2>2, <3>1
  <2>4. \A c \in DOMAIN dec.table : dec.table[c] # << >>
    BY <2>2 DEF Phrases
  <2> QED BY <2>1, <2>2, <2>3, <2>4 DEF DecoderSafe
<1> QED BY <1>1, Invariant, PTL

(* A tile that this program encodes, with LZW or PackBits, predictor or    *)
(* not, never fails to decode and comes back byte for byte.                *)
THEOREM DecodedHolds == Spec => []Decoded
<1>1. Inv => Decoded
  <2> SUFFICES ASSUME Inv, ~foreign PROVE stage # "failed" /\ (stage = "done" => data = tile.bytes)
    BY DEF Decoded
  <2>1. Predicted /\ tile \in Tiles
    BY DEF Inv, Typed
  <2>2. ASSUME stage = "done" PROVE data = tile.bytes
    <3>1. Differenced = {}
      BY <2>2 DEF Differenced
    <3> QED BY <2>1, <3>1, MixNothing DEF Predicted
  <2> QED BY <2>1, <2>2 DEF Predicted
<1> QED BY <1>1, Invariant, PTL

LEMMA WidthFits ==
  ASSUME NEW n \in Nat, NEW code \in Nat, code <= n, code <= MaxDictionaryCode
  PROVE  code < 2^CodeWidthFor(n)
<1> DEFINE T == {w \in FirstWidth .. LastWidth : w = LastWidth \/ n < 2^w - 1}
           P(w) == /\ w = LastWidth \/ n < 2^w - 1
                   /\ \A v \in FirstWidth .. w - 1 : n >= 2^v - 1
<1>1. LastWidth \in T /\ T \subseteq Nat
  BY CodecAssumption
<1>2. PICK w \in T : \A y \in T : w <= y
  <2> HIDE DEF T
  <2> QED BY <1>1, LeastElement
<1>3. w \in FirstWidth .. LastWidth /\ P(w)
  <2>1. w \in FirstWidth .. LastWidth /\ (w = LastWidth \/ n < 2^w - 1)
    BY <1>2
  <2>2. ASSUME NEW v \in FirstWidth .. w - 1 PROVE n >= 2^v - 1
    <3>1. v \in FirstWidth .. LastWidth /\ ~(w <= v) /\ v \in Nat
      BY <2>1, CodecAssumption
    <3>2. v \notin T
      <4> HIDE DEF T
      <4> QED BY <1>2, <3>1
    <3>3. ~(n < 2^v - 1)
      BY <3>1, <3>2
    <3> QED BY <3>1, <3>3
  <2> QED BY <2>1, <2>2
<1>4. CodeWidthFor(n) = CHOOSE m \in FirstWidth .. LastWidth : P(m)
  BY DEF CodeWidthFor
<1>5. CodeWidthFor(n) \in FirstWidth .. LastWidth /\ P(CodeWidthFor(n))
  <2> HIDE DEF P
  <2> QED BY <1>3, <1>4
<1> DEFINE m == CodeWidthFor(n)
<1>6. m \in Nat /\ (m = LastWidth \/ n < 2^m - 1)
  BY <1>5, CodecAssumption
<1> HIDE DEF m
<1>7. code < 2^m
  <2>1. CASE m = LastWidth
    BY <2>1, CodecAssumption
  <2>2. CASE n < 2^m - 1
    BY <2>2, <1>6
  <2> QED BY <1>6, <2>1, <2>2
<1> QED BY <1>7 DEF m

(* encode_lzw, write_codes_to_bits and decode_lzw count alike: every code  *)
(* is read with the width it was written with and fits in it, and the two  *)
(* dictionaries differ by the one entry that waits for the next code.      *)
THEOREM InStepHolds == Spec => []InStep
<1>1. Inv => InStep
  <2> SUFFICES ASSUME Inv, scheme = "Lzw", ~foreign, stage = "code"
               PROVE  /\ CodeWidthFor(written.table_size) = dec.code_width
                      /\ codes # << >> => Head(codes) < 2^dec.code_width
                      /\ codes = << >> =>
                           /\ \A c \in DOMAIN dec.table :
                                dec.table[c] \in DOMAIN enc.table /\ enc.table[dec.table[c]] = c
                           /\ Cardinality(DOMAIN enc.table) - Cardinality(DOMAIN dec.table) =
                                (IF dec.old_entry = << >> THEN 0 ELSE 1)
    BY DEF InStep
  <2>1. /\ LzwInv /\ IsDecoder(dec)
        /\ enc.next_code \in FirstDictionaryCode .. MaxDictionaryCode - 1
    BY DEF Inv, DecoderTyped, Typed
  <2>2. /\ written.table_size = dec.next_code /\ dec.code_width = CodeWidthFor(dec.next_code)
        /\ dec.next_code \in FirstDictionaryCode .. MaxDictionaryCode + 1 /\ dec.next_code \in Nat
        /\ DOMAIN dec.table = FirstDictionaryCode .. dec.next_code - 1
    BY <2>1, Constants DEF LzwInv, IsDecoder
  <2>3. ASSUME codes # << >> PROVE Head(codes) < 2^dec.code_width
    <3>1. CASE Cleared
      <4>1. Head(codes) = B
        BY <3>1, Constants DEF Cleared
      <4> QED BY <4>1, <2>2, Constants, WidthFits
    <3>2. CASE Sent(codes[1], Entry(codes[1]))
      <4>1. PICK code : code = codes[1]
        OBVIOUS
      <4>2. /\ Head(codes) = code /\ code \in Nat /\ code <= dec.next_code
            /\ dec.next_code < MaxDictionaryCode
        BY <3>2, <4>1 DEF Sent
      <4>3. code <= MaxDictionaryCode
        BY <2>2, <4>2, Constants
      <4> QED BY <2>2, <4>2, <4>3, WidthFits
    <3>3. CASE Ending
      <4>1. Head(codes) = B + 1
        BY <3>3, Constants DEF Ending
      <4> QED BY <4>1, <2>2, Constants, WidthFits
    <3> QED BY <2>1, <2>3, <3>1, <3>2, <3>3 DEF LzwInv, Collecting
  <2>4. ASSUME codes = << >>
        PROVE  /\ \A c \in DOMAIN dec.table :
                    dec.table[c] \in DOMAIN enc.table /\ enc.table[dec.table[c]] = c
               /\ Cardinality(DOMAIN enc.table) - Cardinality(DOMAIN dec.table) =
                    (IF dec.old_entry = << >> THEN 0 ELSE 1)
    <3>1. Agrees(enc, dec, enc.current[1]) /\ Cardinality(DOMAIN enc.table) = enc.next_code - FirstDictionaryCode
      BY <2>1, <2>4 DEF LzwInv, Collecting, Cleared, Sent, Ending
    <3>2. Cardinality(DOMAIN dec.table) = dec.next_code - FirstDictionaryCode
      <4>1. Cardinality(FirstDictionaryCode .. dec.next_code - 1)
              = IF FirstDictionaryCode > dec.next_code - 1 THEN 0
                ELSE (dec.next_code - 1) - FirstDictionaryCode + 1
        <5>1. FirstDictionaryCode \in Int /\ dec.next_code - 1 \in Int
          BY <2>2, Constants
        <5> QED BY ONLY <5>1, FS_Interval, Zenon
      <4> QED BY <4>1, <2>2, Constants
    <3>3. /\ \A c \in DOMAIN dec.table :
               dec.table[c] \in DOMAIN enc.table /\ enc.table[dec.table[c]] = c
          /\ enc.next_code = dec.next_code + (IF dec.old_entry = << >> THEN 0 ELSE 1)
      BY <3>1 DEF Agrees
    <3> QED BY <2>1, <2>2, <3>1, <3>2, <3>3, Constants
  <2> QED BY <2>2, <2>3, <2>4
<1> QED BY <1>1, Invariant, PTL
=============================================================================
