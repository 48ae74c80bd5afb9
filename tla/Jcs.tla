--------------------------------- MODULE Jcs ---------------------------------
(***************************************************************************)
(* The canonical JSON writer (RFC 8785), and a reader of JSON to hold it   *)
(* against. A text is the sequence of its code points; a literal name      *)
(* (null, true, false) counts as one. A value is tagged with its kind, and *)
(* a double is its sign, its shortest decimal digits and the power of ten  *)
(* of the first of them.                                                   *)
(***************************************************************************)
EXTENDS Integers, Sequences, FiniteSets

CONSTANTS
  MaxInteger,  \* the largest integer, 2^64 - 1
  MaxDepth     \* bound: how deep arrays and objects nest

ASSUME JcsAssumption == MaxInteger \in Nat /\ MaxDepth \in Nat

Quote == 34
Plus == 43
Comma == 44
Minus == 45
Point == 46
Zero == 48
Colon == 58
OpenArray == 91
Backslash == 92
CloseArray == 93
Exponent == 101
LetterU == 117
OpenObject == 123
CloseObject == 125
Figure == Zero .. Zero + 9

Literals == [null |-> 9001, true |-> 9002, false |-> 9003]
NonFiniteNumber == -1        \* stands in a text for the error

(* A Rust char is no surrogate.                                            *)
Char == {c \in Nat : c <= 1114111 /\ (c < 55296 \/ c > 57343)}
Text == Seq(Char)

Null == <<"null">>
Bool(b) == <<"bool", b>>
Integer(n) == <<"integer", n>>
Double(negative, digits, power) ==
  <<"double", [negative |-> negative, digits |-> digits, power |-> power]>>
NonFinite == <<"nonfinite">>
String(text) == <<"string", text>>
Array(items) == <<"array", items>>
Object(members) == <<"object", members>>   \* pairs of a name and a value

(* No digits are the double 0; others have no zero in front or behind.     *)
Shortest == {s \in Seq(Figure) : s # << >> => s[1] # Zero /\ s[Len(s)] # Zero}
Finite == [negative: BOOLEAN, digits: Shortest, power: -MaxInteger .. MaxInteger]

Scalars ==
  {Null, NonFinite} \union ({"bool"} \X BOOLEAN)
    \union ({"integer"} \X (-MaxInteger .. MaxInteger)) \union ({"double"} \X Finite)
    \union ({"string"} \X Text)

(* The members of an object have different names.                          *)
Members(values) ==
  {ms \in Seq(Text \X values) : \A i, j \in DOMAIN ms : ms[i][1] = ms[j][1] => i = j}

(* The values of at most a depth, and all of them.                         *)
Values[d \in 0 .. MaxDepth] ==
  IF d = 0 THEN Scalars
  ELSE Scalars \union ({"array"} \X Seq(Values[d - 1])) \union ({"object"} \X Members(Values[d - 1]))
Value == Values[MaxDepth]

Holds(text, c) == \E i \in DOMAIN text : text[i] = c

(* The texts one after the other, and with commas between them.            *)
Joined(texts) ==
  LET all == << >> \o texts
      upTo[n \in 0 .. Len(all)] == IF n = 0 THEN << >> ELSE upTo[n - 1] \o all[n]
  IN  upTo[Len(all)]
Separated(texts) ==
  LET all == << >> \o texts
  IN Joined([i \in 1 .. Len(all) |-> IF i = 1 THEN all[i] ELSE <<Comma>> \o all[i]])

------------------------------------------------------------------------------
(* Numbers.                                                                *)

Zeros(n) == [i \in 1 .. n |-> Zero]

Decimal[n \in 0 .. MaxInteger] ==
  IF n < 10 THEN <<Zero + n>> ELSE Append(Decimal[n \div 10], Zero + (n % 10))
Signed(n) == IF n < 0 THEN <<Minus>> \o Decimal[-n] ELSE Decimal[n]

Figures(text) ==
  LET upTo[n \in 0 .. Len(text)] == IF n = 0 THEN 0 ELSE 10 * upTo[n - 1] + text[n] - Zero
  IN  upTo[Len(text)]
Parsed(text) ==
  IF text # << >> /\ text[1] \in {Plus, Minus}
  THEN (IF text[1] = Minus THEN -1 ELSE 1) * Figures(Tail(text))
  ELSE Figures(text)

(* What is before and after the first c; all of the text if there is none. *)
Before(text, c) ==
  IF Holds(text, c)
  THEN SubSeq(text, 1, (CHOOSE i \in DOMAIN text :
                          text[i] = c /\ \A j \in 1 .. i - 1 : text[j] # c) - 1)
  ELSE text
After(text, c) == SubSeq(text, Len(Before(text, c)) + 2, Len(text))
Without(text, c) == Before(text, c) \o After(text, c)

LeadingZeros(text) ==
  CHOOSE k \in 0 .. Len(text) :
    /\ \A i \in 1 .. k : text[i] = Zero
    /\ k < Len(text) => text[k + 1] # Zero
TrailingZeros(text) ==
  CHOOSE k \in 0 .. Len(text) :
    /\ \A i \in Len(text) - k + 1 .. Len(text) : text[i] = Zero
    /\ k < Len(text) => text[Len(text) - k] # Zero

Scientific(digits) ==
  <<digits[1]>> \o (IF Len(digits) > 1 THEN <<Point>> \o Tail(digits) ELSE << >>)

(* ryu::Buffer::format_finite, without the sign.                           *)
Ryu(digits, power) ==
  LET n == power + 1
  IN  CASE Len(digits) <= n /\ n <= 16 ->
             digits \o Zeros(n - Len(digits)) \o <<Point, Zero>>
        [] 0 < n /\ n < Len(digits) /\ n <= 16 ->
             SubSeq(digits, 1, n) \o <<Point>> \o SubSeq(digits, n + 1, Len(digits))
        [] -5 < n /\ n <= 0 -> <<Zero, Point>> \o Zeros(-n) \o digits
        [] OTHER -> Scientific(digits) \o <<Exponent>> \o Signed(power)

(* The digits of ryu's layout and the power of ten of the first.           *)
Recovered(body) ==
  LET whole == Before(body, Point)
      part == After(body, Point)
      skipped == LeadingZeros(part)
  IN  IF Holds(body, Exponent)
      THEN [digits |-> Without(Before(body, Exponent), Point),
            power |-> Parsed(After(body, Exponent))]
      ELSE IF part = <<Zero>> THEN [digits |-> whole, power |-> Len(whole) - 1]
      ELSE IF whole = <<Zero>>
      THEN [digits |-> SubSeq(part, skipped + 1, Len(part)), power |-> - skipped - 1]
      ELSE [digits |-> whole \o part, power |-> Len(whole) - 1]

(* write_ecmascript_layout. A layout with a bug loses a zero after the     *)
(* point.                                                                  *)
LeadingFractionShort(n) == Zeros(-n - 1)
LeadingFraction(n) == Zeros(-n)
Layout(digits, power) ==
  LET count == Len(digits)
      n == power + 1
  IN  CASE count <= n /\ n <= 21 -> digits \o Zeros(n - count)
        [] 0 < n /\ n < count /\ n <= 21 ->
             SubSeq(digits, 1, n) \o <<Point>> \o SubSeq(digits, n + 1, count)
        [] -6 < n /\ n <= 0 -> <<Zero, Point>> \o LeadingFraction(n) \o digits
        [] OTHER -> Scientific(digits) \o <<Exponent, IF power >= 0 THEN Plus ELSE Minus>>
                      \o Decimal[IF power >= 0 THEN power ELSE -power]

WriteDouble(d) ==
  LET found == Recovered(Ryu(d.digits, d.power))
  IN  IF d.digits = << >> THEN <<Zero>>
      ELSE (IF d.negative THEN <<Minus>> ELSE << >>) \o Layout(found.digits, found.power)

------------------------------------------------------------------------------
(* Strings, and the order of the members of an object.                     *)

(* The characters with an escape of their own, and its letter. A writer    *)
(* with a bug forgets the quote.                                           *)
ShortEscapes ==
  [c \in {8, 9, 10, 12, 13, Quote, Backslash} |->
     CASE c = 8 -> 98 [] c = 9 -> 116 [] c = 10 -> 110 [] c = 12 -> 102 [] c = 13 -> 114
       [] OTHER -> c]
Hex(d) == IF d < 10 THEN Zero + d ELSE 87 + d
EscapedChar(c) ==
  IF c \in DOMAIN ShortEscapes THEN <<Backslash, ShortEscapes[c]>>
  ELSE IF c < 32 THEN <<Backslash, LetterU, Zero, Zero, Hex(c \div 16), Hex(c % 16)>>
  ELSE <<c>>
EscapedUnlessQuote(text) ==
  Joined([i \in 1 .. Len(text) |->
            IF text[i] = Quote THEN <<Quote>> ELSE EscapedChar(text[i])])
Escaped(text) == Joined([i \in 1 .. Len(text) |-> EscapedChar(text[i])])
Quoted(text) == <<Quote>> \o Escaped(text) \o <<Quote>>

Units(c) ==
  IF c < 65536 THEN <<c>>
  ELSE <<55296 + (c - 65536) \div 1024, 56320 + ((c - 65536) % 1024)>>
Utf16(text) == Joined([i \in 1 .. Len(text) |-> Units(text[i])])

Precedes(left, right) ==
  \/ /\ Len(left) < Len(right)
     /\ \A i \in 1 .. Len(left) : left[i] = right[i]
  \/ \E i \in 1 .. Len(left) :
       /\ i <= Len(right) /\ left[i] < right[i]
       /\ \A j \in 1 .. i - 1 : left[j] = right[j]

(* compare_utf16. One with a bug compares code points.                     *)
LessByCodePoint(left, right) == Precedes(left, right)
Less(left, right) == Precedes(Utf16(left), Utf16(right))

(* sort_by, for members with different names: one has as many before it as *)
(* there are lesser names.                                                 *)
Lesser(all, m) == {n \in all : Less(n[1], m[1])}
Ordered(members) ==
  LET all == {members[i] : i \in 1 .. Len(members)}
      before == [m \in all |-> Cardinality(Lesser(all, m))]
  IN  [k \in 1 .. Len(members) |-> CHOOSE m \in all : before[m] = k - 1]

WriteCanonical[v \in Value] ==
  CASE v[1] = "null" -> <<Literals.null>>
    [] v[1] = "bool" -> IF v[2] THEN <<Literals.true>> ELSE <<Literals.false>>
    [] v[1] = "integer" -> Signed(v[2])
    [] v[1] = "double" -> WriteDouble(v[2])
    [] v[1] = "nonfinite" -> <<NonFiniteNumber>>
    [] v[1] = "string" -> Quoted(v[2])
    [] v[1] = "array" ->
         <<OpenArray>> \o Separated([i \in 1 .. Len(v[2]) |-> WriteCanonical[v[2][i]]])
           \o <<CloseArray>>
    [] OTHER ->    \* an object
         LET members == Ordered(v[2])
         IN  <<OpenObject>>
               \o Separated([i \in 1 .. Len(members) |->
                    Quoted(members[i][1]) \o <<Colon>> \o WriteCanonical[members[i][2]]])
               \o <<CloseObject>>

(* encode_value: a number that is not finite anywhere fails the whole call. *)
EncodeValue(v) ==
  LET text == WriteCanonical[v]
  IN  IF Holds(text, NonFiniteNumber) THEN <<NonFiniteNumber>> ELSE text

------------------------------------------------------------------------------
(* A reader of JSON. An object is read as the set of its members, a number *)
(* as its sign, digits and power.                                          *)

NumberOf(text) ==
  LET negative == text[1] = Minus
      body == IF negative THEN Tail(text) ELSE text
      mantissa == Before(body, Exponent)
      figures == Without(mantissa, Point)
      lead == LeadingZeros(figures)
      digits == SubSeq(figures, lead + 1, Len(figures) - TrailingZeros(figures))
  IN  IF digits = << >> THEN <<"number", FALSE, << >>, 0>>
      ELSE <<"number", negative, digits,
             Len(Before(mantissa, Point)) - lead - 1 + Parsed(After(body, Exponent))>>

(* The reader takes a character at a time. It knows the array or object it *)
(* is in, with what encloses that; what it expects or is in the middle of; *)
(* and the characters and hexadecimal digits it has of that. A member is   *)
(* an object of which a name was read.                                     *)
Inside(kind, held, name, outer) == [kind |-> kind, held |-> held, name |-> name, outer |-> outer]
Root == Inside("root", << >>, << >>, << >>)
Reading(in, mode, part, code) == [in |-> in, mode |-> mode, part |-> part, code |-> code]
Expecting(in, mode) == Reading(in, mode, << >>, << >>)
Malformed == Expecting(Root, "malformed")

Delivered(in, value) ==
  Expecting(IF in.kind = "member"
            THEN Inside("object", in.held \union {<<in.name, value>>}, << >>, in.outer)
            ELSE Inside(in.kind, Append(in.held, value), << >>, in.outer),
            "after")

(* A number ends where something else follows.                             *)
NumberChars == Figure \union {Plus, Minus, Point, Exponent}
Settled(s) == IF s.mode = "number" THEN Delivered(s.in, NumberOf(s.part)) ELSE s

Begin(in, c) ==
  CASE c = Quote -> Expecting(in, "string")
    [] c = OpenArray -> Expecting(Inside("array", << >>, << >>, in), "first")
    [] c = OpenObject -> Expecting(Inside("object", {}, << >>, in), "first")
    [] c \in Figure \union {Minus} -> Reading(in, "number", <<c>>, << >>)
    [] c = Literals.null -> Delivered(in, Null)
    [] c = Literals.true -> Delivered(in, Bool(TRUE))
    [] c = Literals.false -> Delivered(in, Bool(FALSE))
    [] OTHER -> Malformed
BeginName(in, c) == IF c = Quote THEN Expecting(in, "string") ELSE Malformed

EndString(in, chars) ==
  IF in.kind = "object"
  THEN Expecting(Inside("member", in.held, chars, in.outer), "colon")
  ELSE Delivered(in, String(chars))
InString(s, c) ==
  IF c = Quote THEN EndString(s.in, s.part)
  ELSE IF c = Backslash THEN Reading(s.in, "escape", s.part, << >>)
  ELSE IF c < 32 THEN Malformed
  ELSE Reading(s.in, "string", Append(s.part, c), << >>)
InEscape(s, c) ==
  IF c = LetterU THEN Reading(s.in, "code", s.part, << >>)
  ELSE IF \E e \in DOMAIN ShortEscapes : ShortEscapes[e] = c
  THEN Reading(s.in, "string",
               Append(s.part, CHOOSE e \in DOMAIN ShortEscapes : ShortEscapes[e] = c), << >>)
  ELSE Malformed

HexValue(c) == IF c < 58 THEN c - Zero ELSE c - 87
InCode(s, c) ==
  IF Len(s.code) < 3 THEN Reading(s.in, "code", s.part, Append(s.code, c))
  ELSE Reading(s.in, "string",
               Append(s.part, 4096 * HexValue(s.code[1]) + 256 * HexValue(s.code[2])
                                + 16 * HexValue(s.code[3]) + HexValue(c)), << >>)

Closes(in, c) ==
  (in.kind = "array" /\ c = CloseArray) \/ (in.kind = "object" /\ c = CloseObject)
Close(in) == Delivered(in.outer, <<in.kind, in.held>>)
Parted(in, c) == IF c = Comma /\ in.kind # "root" THEN Expecting(in, "value") ELSE Malformed

Read1(s, c) ==
  CASE s.mode = "string" -> InString(s, c)
    [] s.mode = "escape" -> InEscape(s, c)
    [] s.mode = "code" -> InCode(s, c)
    [] s.mode = "number" -> Reading(s.in, "number", Append(s.part, c), << >>)
    [] s.mode = "colon" -> IF c = Colon THEN Expecting(s.in, "value") ELSE Malformed
    [] s.mode = "after" -> IF Closes(s.in, c) THEN Close(s.in) ELSE Parted(s.in, c)
    [] s.mode = "first" /\ Closes(s.in, c) -> Close(s.in)
    [] s.mode = "value" \/ (s.mode = "first" /\ ~Closes(s.in, c)) ->
         IF s.in.kind = "object" THEN BeginName(s.in, c) ELSE Begin(s.in, c)
    [] OTHER -> Malformed
Advanced(s, c) ==
  IF s.mode = "number" /\ c \notin NumberChars THEN Read1(Settled(s), c) ELSE Read1(s, c)

Run(s, text) ==
  LET upTo[n \in 0 .. Len(text)] == IF n = 0 THEN s ELSE Advanced(upTo[n - 1], text[n])
  IN  upTo[Len(text)]

Read(text) ==
  LET end == Settled(Run(Expecting(Root, "value"), text))
  IN  IF end.mode = "after" /\ end.in.kind = "root" THEN end.in.held[1] ELSE <<"malformed">>

(* What a reader of JSON must get from the text of a value.                *)
ScalarMeaning(v) ==
  CASE v[1] = "integer" -> NumberOf(Signed(v[2]))
    [] v[1] = "double" -> IF v[2].digits = << >> THEN <<"number", FALSE, << >>, 0>>
                          ELSE <<"number", v[2].negative, v[2].digits, v[2].power>>
    [] OTHER -> v
Meaning[v \in Value] ==
  CASE v[1] = "array" -> Array([i \in 1 .. Len(v[2]) |-> Meaning[v[2][i]]])
    [] v[1] = "object" ->
         <<"object", {<<v[2][i][1], Meaning[v[2][i][2]]>> : i \in 1 .. Len(v[2])}>>
    [] OTHER -> ScalarMeaning(v)

(* The same value with the members of each object the other way round.     *)
Turned[v \in Value] ==
  CASE v[1] = "array" -> Array([i \in 1 .. Len(v[2]) |-> Turned[v[2][i]]])
    [] v[1] = "object" ->
         LET from(i) == v[2][Len(v[2]) + 1 - i]
         IN  Object([i \in 1 .. Len(v[2]) |-> <<from(i)[1], Turned[from(i)[2]]>>])
    [] OTHER -> v

(* RFC 8785 without UTF-16: a character beyond the basic plane is ordered  *)
(* like the surrogates it is written with, below those from E000 on.       *)
Rank(c) == IF c >= 65536 THEN c - 65536 ELSE IF c < 55296 THEN c - 2000000 ELSE c + 2000000
Ranks(text) == [k \in 1 .. Len(text) |-> Rank(text[k])]
MembersInOrder[v \in Value] ==
  CASE v[1] = "array" -> \A i \in 1 .. Len(v[2]) : MembersInOrder[v[2][i]]
    [] v[1] = "object" ->
         LET members == Ordered(v[2])
         IN  \A i \in 1 .. Len(members) :
               /\ i > 1 => Precedes(Ranks(members[i - 1][1]), Ranks(members[i][1]))
               /\ MembersInOrder[members[i][2]]
    [] OTHER -> TRUE
=============================================================================
