------------------------------ MODULE MCManifest ------------------------------
(***************************************************************************)
(* Manifest with a largest exact integer of 4, so that 5 is the first one  *)
(* a double rounds; with all external ids of one or two characters out of  *)
(* a letter, the two that must be escaped and two control characters; and  *)
(* with samples of every layout of a double, nested values, and member     *)
(* names on both sides of the surrogates.                                  *)
(***************************************************************************)
EXTENDS Manifest

Chars == {97, Quote, Backslash, 10, 31}
Short == [1 .. 1 -> Chars]
Texts == Short \union [1 .. 2 -> Chars]
SmallIds ==
  [namespace: Short \union {<< >>}, value: Texts \union {<< >>}, version: Short \union {<< >>}]

SomeDigits == {<<49>>, <<49, 50>>, <<57, 48, 49>>}
SomeDoubles ==
  {Double(negative, digits, power) : negative \in BOOLEAN, digits \in SomeDigits, power \in -8 .. 23}
    \union {Double(negative, << >>, 0) : negative \in BOOLEAN}

Alphabetical ==
  <<"axes", "band", "data_object", "data_objects", "derived_from", "entity", "extent",
    "generated", "id", "kind", "metadata", "namespace", "observation", "observations",
    "polarization", "process", "process_record", "process_records", "produces", "product",
    "products", "provenance_relations", "relationships", "source", "target", "time", "used",
    "value", "version", "x", "y">>
MCCharOf == [word \in Vocabulary |-> 1000 + CHOOSE i \in DOMAIN Alphabetical : Alphabetical[i] = word]

Names == {<<97>>, <<97, 97>>, <<55295>>, <<57344>>, <<65535>>, <<65536>>, <<1114111>>}
Objects ==
  {Object(<<<<a, Integer(1)>>, <<b, Bool(TRUE)>>, <<c, Bool(FALSE)>>>>) :
     <<a, b, c>> \in {t \in Names \X Names \X Names : t[1] # t[2] /\ t[1] # t[3] /\ t[2] # t[3]}}

Nested ==
  {Null, Array(<< >>), Object(<< >>), NonFinite, Array(<<Null, NonFinite>>),
   Array(<<Integer(-12), Object(<<<<<<98>>, Array(<<Null, Bool(TRUE)>>)>>, <<<<Quote>>, Null>>>>),
           Double(TRUE, <<55>>, -1)>>)}

SmallSamples == SomeDoubles \union Objects \union Nested
=============================================================================
