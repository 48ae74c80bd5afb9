---------------------------- MODULE SceneProofs -----------------------------
(***************************************************************************)
(* Proofs about Scene, Jcs and Manifest.                                   *)
(*                                                                         *)
(* Of a scene: its fields stay in range, the ids of every family no serde  *)
(* round trip touched stay exact, and links stay coherent. Exactness is    *)
(* inductive together with the agreement of counter and Vec, which is what *)
(* a serde round trip breaks; coherence of links rests on the Vecs only    *)
(* ever growing while there are links.                                     *)
(*                                                                         *)
(* Of canonical JSON: every value without a number that is not finite is   *)
(* read back from its text, and has one text, its members in order. Both   *)
(* go by induction over the depth of values, from lemmas on what the       *)
(* reader makes of the text of each kind of scalar, of an array and of an  *)
(* object.                                                                 *)
(*                                                                         *)
(* Of a manifest: its text is of the scene as it is, and what a reader     *)
(* makes of it is the graph of the scene.                                  *)
(***************************************************************************)
EXTENDS Manifest, TLAPS, WellFoundedInduction, SequenceTheorems, FiniteSetTheorems,
        FunctionTheorems


(* No counter exceeds what was added; a family's counter is the length of  *)
(* its Vec unless the family was dropped.                                  *)
Counted ==
  \A f \in Families :
    next[f] <= added /\ (f \notin dropped => next[f] = Len(stored[f]))

Inv == TypeOK /\ Counted /\ KeptIdsExact

------------------------------------------------------------------------------
(* Lemmas on sequences.                                                    *)

(* What Append adds to the positions of a sequence. *)
LEMMA AppendPositions ==
  ASSUME NEW S, NEW s \in Seq(S), NEW e \in S
  PROVE  Positions(Append(s, e)) = Positions(s) \union {<<Len(s), e>>}
<1> DEFINE t == Append(s, e)
<1>1. DOMAIN t = DOMAIN s \union {Len(s) + 1} /\ Len(s) \in Nat
  BY DEF t
<1>2. \A i \in DOMAIN s : t[i] = s[i]
  BY DEF t
<1>3. t[Len(s) + 1] = e /\ (Len(s) + 1) - 1 = Len(s)
  BY DEF t
<1> HIDE DEF t
<1>4. Positions(t) = {<<i - 1, s[i]>> : i \in DOMAIN s} \union {<<Len(s), e>>}
  BY <1>1, <1>2, <1>3 DEF Positions
<1> QED BY <1>4 DEF Positions, t

(* The positions of a sequence are below its length. *)
LEMMA PositionsBounded ==
  ASSUME NEW S, NEW s \in Seq(S), NEW n \in Nat, Len(s) <= n
  PROVE  Positions(s) \subseteq (0 .. n) \X S
BY DEF Positions

(* An element that is not listed may be appended without a duplicate. *)
LEMMA NoNewDuplicate ==
  ASSUME NEW S, NEW list \in Seq(S), NEW link \in S,
         ~Duplicate(list), ~Listed(link, list)
  PROVE  ~Duplicate(Append(list, link))
<1> DEFINE t == Append(list, link)
<1>1. DOMAIN t = DOMAIN list \union {Len(list) + 1} /\ Len(list) + 1 \notin DOMAIN list
  OBVIOUS
<1>2. \A i \in DOMAIN list : t[i] = list[i]
  OBVIOUS
<1>3. t[Len(list) + 1] = link
  OBVIOUS
<1> HIDE DEF t
<1>4. ~Duplicate(t)
  BY <1>1, <1>2, <1>3 DEF Duplicate, Listed
<1> QED BY <1>4 DEF t

------------------------------------------------------------------------------
(* The invariant.                                                          *)

(* An empty scene satisfies the invariant. *)
LEMMA InitInv == Init => Inv
<1> SUFFICES ASSUME Init PROVE Inv
  OBVIOUS
<1>1. \A f \in Families : stored[f] = << >> /\ next[f] = 0 /\ given[f] = {}
  BY DEF Init, Empty
<1>2. Positions(<< >>) = {}
  BY DEF Positions
<1>3. TypeOK
  BY <1>1, SceneAssumption DEF Init, TypeOK, Empty
<1>4. Counted
  BY <1>1 DEF Counted, Init
<1>5. KeptIdsExact
  BY <1>1, <1>2 DEF KeptIdsExact, IdsExact
<1> QED BY <1>3, <1>4, <1>5 DEF Inv

(* Adding an entity gives out the id it is found at. *)
LEMMA AddInv ==
  ASSUME Inv, NEW f \in Families, NEW storable \in BOOLEAN, Add(f, storable)
  PROVE  Inv'
<1> DEFINE e == [serial |-> added, storable |-> storable]
<1> USE DEF Add
<1>1. /\ added \in Nat /\ added < MaxAdded /\ added' = added + 1 /\ MaxAdded \in Nat
  BY SceneAssumption DEF Inv, TypeOK
<1>2. /\ stored \in [Families -> Seq(Entity)] /\ next \in [Families -> 0 .. MaxAdded]
      /\ given \in [Families -> SUBSET (Ids \X Entity)]
      /\ \A g \in Families : Len(stored[g]) <= next[g] /\ next[g] <= added
  BY DEF Inv, TypeOK, Counted
<1>3. e \in Entity
  BY <1>1 DEF Entity
<1>4. /\ stored' = [stored EXCEPT ![f] = Append(@, e)]
      /\ next' = [next EXCEPT ![f] = @ + 1]
      /\ given' = [given EXCEPT ![f] = @ \union {<<next[f], e>>}]
      /\ dropped' = dropped /\ saved' = "none"
      /\ UNCHANGED <<external_ids, relationships, provenance_relations>>
  OBVIOUS
<1> HIDE DEF e, Add
<1>5. /\ stored'[f] = Append(stored[f], e) /\ next'[f] = next[f] + 1
      /\ given'[f] = given[f] \union {<<next[f], e>>}
      /\ \A g \in Families \ {f} :
           stored'[g] = stored[g] /\ next'[g] = next[g] /\ given'[g] = given[g]
  BY <1>2, <1>4
<1>6. stored[f] \in Seq(Entity) /\ next[f] \in 0 .. MaxAdded /\ Len(stored[f]) \in Nat
  BY <1>2
<1>7. Append(stored[f], e) \in Seq(Entity) /\ Len(Append(stored[f], e)) = Len(stored[f]) + 1
  BY <1>3, <1>6
<1>8. TypeOK'
  <2>1. stored' \in [Families -> Seq(Entity)]
    BY <1>2, <1>4, <1>7
  <2>2. next[f] + 1 \in 0 .. MaxAdded
    BY <1>1, <1>2, <1>6
  <2>3. next' \in [Families -> 0 .. MaxAdded]
    BY <1>2, <1>4, <2>2
  <2>4. next[f] \in Ids
    BY <1>6 DEF Ids
  <2>5. given' \in [Families -> SUBSET (Ids \X Entity)]
    BY <1>2, <1>4, <1>3, <2>4
  <2>6. \A g \in Families : Len(stored'[g]) <= next'[g]
    <3> SUFFICES ASSUME NEW g \in Families PROVE Len(stored'[g]) <= next'[g]
      OBVIOUS
    <3>1. CASE g = f
      BY <3>1, <1>2, <1>5, <1>6, <1>7
    <3>2. CASE g # f
      BY <3>2, <1>2, <1>5
    <3> QED BY <3>1, <3>2
  <2>7. added' \in 0 .. MaxAdded
    BY <1>1
  <2> QED BY <2>1, <2>3, <2>5, <2>6, <2>7, <1>4 DEF Inv, TypeOK, Ids
<1>9. Counted'
  <2> SUFFICES ASSUME NEW g \in Families
               PROVE  /\ next'[g] <= added'
                      /\ g \notin dropped' => next'[g] = Len(stored'[g])
    BY DEF Counted
  <2>1. CASE g = f
    BY <2>1, <1>1, <1>2, <1>4, <1>5, <1>6, <1>7 DEF Inv, Counted
  <2>2. next[g] \in Nat
    BY <1>2
  <2>3. CASE g # f
    BY <2>2, <2>3, <1>1, <1>2, <1>4, <1>5 DEF Inv, Counted
  <2> QED BY <2>1, <2>3
<1>10. KeptIdsExact'
  <2> SUFFICES ASSUME NEW g \in Families, g \notin dropped
               PROVE  Positions(stored'[g]) = given'[g]
    BY <1>4 DEF KeptIdsExact, IdsExact
  <2>1. Positions(stored[g]) = given[g]
    BY DEF Inv, KeptIdsExact, IdsExact
  <2>2. CASE g = f
    <3>1. next[f] = Len(stored[f])
      BY <2>2 DEF Inv, Counted
    <3>2. Positions(Append(stored[f], e)) = Positions(stored[f]) \union {<<Len(stored[f]), e>>}
      BY <1>3, <1>6, AppendPositions
    <3> QED BY <2>1, <2>2, <3>1, <3>2, <1>5
  <2>3. CASE g # f
    BY <2>1, <2>3, <1>5
  <2> QED BY <2>2, <2>3
<1> QED BY <1>8, <1>9, <1>10 DEF Inv

(* A new link leaves the entities alone. *)
LEMMA LinkInv ==
  ASSUME Inv, UNCHANGED <<stored, next, added, given, dropped>>, saved' = "none",
         external_ids' \in Seq(Attached), relationships' \in Seq(Relationship),
         provenance_relations' \in Seq(ProvenanceRelation)
  PROVE  Inv'
<1>1. TypeOK'
  BY DEF Inv, TypeOK
<1>2. Counted' /\ KeptIdsExact'
  BY DEF Inv, Counted, KeptIdsExact, IdsExact
<1> QED BY <1>1, <1>2 DEF Inv

(* The three calls that add a link add one of the right type. *)
LEMMA LinkSteps ==
  ASSUME Inv
  PROVE  /\ \A image \in Ids, namespace \in Namespaces :
              AttachExternalId(image, namespace) => Inv'
         /\ \A source, target \in Ref, kind \in {"produces", "derived_from"} :
              AddRelationship(source, kind, target) => Inv'
         /\ \A process \in Ids, entity \in Ref, kind \in {"used", "generated"} :
              AddProvenance(process, kind, entity) => Inv'
<1>1. /\ external_ids \in Seq(Attached) /\ relationships \in Seq(Relationship)
      /\ provenance_relations \in Seq(ProvenanceRelation)
  BY DEF Inv, TypeOK
<1>2. ASSUME NEW image \in Ids, NEW namespace \in Namespaces,
             AttachExternalId(image, namespace)
      PROVE  Inv'
  <2>1. <<image, namespace>> \in Attached
    BY DEF Attached
  <2>2. external_ids' \in Seq(Attached)
    BY <1>1, <1>2, <2>1 DEF AttachExternalId
  <2> QED BY <1>1, <1>2, <2>2, LinkInv DEF AttachExternalId
<1>3. ASSUME NEW source \in Ref, NEW target \in Ref, NEW kind \in {"produces", "derived_from"},
             AddRelationship(source, kind, target)
      PROVE  Inv'
  <2>1. [source |-> source, kind |-> kind, target |-> target] \in Relationship
    BY DEF Relationship
  <2>2. relationships' \in Seq(Relationship)
    BY <1>1, <1>3, <2>1 DEF AddRelationship
  <2> QED BY <1>1, <1>3, <2>2, LinkInv DEF AddRelationship
<1>4. ASSUME NEW process \in Ids, NEW entity \in Ref, NEW kind \in {"used", "generated"},
             AddProvenance(process, kind, entity)
      PROVE  Inv'
  <2>1. [process |-> process, kind |-> kind, entity |-> entity] \in ProvenanceRelation
    BY DEF ProvenanceRelation
  <2>2. provenance_relations' \in Seq(ProvenanceRelation)
    BY <1>1, <1>4, <2>1 DEF AddProvenance
  <2> QED BY <1>1, <1>4, <2>2, LinkInv DEF AddProvenance
<1> QED BY <1>2, <1>3, <1>4

(* A scene that lost its links has well-typed ones. *)
LEMMA NoLinksTyped ==
  ASSUME NoLinks
  PROVE  /\ external_ids' \in Seq(Attached) /\ relationships' \in Seq(Relationship)
         /\ provenance_relations' \in Seq(ProvenanceRelation)
BY DEF NoLinks

(* A serde round trip leaves images and counters in step. *)
LEMMA SerdeInv == Inv /\ SerdeRoundTrip => Inv'
<1> SUFFICES ASSUME Inv, SerdeRoundTrip PROVE Inv'
  OBVIOUS
<1>1. /\ stored \in [Families -> Seq(Entity)] /\ next \in [Families -> 0 .. MaxAdded]
      /\ given \in [Families -> SUBSET (Ids \X Entity)]
      /\ added \in 0 .. MaxAdded /\ dropped \subseteq Families \ {"image"}
  BY DEF Inv, TypeOK
<1>2. "image" \in Families
  BY DEF Families, InModel
<1>3. /\ stored' = [Empty EXCEPT !["image"] = stored["image"]]
      /\ next' = next /\ added' = added /\ saved' = "none" /\ NoLinks
      /\ given' = [f \in Families |-> IF f = "image" THEN given[f] ELSE {}]
      /\ dropped' = dropped \union {f \in Families \ {"image"} : next[f] > 0}
  BY DEF SerdeRoundTrip, SerdeLinks
<1>4. stored' = [f \in Families |-> IF f = "image" THEN stored[f] ELSE << >>]
  BY <1>2, <1>3 DEF Empty
<1>5. \A f \in Families :
        /\ stored'[f] = IF f = "image" THEN stored[f] ELSE << >>
        /\ given'[f] = IF f = "image" THEN given[f] ELSE {}
  BY <1>3, <1>4
<1>6. \A f \in Families :
        /\ next[f] \in Nat /\ next[f] <= added /\ Len(stored[f]) <= next[f]
        /\ f \notin dropped => next[f] = Len(stored[f]) /\ Positions(stored[f]) = given[f]
  BY <1>1 DEF Inv, TypeOK, Counted, KeptIdsExact, IdsExact
<1>7. TypeOK'
  <2>1. stored' \in [Families -> Seq(Entity)]
    BY <1>1, <1>4
  <2>2. given' \in [Families -> SUBSET (Ids \X Entity)]
    BY <1>1, <1>3
  <2>3. \A f \in Families : Len(stored'[f]) <= next'[f]
    BY <1>3, <1>5, <1>6
  <2>4. dropped' \subseteq Families \ {"image"}
    BY <1>1, <1>3
  <2> QED BY <1>1, <1>3, <2>1, <2>2, <2>3, <2>4, NoLinksTyped DEF TypeOK, Ids
<1>8. Counted'
  BY <1>3, <1>5, <1>6 DEF Counted
<1>9. KeptIdsExact'
  <2>1. Positions(<< >>) = {}
    BY DEF Positions
  <2> QED BY <1>1, <1>3, <1>5, <1>6, <2>1 DEF KeptIdsExact, IdsExact
<1> QED BY <1>7, <1>8, <1>9 DEF Inv

(* Loading from the storage model starts every counter at its Vec's length.*)
LEMMA StorageInv == Inv /\ StorageRoundTrip => Inv'
<1> SUFFICES ASSUME Inv, StorageRoundTrip PROVE Inv'
  OBVIOUS
<1>1. /\ stored \in [Families -> Seq(Entity)] /\ next \in [Families -> 0 .. MaxAdded]
      /\ given \in [Families -> SUBSET (Ids \X Entity)]
      /\ added \in 0 .. MaxAdded /\ MaxAdded \in Nat
  BY SceneAssumption DEF Inv, TypeOK
<1>2. /\ stored' = [f \in Families |-> IF f \in InModel THEN stored[f] ELSE << >>]
      /\ next' = CountersOf(stored') /\ added' = added /\ saved' = "none" /\ NoLinks
      /\ given' = [f \in Families |->
                     IF f \notin InModel THEN {}
                     ELSE IF f \in dropped THEN Positions(stored'[f])
                     ELSE given[f]]
      /\ dropped' = {}
  BY DEF StorageRoundTrip
<1>3. \A f \in Families :
        /\ stored'[f] = IF f \in InModel THEN stored[f] ELSE << >>
        /\ next'[f] = Len(stored'[f])
        /\ given'[f] = IF f \notin InModel THEN {}
                       ELSE IF f \in dropped THEN Positions(stored'[f])
                       ELSE given[f]
  BY <1>2 DEF CountersOf
<1>4. \A f \in Families :
        /\ stored[f] \in Seq(Entity) /\ Len(stored[f]) \in Nat
        /\ next[f] \in Nat /\ next[f] <= added /\ Len(stored[f]) <= next[f]
        /\ f \notin dropped => Positions(stored[f]) = given[f]
  BY <1>1 DEF Inv, TypeOK, Counted, KeptIdsExact, IdsExact
<1>5. \A f \in Families : stored'[f] \in Seq(Entity) /\ Len(stored'[f]) <= added
  <2> SUFFICES ASSUME NEW f \in Families
               PROVE  stored'[f] \in Seq(Entity) /\ Len(stored'[f]) <= added
    OBVIOUS
  <2>1. CASE f \in InModel
    <3>1. stored'[f] = stored[f]
      BY <2>1, <1>3
    <3>2. added \in Nat
      BY <1>1
    <3> QED BY <3>1, <3>2, <1>4
  <2>2. CASE f \notin InModel
    <3>1. stored'[f] = << >>
      BY <2>2, <1>3
    <3>2. added \in Nat
      BY <1>1
    <3> QED BY <3>1, <3>2
  <2> QED BY <2>1, <2>2
<1>6. \A f \in Families : Positions(stored'[f]) = given'[f]
  <2>1. Positions(<< >>) = {}
    BY DEF Positions
  <2> QED BY <1>3, <1>4, <2>1
<1>7. TypeOK'
  <2>1. stored' \in [Families -> Seq(Entity)]
    BY <1>2, <1>5
  <2>2. \A f \in Families : given'[f] \in SUBSET (Ids \X Entity)
    <3> SUFFICES ASSUME NEW f \in Families PROVE Positions(stored'[f]) \subseteq Ids \X Entity
      BY <1>6
    <3>1. stored'[f] \in Seq(Entity) /\ Len(stored'[f]) <= MaxAdded
      BY <1>1, <1>5
    <3>2. PICK s \in {stored'[f]} : s = stored'[f]
      OBVIOUS
    <3>3. Positions(s) \subseteq (0 .. MaxAdded) \X Entity
      BY <1>1, <3>1, <3>2, PositionsBounded
    <3> QED BY <3>2, <3>3 DEF Ids
  <2>3. given' \in [Families -> SUBSET (Ids \X Entity)]
    BY <1>2, <2>2
  <2>4. \A f \in Families : next'[f] \in 0 .. MaxAdded
    BY <1>1, <1>3, <1>5
  <2>5. next' \in [Families -> 0 .. MaxAdded]
    BY <1>2, <2>4 DEF CountersOf
  <2>6. \A f \in Families : Len(stored'[f]) <= next'[f]
    BY <1>3, <1>4
  <2> QED BY <1>1, <1>2, <2>1, <2>3, <2>5, <2>6, NoLinksTyped DEF TypeOK, Ids
<1>8. Counted'
  BY <1>2, <1>3, <1>5 DEF Counted
<1>9. KeptIdsExact'
  BY <1>6 DEF KeptIdsExact, IdsExact
<1> QED BY <1>7, <1>8, <1>9 DEF Inv

(* A TIFF write keeps the images in step, and a refusal changes nothing.   *)
LEMMA ToBytesInv == Inv /\ ToBytes => Inv'
<1> SUFFICES ASSUME Inv, ToBytes PROVE Inv'
  OBVIOUS
<1>1. /\ stored \in [Families -> Seq(Entity)] /\ next \in [Families -> 0 .. MaxAdded]
      /\ given \in [Families -> SUBSET (Ids \X Entity)]
      /\ added \in 0 .. MaxAdded /\ MaxAdded \in Nat
      /\ dropped \subseteq Families \ {"image"}
  BY SceneAssumption DEF Inv, TypeOK
<1>2. "image" \in Families
  BY DEF Families, InModel
<1>3. CASE saved' = "refused" /\ UNCHANGED <<content, added, given, dropped>>
  <2>1. TypeOK'
    BY <1>3 DEF Inv, TypeOK, content
  <2> QED BY <1>3, <2>1 DEF Inv, Counted, KeptIdsExact, IdsExact, content
<1>4. CASE /\ stored' = [Empty EXCEPT !["image"] = stored["image"]]
           /\ next' = CountersOf(stored') /\ NoLinks
           /\ given' = [f \in Families |-> IF f = "image" THEN given[f] ELSE {}]
           /\ dropped' = {} /\ saved' = "ok" /\ added' = added
  <2>1. stored' = [f \in Families |-> IF f = "image" THEN stored[f] ELSE << >>]
    BY <1>2, <1>4 DEF Empty
  <2>2. \A f \in Families :
          /\ stored'[f] = IF f = "image" THEN stored[f] ELSE << >>
          /\ next'[f] = Len(stored'[f])
          /\ given'[f] = IF f = "image" THEN given[f] ELSE {}
    BY <1>4, <2>1 DEF CountersOf
  <2>3. /\ stored["image"] \in Seq(Entity) /\ Len(stored["image"]) \in Nat
        /\ next["image"] \in Nat /\ next["image"] <= added
        /\ Len(stored["image"]) <= next["image"]
        /\ Positions(stored["image"]) = given["image"]
    BY <1>1, <1>2 DEF Inv, TypeOK, Counted, KeptIdsExact, IdsExact
  <2>4. \A f \in Families : Len(stored'[f]) \in Nat /\ Len(stored'[f]) <= added
    <3> SUFFICES ASSUME NEW f \in Families
                 PROVE  Len(stored'[f]) \in Nat /\ Len(stored'[f]) <= added
      OBVIOUS
    <3>1. CASE f = "image"
      <4>1. added \in Nat
        BY <1>1
      <4> QED BY <3>1, <4>1, <2>2, <2>3
    <3>2. CASE f # "image"
      BY <3>2, <1>1, <2>2
    <3> QED BY <3>1, <3>2
  <2>5. TypeOK'
    <3>1. stored' \in [Families -> Seq(Entity)]
      BY <1>1, <2>1
    <3>2. given' \in [Families -> SUBSET (Ids \X Entity)]
      BY <1>1, <1>4
    <3>3. \A f \in Families : next'[f] \in 0 .. MaxAdded
      BY <1>1, <2>2, <2>4
    <3>4. next' \in [Families -> 0 .. MaxAdded]
      BY <1>4, <3>3 DEF CountersOf
    <3>5. \A f \in Families : Len(stored'[f]) <= next'[f]
      BY <2>2, <2>4
    <3> QED BY <1>1, <1>4, <3>1, <3>2, <3>4, <3>5, NoLinksTyped DEF TypeOK, Ids
  <2>6. Counted'
    BY <1>4, <2>2, <2>4 DEF Counted
  <2>7. KeptIdsExact'
    <3>1. Positions(<< >>) = {}
      BY DEF Positions
    <3> QED BY <1>4, <2>2, <2>3, <3>1 DEF KeptIdsExact, IdsExact
  <2> QED BY <2>5, <2>6, <2>7 DEF Inv
<1> QED BY <1>3, <1>4 DEF ToBytes

(* Every step preserves the invariant. *)
LEMMA StepInv == Inv /\ [Next]_vars => Inv'
<1> SUFFICES ASSUME Inv, [Next]_vars PROVE Inv'
  OBVIOUS
<1>1. "image" \in Families
  BY DEF Families, InModel
<1>2. CASE AddImage
  BY <1>1, <1>2, AddInv DEF AddImage
<1>3. CASE AddOther
  BY <1>3, AddInv DEF AddOther
<1>4. CASE \E image \in Ids, namespace \in Namespaces : AttachExternalId(image, namespace)
  BY <1>4, LinkSteps
<1>5. CASE \E source, target \in Ref, kind \in {"produces", "derived_from"} :
             AddRelationship(source, kind, target)
  BY <1>5, LinkSteps
<1>6. CASE \E process \in Ids, entity \in Ref, kind \in {"used", "generated"} :
             AddProvenance(process, kind, entity)
  BY <1>6, LinkSteps
<1>7. CASE SerdeRoundTrip
  BY <1>7, SerdeInv
<1>8. CASE StorageRoundTrip
  BY <1>8, StorageInv
<1>9. CASE ToBytes
  BY <1>9, ToBytesInv
<1>10. CASE UNCHANGED vars
  <2>1. TypeOK'
    BY <1>10 DEF Inv, TypeOK, vars, content
  <2> QED BY <1>10, <2>1 DEF Inv, Counted, KeptIdsExact, IdsExact, vars, content
<1> QED BY <1>2, <1>3, <1>4, <1>5, <1>6, <1>7, <1>8, <1>9, <1>10 DEF Next

(* The fields of a scene stay in range, and no counter runs behind its     *)
(* Vec, whatever is called, saved and loaded.                              *)
THEOREM TypeCorrect == Spec => []TypeOK
<1>1. Inv => TypeOK
  BY DEF Inv
<1> QED BY InitInv, StepInv, <1>1, PTL DEF Spec

(* The ids of a family no serde round trip skipped are exact: the one      *)
(* add_... returned finds the entity it was returned for.                  *)
THEOREM IdsHold == Spec => []KeptIdsExact
<1>1. Inv => KeptIdsExact
  BY DEF Inv
<1> QED BY InitInv, StepInv, <1>1, PTL DEF Spec

------------------------------------------------------------------------------
(* Links.                                                                  *)

(* A scene without links is coherent. *)
LEMMA NoLinksCoherent ==
  ASSUME NoLinks PROVE LinksCoherent'
BY DEF NoLinks, LinksCoherent, Duplicate

(* What was valid stays valid while no Vec shrinks. *)
LEMMA GrowingCoherent ==
  ASSUME TypeOK, LinksCoherent,
         UNCHANGED <<external_ids, relationships, provenance_relations>>,
         \A f \in Families : /\ Len(stored[f]) \in Nat /\ Len(stored'[f]) \in Nat
                             /\ Len(stored[f]) <= Len(stored'[f])
  PROVE  LinksCoherent'
<1>1. \A f \in Families : \A id \in Ids : id < Len(stored[f]) => id < Len(stored'[f])
  BY SceneAssumption DEF Ids
<1>2. /\ external_ids \in Seq(Attached) /\ relationships \in Seq(Relationship)
      /\ provenance_relations \in Seq(ProvenanceRelation)
  BY DEF TypeOK
<1>3. "image" \in Families /\ "process_record" \in Families /\ Semantic \subseteq Families
  BY DEF Families, InModel
<1>4. \A i \in DOMAIN external_ids : external_ids[i][1] < Len(stored'["image"])
  <2> SUFFICES ASSUME NEW i \in DOMAIN external_ids
               PROVE  external_ids[i][1] < Len(stored'["image"])
    OBVIOUS
  <2>1. external_ids[i] \in Attached
    BY <1>2
  <2>2. external_ids[i][1] \in Ids
    BY <2>1 DEF Attached
  <2>3. external_ids[i][1] < Len(stored["image"])
    BY DEF LinksCoherent, Valid
  <2> QED BY <1>1, <1>3, <2>2, <2>3
<1>5. \A i \in DOMAIN relationships :
        /\ relationships[i].source.id < Len(stored'[relationships[i].source.family])
        /\ relationships[i].target.id < Len(stored'[relationships[i].target.family])
  <2> SUFFICES ASSUME NEW i \in DOMAIN relationships
               PROVE  /\ relationships[i].source.id < Len(stored'[relationships[i].source.family])
                      /\ relationships[i].target.id < Len(stored'[relationships[i].target.family])
    OBVIOUS
  <2>1. relationships[i] \in Relationship
    BY <1>2
  <2>2. /\ relationships[i].source.id \in Ids /\ relationships[i].target.id \in Ids
        /\ relationships[i].source.family \in Families
        /\ relationships[i].target.family \in Families
    BY <1>3, <2>1 DEF Relationship, Ref
  <2>3. /\ relationships[i].source.id < Len(stored[relationships[i].source.family])
        /\ relationships[i].target.id < Len(stored[relationships[i].target.family])
    BY DEF LinksCoherent, Valid
  <2> QED BY <1>1, <2>2, <2>3
<1>6. \A i \in DOMAIN provenance_relations :
        /\ provenance_relations[i].process < Len(stored'["process_record"])
        /\ provenance_relations[i].entity.id < Len(stored'[provenance_relations[i].entity.family])
  <2> SUFFICES ASSUME NEW i \in DOMAIN provenance_relations
               PROVE  /\ provenance_relations[i].process < Len(stored'["process_record"])
                      /\ provenance_relations[i].entity.id
                           < Len(stored'[provenance_relations[i].entity.family])
    OBVIOUS
  <2>1. provenance_relations[i] \in ProvenanceRelation
    BY <1>2
  <2>2. /\ provenance_relations[i].process \in Ids
        /\ provenance_relations[i].entity.id \in Ids
        /\ provenance_relations[i].entity.family \in Families
    BY <1>3, <2>1 DEF ProvenanceRelation, Ref
  <2>3. /\ provenance_relations[i].process < Len(stored["process_record"])
        /\ provenance_relations[i].entity.id < Len(stored[provenance_relations[i].entity.family])
    BY DEF LinksCoherent, Valid
  <2> QED BY <1>1, <1>3, <2>2, <2>3
<1> QED BY <1>4, <1>5, <1>6 DEF LinksCoherent, Valid, Permits, Duplicate

(* Adding an entity shrinks no Vec. *)
LEMMA AddCoherent ==
  ASSUME TypeOK, LinksCoherent, NEW f \in Families, NEW storable \in BOOLEAN,
         Add(f, storable)
  PROVE  LinksCoherent'
<1> DEFINE e == [serial |-> added, storable |-> storable]
<1>1. /\ stored \in [Families -> Seq(Entity)]
      /\ stored' = [stored EXCEPT ![f] = Append(@, e)]
      /\ UNCHANGED <<external_ids, relationships, provenance_relations>>
  BY DEF TypeOK, Add
<1>2. e \in Entity
  BY SceneAssumption DEF TypeOK, Entity
<1> HIDE DEF e
<1>3. /\ stored[f] \in Seq(Entity) /\ stored'[f] = Append(stored[f], e)
      /\ \A g \in Families : g # f => stored'[g] = stored[g]
  BY <1>1
<1>4. Len(stored'[f]) = Len(stored[f]) + 1 /\ Len(stored[f]) \in Nat
  BY <1>2, <1>3
<1>5. \A g \in Families : Len(stored[g]) \in Nat
  BY <1>1
<1>6. \A g \in Families : /\ Len(stored[g]) \in Nat /\ Len(stored'[g]) \in Nat
                          /\ Len(stored[g]) <= Len(stored'[g])
  BY <1>3, <1>4, <1>5
<1> QED BY <1>1, <1>6, GrowingCoherent

(* An external id is attached to an image that exists, under a namespace   *)
(* the image has none of.                                                  *)
LEMMA AttachCoherent ==
  ASSUME TypeOK, LinksCoherent, NEW image \in Ids, NEW namespace \in Namespaces,
         AttachExternalId(image, namespace)
  PROVE  LinksCoherent'
<1> DEFINE link == <<image, namespace>>
<1>1. /\ external_ids \in Seq(Attached) /\ external_ids' = Append(external_ids, link)
      /\ UNCHANGED <<stored, relationships, provenance_relations>>
      /\ image < Len(stored["image"])
  BY DEF TypeOK, AttachExternalId, Valid
<1>2. link \in Attached /\ ~Listed(link, external_ids) /\ link[1] = image
  BY DEF Attached, AttachExternalId, Conflicts, Listed
<1> HIDE DEF link
<1>3. ~Duplicate(Append(external_ids, link))
  BY <1>1, <1>2, NoNewDuplicate DEF LinksCoherent
<1>4. ~Duplicate(external_ids')
  BY <1>1, <1>3
<1>5. \A i \in DOMAIN external_ids' :
        external_ids'[i] = link \/ (i \in DOMAIN external_ids /\ external_ids'[i] = external_ids[i])
  BY <1>1, <1>2
<1>6. \A i \in DOMAIN external_ids' : external_ids'[i][1] < Len(stored["image"])
  BY <1>1, <1>2, <1>5 DEF LinksCoherent, Valid
<1> QED BY <1>1, <1>4, <1>6 DEF LinksCoherent, Valid, Permits, Duplicate

(* A relationship is added between entities that exist, of kinds that      *)
(* permit it, and not twice.                                               *)
LEMMA RelateCoherent ==
  ASSUME TypeOK, LinksCoherent, NEW source \in Ref, NEW target \in Ref,
         NEW kind \in {"produces", "derived_from"}, AddRelationship(source, kind, target)
  PROVE  LinksCoherent'
<1> DEFINE link == [source |-> source, kind |-> kind, target |-> target]
<1>1. /\ relationships \in Seq(Relationship) /\ relationships' = Append(relationships, link)
      /\ UNCHANGED <<stored, external_ids, provenance_relations>>
      /\ source.id < Len(stored[source.family]) /\ target.id < Len(stored[target.family])
      /\ Permits(kind, source.family, target.family) /\ ~Listed(link, relationships)
  BY DEF TypeOK, AddRelationship, Valid
<1>2. /\ link \in Relationship
      /\ link.source = source /\ link.kind = kind /\ link.target = target
  BY DEF Relationship
<1> HIDE DEF link
<1>3. ~Duplicate(Append(relationships, link))
  BY <1>1, <1>2, NoNewDuplicate DEF LinksCoherent
<1>4. ~Duplicate(relationships')
  BY <1>1, <1>3
<1>5. \A i \in DOMAIN relationships' :
        \/ relationships'[i] = link
        \/ i \in DOMAIN relationships /\ relationships'[i] = relationships[i]
  BY <1>1, <1>2
<1>6. \A i \in DOMAIN relationships' :
        LET r == relationships'[i]
        IN  /\ r.source.id < Len(stored[r.source.family])
            /\ r.target.id < Len(stored[r.target.family])
            /\ Permits(r.kind, r.source.family, r.target.family)
  BY <1>1, <1>2, <1>5 DEF LinksCoherent, Valid
<1> QED BY <1>1, <1>4, <1>6 DEF LinksCoherent, Valid, Permits, Duplicate

(* A provenance relation is added between a process and an entity that     *)
(* exist, and not twice.                                                   *)
LEMMA ProvenanceCoherent ==
  ASSUME TypeOK, LinksCoherent, NEW process \in Ids, NEW entity \in Ref,
         NEW kind \in {"used", "generated"}, AddProvenance(process, kind, entity)
  PROVE  LinksCoherent'
<1> DEFINE link == [process |-> process, kind |-> kind, entity |-> entity]
<1>1. /\ provenance_relations \in Seq(ProvenanceRelation)
      /\ provenance_relations' = Append(provenance_relations, link)
      /\ UNCHANGED <<stored, external_ids, relationships>>
      /\ process < Len(stored["process_record"]) /\ entity.id < Len(stored[entity.family])
      /\ ~Listed(link, provenance_relations)
  BY DEF TypeOK, AddProvenance, Valid
<1>2. /\ link \in ProvenanceRelation
      /\ link.process = process /\ link.entity = entity
  BY DEF ProvenanceRelation
<1> HIDE DEF link
<1>3. ~Duplicate(Append(provenance_relations, link))
  BY <1>1, <1>2, NoNewDuplicate DEF LinksCoherent
<1>4. ~Duplicate(provenance_relations')
  BY <1>1, <1>3
<1>5. \A i \in DOMAIN provenance_relations' :
        \/ provenance_relations'[i] = link
        \/ i \in DOMAIN provenance_relations
           /\ provenance_relations'[i] = provenance_relations[i]
  BY <1>1, <1>2
<1>6. \A i \in DOMAIN provenance_relations' :
        LET r == provenance_relations'[i]
        IN  /\ r.process < Len(stored["process_record"])
            /\ r.entity.id < Len(stored[r.entity.family])
  BY <1>1, <1>2, <1>5 DEF LinksCoherent, Valid
<1> QED BY <1>1, <1>4, <1>6 DEF LinksCoherent, Valid, Permits, Duplicate

(* Every step keeps links coherent.                                        *)
LEMMA LinksStep == Inv /\ LinksCoherent /\ [Next]_vars => LinksCoherent'
<1> SUFFICES ASSUME Inv, LinksCoherent, [Next]_vars PROVE LinksCoherent'
  OBVIOUS
<1>1. TypeOK /\ "image" \in Families
  BY DEF Inv, Families, InModel
<1>2. CASE AddImage
  BY <1>1, <1>2, AddCoherent DEF AddImage
<1>3. CASE AddOther
  BY <1>1, <1>3, AddCoherent DEF AddOther
<1>4. CASE \E image \in Ids, namespace \in Namespaces : AttachExternalId(image, namespace)
  BY <1>1, <1>4, AttachCoherent
<1>5. CASE \E source, target \in Ref, kind \in {"produces", "derived_from"} :
             AddRelationship(source, kind, target)
  BY <1>1, <1>5, RelateCoherent
<1>6. CASE \E process \in Ids, entity \in Ref, kind \in {"used", "generated"} :
             AddProvenance(process, kind, entity)
  BY <1>1, <1>6, ProvenanceCoherent
<1>7. CASE SerdeRoundTrip
  BY <1>7, NoLinksCoherent DEF SerdeRoundTrip, SerdeLinks
<1>8. CASE StorageRoundTrip
  BY <1>8, NoLinksCoherent DEF StorageRoundTrip
<1>9. CASE ToBytes
  <2>1. CASE NoLinks
    BY <2>1, NoLinksCoherent
  <2>2. CASE UNCHANGED content
    BY <2>2 DEF content, LinksCoherent, Valid, Permits, Duplicate
  <2> QED BY <1>9, <2>1, <2>2 DEF ToBytes
<1>10. CASE UNCHANGED vars
  BY <1>10 DEF vars, content, LinksCoherent, Valid, Permits, Duplicate
<1> QED BY <1>2, <1>3, <1>4, <1>5, <1>6, <1>7, <1>8, <1>9, <1>10 DEF Next

(* An empty scene has no links.                                            *)
LEMMA InitLinks == Init => LinksCoherent
BY DEF Init, LinksCoherent, Duplicate

(* Links stay coherent through any calls, saves and loads.                 *)
THEOREM LinksHold == Spec => []LinksCoherent
BY InitInv, StepInv, InitLinks, LinksStep, PTL DEF Spec

------------------------------------------------------------------------------
(* Numbers and sequences.                                                  *)

(* A set of numbers that is not empty has a least one.                     *)
LEMMA LeastElement ==
  ASSUME NEW T, T \subseteq Nat, T # {}
  PROVE  \E x \in T : \A y \in T : x <= y
<1> DEFINE R == OpToRel(<, Nat)
<1>1. PICK x \in T : \A y \in T : ~(<<y, x>> \in R)
  <2>1. IsWellFoundedOn(R, Nat)
    BY NatLessThanWellFounded
  <2> HIDE DEF R
  <2> QED BY <2>1, WFMin
<1>2. \A y \in T : ~(y < x)
  BY <1>1, Zenon DEF OpToRel
<1> HIDE DEF R
<1> QED BY <1>1, <1>2

(* A set of numbers with 0 in it, and with each also the next up to a      *)
(* bound, has all numbers up to the bound.                                 *)
LEMMA AllUpTo ==
  ASSUME NEW n \in Nat, NEW S, 0 \in S, \A m \in 1 .. n : m - 1 \in S => m \in S
  PROVE  \A m \in 0 .. n : m \in S
<1> DEFINE T == {m \in 0 .. n : m \notin S}
<1> SUFFICES ASSUME T # {} PROVE FALSE
  OBVIOUS
<1>1. PICK m \in T : \A y \in T : m <= y
  <2>1. T \subseteq Nat
    OBVIOUS
  <2> HIDE DEF T
  <2> QED BY <2>1, LeastElement
<1>2. m \in 1 .. n /\ m - 1 \in 0 .. n
  BY <1>1
<1>3. m - 1 \in S
  BY <1>1, <1>2
<1> QED BY <1>1, <1>2, <1>3

(* Sequences that agree are equal.                                         *)
LEMMA SameSequence ==
  ASSUME NEW S, NEW s \in Seq(S), NEW t \in Seq(S), Len(s) = Len(t),
         \A i \in 1 .. Len(s) : s[i] = t[i]
  PROVE  s = t
OBVIOUS

(* A function on an initial segment is a sequence.                         *)
LEMMA FunctionSequence ==
  ASSUME NEW S, NEW n \in Nat, NEW f, f = [i \in 1 .. n |-> f[i]], \A i \in 1 .. n : f[i] \in S
  PROVE  f \in Seq(S) /\ Len(f) = n /\ DOMAIN f = 1 .. n
<1>1. f \in [1 .. n -> S]
  OBVIOUS
<1>2. f \in Seq(S)
  BY <1>1
<1> QED BY <1>1, <1>2

(* What is at each place of one sequence after the other.                  *)
LEMMA Concat ==
  ASSUME NEW S, NEW s \in Seq(S), NEW t \in Seq(S)
  PROVE  /\ s \o t \in Seq(S) /\ Len(s \o t) = Len(s) + Len(t)
         /\ \A i \in 1 .. Len(s) : (s \o t)[i] = s[i]
         /\ \A i \in 1 .. Len(t) : (s \o t)[Len(s) + i] = t[i]
OBVIOUS

(* Nothing in front or behind changes nothing.                             *)
LEMMA ConcatEmpty ==
  ASSUME NEW S, NEW s \in Seq(S)
  PROVE  << >> \o s = s /\ s \o << >> = s
OBVIOUS

(* Three sequences one after the other need no brackets.                   *)
LEMMA ConcatAssociates ==
  ASSUME NEW S, NEW s \in Seq(S), NEW t \in Seq(S), NEW u \in Seq(S)
  PROVE  (s \o t) \o u = s \o (t \o u)
OBVIOUS

(* The same of texts.                                                      *)
LEMMA TextConcat ==
  \A s, t \in Seq(Int) :
    /\ s \o t \in Seq(Int) /\ Len(s \o t) = Len(s) + Len(t)
    /\ \A i \in 1 .. Len(s) : (s \o t)[i] = s[i]
    /\ \A i \in 1 .. Len(t) : (s \o t)[Len(s) + i] = t[i]
BY Concat

(* The same of texts.                                                      *)
LEMMA TextAssociates ==
  \A s, t, u \in Seq(Int) : (s \o t) \o u = s \o (t \o u)
BY ConcatAssociates

(* Append adds a sequence of one.                                          *)
LEMMA AppendIs ==
  ASSUME NEW S, NEW s \in Seq(S), NEW e \in S
  PROVE  Append(s, e) = s \o <<e>> /\ <<e>> \in Seq(S) /\ Append(s, e) \in Seq(S)
OBVIOUS

(* What is at each place of two sequences one after the other.             *)
LEMMA ConcatSplit ==
  ASSUME NEW S, NEW s \in Seq(S), NEW t \in Seq(S), NEW i \in 1 .. Len(s \o t)
  PROVE  \/ i \in 1 .. Len(s) /\ (s \o t)[i] = s[i]
         \/ i - Len(s) \in 1 .. Len(t) /\ (s \o t)[i] = t[i - Len(s)]
OBVIOUS

------------------------------------------------------------------------------
(* The recursions of Joined, Figures and Run.                              *)

(* The recursion of Joined.                                                *)
JoinedOf(all, g, n) == IF n = 0 THEN << >> ELSE g[n - 1] \o all[n]

(* The recursion of Joined defines a function.                             *)
LEMMA JoinedExists ==
  ASSUME NEW all, NEW d \in Nat
  PROVE  \E g : g = [n \in 0 .. d |-> JoinedOf(all, g, n)]
<1> DEFINE S == {m \in Nat : \E g : g = [n \in 0 .. m |-> JoinedOf(all, g, n)]}
<1>1. 0 \in S
  <2> DEFINE g == [n \in 0 .. 0 |-> << >>]
  <2>1. \A n \in 0 .. 0 : JoinedOf(all, g, n) = << >>
    BY DEF JoinedOf
  <2>2. g = [n \in 0 .. 0 |-> JoinedOf(all, g, n)]
    BY <2>1
  <2> QED BY <2>2
<1>2. ASSUME NEW m \in 1 .. d, m - 1 \in S PROVE m \in S
  <2>1. PICK g : g = [n \in 0 .. m - 1 |-> JoinedOf(all, g, n)]
    BY <1>2
  <2> DEFINE h == [n \in 0 .. m |-> IF n < m THEN g[n] ELSE JoinedOf(all, g, m)]
  <2>2. ASSUME NEW n \in 0 .. m PROVE h[n] = JoinedOf(all, h, n)
    <3>1. h[n] = JoinedOf(all, g, n)
      BY <2>1
    <3>2. n # 0 => h[n - 1] = g[n - 1]
      <4>1. n # 0 => n - 1 \in 0 .. m /\ n - 1 < m
        OBVIOUS
      <4> QED BY <4>1
    <3> HIDE DEF h
    <3> QED BY <3>1, <3>2 DEF JoinedOf
  <2>3. h = [n \in 0 .. m |-> JoinedOf(all, h, n)]
    <3>1. h = [n \in 0 .. m |-> h[n]]
      OBVIOUS
    <3> HIDE DEF h
    <3> QED BY <3>1, <2>2
  <2> HIDE DEF h
  <2> QED BY <2>3
<1> HIDE DEF S
<1>3. d \in S
  BY <1>1, <1>2, AllUpTo
<1> QED BY <1>3 DEF S

(* What Joined puts together, text by text.                                *)
LEMMA JoinedSteps ==
  ASSUME NEW texts \in Seq(Seq(Int))
  PROVE  \E U \in [0 .. Len(texts) -> Seq(Int)] :
           /\ U[0] = << >> /\ \A n \in 1 .. Len(texts) : U[n] = U[n - 1] \o texts[n]
           /\ Joined(texts) = U[Len(texts)]
<1> DEFINE all == << >> \o texts
<1>1. all = texts
  BY ConcatEmpty
<1> DEFINE P(g) == g = [n \in 0 .. Len(all) |-> JoinedOf(all, g, n)]
           U == CHOOSE g : P(g)
<1>2. Joined(texts) = U[Len(all)]
  BY DEF Joined, JoinedOf
<1>3. P(U)
  <2>1. Len(all) \in Nat
    BY <1>1
  <2> HIDE DEF all
  <2>2. \E g : P(g)
    BY <2>1, JoinedExists
  <2> HIDE DEF P
  <2> QED BY <2>2
<1> HIDE DEF U, all
<1>4. U = [n \in 0 .. Len(texts) |-> JoinedOf(texts, U, n)]
  BY <1>1, <1>3
<1> HIDE DEF P
<1>5. U[0] = << >> /\ \A n \in 1 .. Len(texts) : U[n] = U[n - 1] \o texts[n]
  <2>1. Len(texts) \in Nat
    OBVIOUS
  <2>2. \A n \in 0 .. Len(texts) : U[n] = JoinedOf(texts, U, n)
    BY <1>4, Zenon
  <2>3. 0 \in 0 .. Len(texts) /\ \A n \in 1 .. Len(texts) : n \in 0 .. Len(texts) /\ n # 0
    BY <2>1
  <2> QED BY <2>2, <2>3 DEF JoinedOf
<1>6. \A n \in 0 .. Len(texts) : U[n] \in Seq(Int)
  <2> DEFINE S == {n \in 0 .. Len(texts) : U[n] \in Seq(Int)}
  <2>1. Len(texts) \in Nat /\ 0 \in 0 .. Len(texts)
    OBVIOUS
  <2>2. 0 \in S
    <3>1. << >> \in Seq(Int)
      OBVIOUS
    <3> QED BY <1>5, <2>1, <3>1, Zenon
  <2>3. ASSUME NEW n \in 1 .. Len(texts), n - 1 \in S PROVE n \in S
    <3>1. U[n - 1] \in Seq(Int) /\ texts[n] \in Seq(Int)
      BY <2>3
    <3>2. U[n] = U[n - 1] \o texts[n]
      BY <1>5
    <3>3. U[n] \in Seq(Int)
      BY <3>1, <3>2, Concat
    <3>4. n \in 0 .. Len(texts)
      OBVIOUS
    <3> QED BY <3>3, <3>4, Zenon
  <2> HIDE DEF S
  <2>4. \A n \in 0 .. Len(texts) : n \in S
    BY <2>1, <2>2, <2>3, AllUpTo
  <2> QED BY <2>4 DEF S
<1>7. U \in [0 .. Len(texts) -> Seq(Int)]
  BY <1>4, <1>6
<1> QED BY <1>1, <1>2, <1>5, <1>7

(* The recursion of Figures.                                               *)
FiguresOf(text, g, n) == IF n = 0 THEN 0 ELSE 10 * g[n - 1] + text[n] - Zero

(* The recursion of Figures defines a function.                            *)
LEMMA FiguresExists ==
  ASSUME NEW text, NEW d \in Nat
  PROVE  \E g : g = [n \in 0 .. d |-> FiguresOf(text, g, n)]
<1> DEFINE S == {m \in Nat : \E g : g = [n \in 0 .. m |-> FiguresOf(text, g, n)]}
<1>1. 0 \in S
  <2> DEFINE g == [n \in 0 .. 0 |-> 0]
  <2>1. \A n \in 0 .. 0 : FiguresOf(text, g, n) = 0
    BY DEF FiguresOf
  <2>2. g = [n \in 0 .. 0 |-> FiguresOf(text, g, n)]
    BY <2>1
  <2> QED BY <2>2
<1>2. ASSUME NEW m \in 1 .. d, m - 1 \in S PROVE m \in S
  <2>1. PICK g : g = [n \in 0 .. m - 1 |-> FiguresOf(text, g, n)]
    BY <1>2
  <2> DEFINE h == [n \in 0 .. m |-> IF n < m THEN g[n] ELSE FiguresOf(text, g, m)]
  <2>2. ASSUME NEW n \in 0 .. m PROVE h[n] = FiguresOf(text, h, n)
    <3>1. h[n] = FiguresOf(text, g, n)
      BY <2>1
    <3>2. n # 0 => h[n - 1] = g[n - 1]
      <4>1. n # 0 => n - 1 \in 0 .. m /\ n - 1 < m
        OBVIOUS
      <4> QED BY <4>1
    <3> HIDE DEF h
    <3> QED BY <3>1, <3>2 DEF FiguresOf
  <2>3. h = [n \in 0 .. m |-> FiguresOf(text, h, n)]
    <3>1. h = [n \in 0 .. m |-> h[n]]
      OBVIOUS
    <3> HIDE DEF h
    <3> QED BY <3>1, <2>2
  <2> HIDE DEF h
  <2> QED BY <2>3
<1> HIDE DEF S
<1>3. d \in S
  BY <1>1, <1>2, AllUpTo
<1> QED BY <1>3 DEF S

(* What Figures makes of a text, figure by figure.                         *)
LEMMA FiguresSteps ==
  ASSUME NEW text \in Seq(Int)
  PROVE  \E U \in [0 .. Len(text) -> Int] :
           /\ U[0] = 0 /\ \A n \in 1 .. Len(text) : U[n] = 10 * U[n - 1] + text[n] - Zero
           /\ Figures(text) = U[Len(text)]
<1> DEFINE P(g) == g = [n \in 0 .. Len(text) |-> FiguresOf(text, g, n)]
           U == CHOOSE g : P(g)
<1>1. Figures(text) = U[Len(text)]
  BY DEF Figures, FiguresOf
<1>2. P(U)
  <2>1. Len(text) \in Nat
    OBVIOUS
  <2>2. \E g : P(g)
    BY <2>1, FiguresExists
  <2> HIDE DEF P
  <2> QED BY <2>2
<1> HIDE DEF U
<1>3. U = [n \in 0 .. Len(text) |-> FiguresOf(text, U, n)]
  BY <1>2
<1> HIDE DEF P
<1>4. U[0] = 0 /\ \A n \in 1 .. Len(text) : U[n] = 10 * U[n - 1] + text[n] - Zero
  <2>1. Len(text) \in Nat
    OBVIOUS
  <2>2. \A n \in 0 .. Len(text) : U[n] = FiguresOf(text, U, n)
    BY <1>3, Zenon
  <2>3. 0 \in 0 .. Len(text) /\ \A n \in 1 .. Len(text) : n \in 0 .. Len(text) /\ n # 0
    BY <2>1
  <2> QED BY <2>2, <2>3 DEF FiguresOf
<1>5. \A n \in 0 .. Len(text) : U[n] \in Int
  <2> DEFINE S == {n \in 0 .. Len(text) : U[n] \in Int}
  <2>1. Len(text) \in Nat /\ 0 \in 0 .. Len(text)
    OBVIOUS
  <2>2. 0 \in S
    BY <1>4, <2>1
  <2>3. ASSUME NEW n \in 1 .. Len(text), n - 1 \in S PROVE n \in S
    <3>1. U[n - 1] \in Int /\ text[n] \in Int
      BY <2>3
    <3>2. U[n] \in Int
      BY <1>4, <3>1 DEF Zero
    <3> QED BY <3>2
  <2> HIDE DEF S
  <2>4. \A n \in 0 .. Len(text) : n \in S
    BY <2>1, <2>2, <2>3, AllUpTo
  <2> QED BY <2>4 DEF S
<1>6. U \in [0 .. Len(text) -> Int]
  BY <1>3, <1>5
<1> QED BY <1>1, <1>4, <1>6

(* The recursion of Run.                                                   *)
RunOf(s, text, g, n) == IF n = 0 THEN s ELSE Advanced(g[n - 1], text[n])

(* The recursion of Run defines a function.                                *)
LEMMA RunExists ==
  ASSUME NEW s, NEW text, NEW d \in Nat
  PROVE  \E g : g = [n \in 0 .. d |-> RunOf(s, text, g, n)]
<1> DEFINE S == {m \in Nat : \E g : g = [n \in 0 .. m |-> RunOf(s, text, g, n)]}
<1>1. 0 \in S
  <2> DEFINE g == [n \in 0 .. 0 |-> s]
  <2>1. \A n \in 0 .. 0 : RunOf(s, text, g, n) = s
    BY DEF RunOf
  <2>2. g = [n \in 0 .. 0 |-> RunOf(s, text, g, n)]
    BY <2>1
  <2> QED BY <2>2
<1>2. ASSUME NEW m \in 1 .. d, m - 1 \in S PROVE m \in S
  <2>1. PICK g : g = [n \in 0 .. m - 1 |-> RunOf(s, text, g, n)]
    BY <1>2
  <2> DEFINE h == [n \in 0 .. m |-> IF n < m THEN g[n] ELSE RunOf(s, text, g, m)]
  <2>2. ASSUME NEW n \in 0 .. m PROVE h[n] = RunOf(s, text, h, n)
    <3>1. h[n] = RunOf(s, text, g, n)
      BY <2>1
    <3>2. n # 0 => h[n - 1] = g[n - 1]
      <4>1. n # 0 => n - 1 \in 0 .. m /\ n - 1 < m
        OBVIOUS
      <4> QED BY <4>1
    <3> HIDE DEF h
    <3> QED BY <3>1, <3>2 DEF RunOf
  <2>3. h = [n \in 0 .. m |-> RunOf(s, text, h, n)]
    <3>1. h = [n \in 0 .. m |-> h[n]]
      OBVIOUS
    <3> HIDE DEF h
    <3> QED BY <3>1, <2>2
  <2> HIDE DEF h
  <2> QED BY <2>3
<1> HIDE DEF S
<1>3. d \in S
  BY <1>1, <1>2, AllUpTo
<1> QED BY <1>3 DEF S

(* What Run makes of a text, character by character.                       *)
LEMMA RunSteps ==
  ASSUME NEW s, NEW text \in Seq(Int)
  PROVE  \E U :
           /\ U[0] = s /\ \A n \in 1 .. Len(text) : U[n] = Advanced(U[n - 1], text[n])
           /\ Run(s, text) = U[Len(text)]
<1> DEFINE P(g) == g = [n \in 0 .. Len(text) |-> RunOf(s, text, g, n)]
           U == CHOOSE g : P(g)
<1>1. Run(s, text) = U[Len(text)]
  BY DEF Run, RunOf
<1>2. P(U)
  <2>1. Len(text) \in Nat
    OBVIOUS
  <2>2. \E g : P(g)
    BY <2>1, RunExists
  <2> HIDE DEF P
  <2> QED BY <2>2
<1> HIDE DEF U
<1>3. U = [n \in 0 .. Len(text) |-> RunOf(s, text, U, n)]
  BY <1>2
<1> HIDE DEF P
<1>4. U[0] = s /\ \A n \in 1 .. Len(text) : U[n] = Advanced(U[n - 1], text[n])
  <2>1. Len(text) \in Nat
    OBVIOUS
  <2>2. \A n \in 0 .. Len(text) : U[n] = RunOf(s, text, U, n)
    BY <1>3, Zenon
  <2>3. 0 \in 0 .. Len(text) /\ \A n \in 1 .. Len(text) : n \in 0 .. Len(text) /\ n # 0
    BY <2>1
  <2> QED BY <2>2, <2>3 DEF RunOf
<1> QED BY <1>1, <1>4

(* Each of the texts joined so far is the beginning of the next one.       *)
LEMMA JoinedGrows ==
  ASSUME NEW texts \in Seq(Seq(Int)), NEW U \in [0 .. Len(texts) -> Seq(Int)],
         \A n \in 1 .. Len(texts) : U[n] = U[n - 1] \o texts[n],
         NEW n \in 0 .. Len(texts), NEW k \in 0 .. n
  PROVE  /\ Len(U[k]) \in Nat /\ Len(U[n]) \in Nat /\ Len(U[k]) <= Len(U[n])
         /\ \A j \in 1 .. Len(U[k]) : U[n][j] = U[k][j]
<1> DEFINE S == {m \in 0 .. Len(texts) :
                   m >= k => /\ Len(U[k]) <= Len(U[m])
                             /\ \A j \in 1 .. Len(U[k]) : U[m][j] = U[k][j]}
<1>1. /\ Len(texts) \in Nat /\ 0 \in 0 .. Len(texts) /\ k \in 0 .. Len(texts)
      /\ U[k] \in Seq(Int) /\ Len(U[k]) \in Nat
  OBVIOUS
<1>2. 0 \in S
  BY <1>1
<1>3. ASSUME NEW m \in 1 .. Len(texts), m - 1 \in S PROVE m \in S
  <2>1. CASE m = k
    BY <2>1, <1>1
  <2>2. CASE m < k
    BY <2>2
  <2>3. CASE m > k
    <3>1. /\ U[m - 1] \in Seq(Int) /\ Len(U[m - 1]) \in Nat /\ Len(texts[m]) \in Nat
          /\ texts[m] \in Seq(Int)
      <4>1. m - 1 \in 0 .. Len(texts) /\ m \in DOMAIN texts
        BY <1>1
      <4>2. U[m - 1] \in Seq(Int) /\ texts[m] \in Seq(Int)
        BY <4>1
      <4> QED BY <4>2
    <3>2. U[m] = U[m - 1] \o texts[m]
      OBVIOUS
    <3>3. Len(U[m]) = Len(U[m - 1]) + Len(texts[m])
      BY <3>1, <3>2
    <3>4. \A j \in 1 .. Len(U[m - 1]) : U[m][j] = U[m - 1][j]
      <4> DEFINE r == U[m - 1]
                 t == texts[m]
      <4>1. r \in Seq(Int) /\ t \in Seq(Int) /\ U[m] = r \o t
        BY <3>1, <3>2
      <4> HIDE DEF r, t
      <4>2. \A j \in 1 .. Len(r) : U[m][j] = r[j]
        BY <4>1, Concat
      <4> QED BY <4>2 DEF r
    <3>5. m - 1 >= k
      BY <2>3
    <3>6. /\ Len(U[k]) <= Len(U[m - 1]) /\ \A j \in 1 .. Len(U[k]) : U[m - 1][j] = U[k][j]
      BY <1>3, <3>5
    <3>7. \A j \in 1 .. Len(U[k]) : U[m][j] = U[k][j]
      BY <1>1, <3>1, <3>4, <3>6
    <3>8. m \in 0 .. Len(texts)
      BY <1>1
    <3>9. Len(U[k]) <= Len(U[m])
      <4> DEFINE a == Len(U[k])
                 b == Len(U[m - 1])
                 d == Len(texts[m])
      <4>1. a \in Nat /\ b \in Nat /\ d \in Nat /\ a <= b /\ Len(U[m]) = b + d
        BY <1>1, <3>1, <3>3, <3>6
      <4> HIDE DEF a, b, d
      <4>2. a <= Len(U[m])
        BY <4>1
      <4> QED BY <4>2 DEF a
    <3> QED BY <3>7, <3>8, <3>9
  <2> QED BY <2>1, <2>2, <2>3
<1> HIDE DEF S
<1>4. \A m \in 0 .. Len(texts) : m \in S
  BY <1>1, <1>2, <1>3, AllUpTo
<1> QED BY <1>1, <1>4 DEF S

(* Texts joined are a text.                                                *)
LEMMA JoinedType ==
  ASSUME NEW texts \in Seq(Seq(Int))
  PROVE  Joined(texts) \in Seq(Int)
<1>1. PICK U \in [0 .. Len(texts) -> Seq(Int)] : Joined(texts) = U[Len(texts)]
  BY JoinedSteps
<1> QED BY <1>1

(* What a text has, the texts joined have, and nothing else.               *)
LEMMA JoinedHolds ==
  ASSUME NEW texts \in Seq(Seq(Int)), NEW c, NEW i \in DOMAIN texts, Holds(texts[i], c)
  PROVE  Holds(Joined(texts), c)
<1>1. PICK U \in [0 .. Len(texts) -> Seq(Int)] :
           /\ U[0] = << >> /\ \A n \in 1 .. Len(texts) : U[n] = U[n - 1] \o texts[n]
           /\ Joined(texts) = U[Len(texts)]
  BY JoinedSteps
<1>2. /\ Len(texts) \in Nat /\ i \in 1 .. Len(texts) /\ i \in 0 .. Len(texts)
      /\ i - 1 \in 0 .. Len(texts) /\ Len(texts) \in 0 .. Len(texts) /\ i \in 0 .. Len(texts)
      /\ texts[i] \in Seq(Int)
  OBVIOUS
<1>3. PICK j \in 1 .. Len(texts[i]) : texts[i][j] = c
  BY <1>2 DEF Holds
<1>4. /\ U[i] = U[i - 1] \o texts[i] /\ U[i] \in Seq(Int) /\ U[i - 1] \in Seq(Int)
      /\ Len(U[i - 1]) \in Nat
  <2>1. U[i] = U[i - 1] \o texts[i]
    BY <1>1, <1>2
  <2>2. U[i] \in Seq(Int) /\ U[i - 1] \in Seq(Int)
    BY <1>2
  <2> QED BY <2>1, <2>2
<1>5. /\ U[i][Len(U[i - 1]) + j] = c /\ Len(U[i - 1]) + j \in 1 .. Len(U[i])
  <2>1. /\ (U[i - 1] \o texts[i])[Len(U[i - 1]) + j] = texts[i][j]
        /\ Len(U[i - 1] \o texts[i]) = Len(U[i - 1]) + Len(texts[i]) /\ Len(texts[i]) \in Nat
    BY <1>2, <1>4, Concat
  <2> QED BY <2>1, <1>3, <1>4
<1>6. /\ Len(U[i]) <= Len(Joined(texts))
      /\ \A k \in 1 .. Len(U[i]) : Joined(texts)[k] = U[i][k]
  BY <1>1, <1>2, JoinedGrows
<1>7. Joined(texts) \in Seq(Int)
  BY JoinedType
<1>8. Len(U[i - 1]) + j \in DOMAIN Joined(texts)
  BY <1>4, <1>5, <1>6, <1>7
<1> QED BY <1>5, <1>6, <1>8 DEF Holds

(* Two texts have a character when one of them has it.                     *)
LEMMA ConcatHolds ==
  ASSUME NEW s \in Seq(Int), NEW t \in Seq(Int), NEW c
  PROVE  Holds(s \o t, c) <=> Holds(s, c) \/ Holds(t, c)
<1>1. ASSUME Holds(s \o t, c) PROVE Holds(s, c) \/ Holds(t, c)
  <2>1. PICK i \in 1 .. Len(s \o t) : (s \o t)[i] = c
    BY <1>1 DEF Holds
  <2> QED BY <2>1, ConcatSplit DEF Holds
<1>2. ASSUME Holds(s, c) PROVE Holds(s \o t, c)
  <2>1. PICK i \in 1 .. Len(s) : s[i] = c
    BY <1>2 DEF Holds
  <2>2. (s \o t)[i] = c /\ i \in DOMAIN (s \o t)
    BY <2>1
  <2> QED BY <2>2 DEF Holds
<1>3. ASSUME Holds(t, c) PROVE Holds(s \o t, c)
  <2>1. PICK i \in 1 .. Len(t) : t[i] = c
    BY <1>3 DEF Holds
  <2>2. (s \o t)[Len(s) + i] = c /\ Len(s) + i \in DOMAIN (s \o t)
    BY <2>1
  <2> QED BY <2>2 DEF Holds
<1> QED BY <1>1, <1>2, <1>3

(* A character that none of the texts has, the texts joined do not have.   *)
LEMMA JoinedFree ==
  ASSUME NEW texts \in Seq(Seq(Int)), NEW c, \A i \in DOMAIN texts : ~Holds(texts[i], c)
  PROVE  ~Holds(Joined(texts), c)
<1>1. PICK U \in [0 .. Len(texts) -> Seq(Int)] :
           /\ U[0] = << >> /\ \A n \in 1 .. Len(texts) : U[n] = U[n - 1] \o texts[n]
           /\ Joined(texts) = U[Len(texts)]
  BY JoinedSteps
<1> DEFINE S == {n \in 0 .. Len(texts) : ~Holds(U[n], c)}
<1>2. Len(texts) \in Nat /\ 0 \in 0 .. Len(texts) /\ Len(texts) \in 0 .. Len(texts)
  OBVIOUS
<1>3. 0 \in S
  <2>1. ~Holds(<< >>, c)
    BY DEF Holds
  <2> QED BY <1>1, <1>2, <2>1
<1>4. ASSUME NEW n \in 1 .. Len(texts), n - 1 \in S PROVE n \in S
  <2>1. U[n - 1] \in Seq(Int) /\ texts[n] \in Seq(Int) /\ U[n] = U[n - 1] \o texts[n]
    <3>1. n - 1 \in 0 .. Len(texts) /\ n \in DOMAIN texts
      BY <1>2
    <3>2. U[n - 1] \in Seq(Int) /\ texts[n] \in Seq(Int)
      BY <3>1
    <3> QED BY <3>2, <1>1
  <2>2. ~Holds(U[n - 1], c) /\ ~Holds(texts[n], c) /\ n \in 0 .. Len(texts)
    BY <1>4
  <2>3. ~Holds(U[n], c)
    BY <2>1, <2>2, ConcatHolds
  <2> QED BY <2>2, <2>3
<1> HIDE DEF S
<1>5. \A n \in 0 .. Len(texts) : n \in S
  BY <1>2, <1>3, <1>4, AllUpTo
<1> QED BY <1>1, <1>2, <1>5 DEF S

------------------------------------------------------------------------------
(* Runs of the reader.                                                     *)

(* What a text makes of a state of the reader.                             *)
LEMMA RunIs ==
  ASSUME NEW s, NEW text \in Seq(Int), NEW V, V[0] = s,
         \A n \in 1 .. Len(text) : V[n] = Advanced(V[n - 1], text[n])
  PROVE  Run(s, text) = V[Len(text)]
<1>1. PICK U : /\ U[0] = s /\ \A n \in 1 .. Len(text) : U[n] = Advanced(U[n - 1], text[n])
               /\ Run(s, text) = U[Len(text)]
  BY RunSteps
<1> DEFINE S == {n \in 0 .. Len(text) : U[n] = V[n]}
<1>2. Len(text) \in Nat /\ 0 \in 0 .. Len(text) /\ Len(text) \in 0 .. Len(text)
  OBVIOUS
<1>3. 0 \in S
  BY <1>1, <1>2
<1>4. ASSUME NEW n \in 1 .. Len(text), n - 1 \in S PROVE n \in S
  <2>1. U[n - 1] = V[n - 1] /\ n \in 0 .. Len(text)
    BY <1>4
  <2>2. U[n] = V[n]
    BY <1>1, <2>1
  <2> QED BY <2>1, <2>2
<1> HIDE DEF S
<1>5. \A n \in 0 .. Len(text) : n \in S
  BY <1>2, <1>3, <1>4, AllUpTo
<1> QED BY <1>1, <1>2, <1>5 DEF S

(* Nothing to read changes nothing.                                        *)
LEMMA RunEmpty == \A s : Run(s, << >>) = s
<1> TAKE s
<1>1. << >> \in Seq(Int) /\ Len(<< >>) = 0
  OBVIOUS
<1> DEFINE V == [n \in 0 .. 0 |-> s]
<1>2. V[0] = s
  OBVIOUS
<1>3. \A n \in 1 .. Len(<< >>) : V[n] = Advanced(V[n - 1], << >>[n])
  BY <1>1
<1> HIDE DEF V
<1> QED BY <1>1, <1>2, <1>3, RunIs

(* One character is one step.                                              *)
LEMMA RunOne ==
  ASSUME NEW s, NEW c \in Int
  PROVE  Run(s, <<c>>) = Advanced(s, c)
<1> DEFINE text == <<c>>
           V == [n \in 0 .. 1 |-> IF n = 0 THEN s ELSE Advanced(s, c)]
<1>1. text \in Seq(Int) /\ Len(text) = 1 /\ text[1] = c
  OBVIOUS
<1>2. V[0] = s /\ V[1] = Advanced(s, c)
  OBVIOUS
<1> HIDE DEF V, text
<1>3. \A n \in 1 .. Len(text) : V[n] = Advanced(V[n - 1], text[n])
  <2>1. \A n \in 1 .. Len(text) : n = 1 /\ n - 1 = 0
    BY <1>1
  <2> QED BY <2>1, <1>1, <1>2
<1>4. Run(s, text) = V[Len(text)]
  BY <1>1, <1>2, <1>3, RunIs
<1> QED BY <1>1, <1>2, <1>4 DEF text

(* Two texts are read one after the other.                                 *)
LEMMA RunConcat ==
  ASSUME NEW s, NEW a \in Seq(Int), NEW b \in Seq(Int)
  PROVE  Run(s, a \o b) = Run(Run(s, a), b)
<1>1. PICK U : /\ U[0] = s /\ \A n \in 1 .. Len(a) : U[n] = Advanced(U[n - 1], a[n])
               /\ Run(s, a) = U[Len(a)]
  BY RunSteps
<1>2. PICK W : /\ W[0] = Run(s, a) /\ \A n \in 1 .. Len(b) : W[n] = Advanced(W[n - 1], b[n])
               /\ Run(Run(s, a), b) = W[Len(b)]
  BY RunSteps
<1> DEFINE ab == a \o b
           V == [n \in 0 .. Len(a) + Len(b) |-> IF n <= Len(a) THEN U[n] ELSE W[n - Len(a)]]
<1>3. /\ ab \in Seq(Int) /\ Len(ab) = Len(a) + Len(b) /\ Len(a) \in Nat /\ Len(b) \in Nat
      /\ \A n \in 1 .. Len(a) : ab[n] = a[n]
      /\ \A n \in Len(a) + 1 .. Len(a) + Len(b) : ab[n] = b[n - Len(a)]
  OBVIOUS
<1>4. /\ \A n \in 0 .. Len(a) : V[n] = U[n]
      /\ \A n \in Len(a) + 1 .. Len(a) + Len(b) : V[n] = W[n - Len(a)]
  BY <1>3
<1> HIDE DEF ab, V
<1>5. V[0] = s /\ V[Len(a)] = W[0]
  BY <1>1, <1>2, <1>3, <1>4
<1>6. ASSUME NEW n \in 1 .. Len(ab) PROVE V[n] = Advanced(V[n - 1], ab[n])
  <2>1. CASE n <= Len(a)
    <3>1. n \in 1 .. Len(a) /\ n \in 0 .. Len(a) /\ n - 1 \in 0 .. Len(a)
      BY <2>1, <1>3
    <3> QED BY <3>1, <1>1, <1>3, <1>4
  <2>2. CASE n = Len(a) + 1
    <3>1. /\ n \in Len(a) + 1 .. Len(a) + Len(b) /\ n - 1 = Len(a) /\ n - Len(a) = 1
          /\ 1 \in 1 .. Len(b) /\ 1 - 1 = 0
      BY <2>2, <1>3
    <3>2. W[1] = Advanced(W[0], b[1])
      BY <3>1, <1>2
    <3> QED BY <3>1, <3>2, <1>3, <1>4, <1>5
  <2>3. CASE n > Len(a) + 1
    <3> DEFINE k == n - Len(a)
    <3>1. /\ n \in Len(a) + 1 .. Len(a) + Len(b) /\ n - 1 \in Len(a) + 1 .. Len(a) + Len(b)
          /\ k \in 1 .. Len(b) /\ (n - 1) - Len(a) = k - 1
      BY <2>3, <1>3
    <3>2. W[k] = Advanced(W[k - 1], b[k])
      BY <3>1, <1>2
    <3>3. V[n] = W[k] /\ V[n - 1] = W[k - 1] /\ ab[n] = b[k]
      BY <3>1, <1>3, <1>4
    <3> QED BY ONLY <3>2, <3>3, Zenon
  <2> QED BY <2>1, <2>2, <2>3, <1>3
<1>7. Run(s, ab) = V[Len(ab)]
  BY <1>3, <1>5, <1>6, RunIs
<1>8. V[Len(ab)] = W[Len(b)]
  <2>1. CASE Len(b) = 0
    BY <2>1, <1>3, <1>5
  <2>2. CASE Len(b) # 0
    <3>1. Len(ab) \in Len(a) + 1 .. Len(a) + Len(b) /\ Len(ab) - Len(a) = Len(b)
      BY <2>2, <1>3
    <3> QED BY <3>1, <1>4
  <2> QED BY <2>1, <2>2
<1> QED BY <1>2, <1>7, <1>8 DEF ab

(* The first character is read first.                                      *)
LEMMA RunThen ==
  ASSUME NEW s, NEW c \in Int, NEW t \in Seq(Int)
  PROVE  Run(s, <<c>> \o t) = Run(Advanced(s, c), t)
<1>1. <<c>> \in Seq(Int)
  OBVIOUS
<1>2. Run(s, <<c>> \o t) = Run(Run(s, <<c>>), t)
  BY <1>1, RunConcat
<1> QED BY <1>2, RunOne

(* The last character is read last.                                        *)
LEMMA RunEnd ==
  ASSUME NEW s, NEW t \in Seq(Int), NEW c \in Int
  PROVE  Run(s, t \o <<c>>) = Advanced(Run(s, t), c)
<1>1. <<c>> \in Seq(Int)
  OBVIOUS
<1>2. Run(s, t \o <<c>>) = Run(Run(s, t), <<c>>)
  BY <1>1, RunConcat, Zenon
<1> QED BY <1>2, RunOne, Zenon

(* The same with all smaller numbers to build on.                          *)
LEMMA AllFromSmaller ==
  ASSUME NEW n \in Nat, NEW S, \A m \in 0 .. n : (\A k \in 0 .. m - 1 : k \in S) => m \in S
  PROVE  \A m \in 0 .. n : m \in S
<1> DEFINE T == {m \in 0 .. n : m \notin S}
<1> SUFFICES ASSUME T # {} PROVE FALSE
  OBVIOUS
<1>1. PICK m \in T : \A y \in T : m <= y
  <2>1. T \subseteq Nat
    OBVIOUS
  <2> HIDE DEF T
  <2> QED BY <2>1, LeastElement
<1>2. \A k \in 0 .. m - 1 : k \in S
  <2>1. \A k \in 0 .. m - 1 : k \in 0 .. n /\ ~(m <= k)
    BY <1>1
  <2> QED BY <2>1, <1>1
<1> QED BY <1>1, <1>2

------------------------------------------------------------------------------
(* Numbers, and how a reader takes them apart.                             *)

(* What figures are as a number.                                           *)
LEMMA FiguresIs ==
  ASSUME NEW text \in Seq(Int), NEW V, V[0] = 0,
         \A n \in 1 .. Len(text) : V[n] = 10 * V[n - 1] + text[n] - Zero
  PROVE  Figures(text) = V[Len(text)]
<1>1. PICK U : /\ U[0] = 0 /\ \A n \in 1 .. Len(text) : U[n] = 10 * U[n - 1] + text[n] - Zero
               /\ Figures(text) = U[Len(text)]
  BY FiguresSteps
<1> DEFINE S == {n \in 0 .. Len(text) : U[n] = V[n]}
<1>2. Len(text) \in Nat /\ 0 \in 0 .. Len(text) /\ Len(text) \in 0 .. Len(text)
  OBVIOUS
<1>3. 0 \in S
  BY <1>1, <1>2
<1>4. ASSUME NEW n \in 1 .. Len(text), n - 1 \in S PROVE n \in S
  <2>1. U[n - 1] = V[n - 1] /\ n \in 0 .. Len(text)
    BY <1>4
  <2>2. U[n] = V[n]
    BY <1>1, <2>1
  <2> QED BY <2>1, <2>2
<1> HIDE DEF S
<1>5. \A n \in 0 .. Len(text) : n \in S
  BY <1>2, <1>3, <1>4, AllUpTo
<1> QED BY <1>1, <1>2, <1>5 DEF S

(* No figures are 0.                                                       *)
LEMMA FiguresEmpty == Figures(<< >>) = 0
<1> DEFINE V == [n \in 0 .. 0 |-> 0]
<1>1. << >> \in Seq(Int) /\ Len(<< >>) = 0
  OBVIOUS
<1>2. V[0] = 0 /\ \A n \in 1 .. Len(<< >>) : V[n] = 10 * V[n - 1] + << >>[n] - Zero
  BY <1>1
<1> HIDE DEF V
<1> QED BY <1>1, <1>2, FiguresIs

(* One more figure is ten times as much and the figure.                    *)
LEMMA FiguresAppend ==
  ASSUME NEW t \in Seq(Int), NEW c \in Int
  PROVE  Figures(Append(t, c)) = 10 * Figures(t) + c - Zero
<1>1. PICK U : /\ U[0] = 0 /\ \A n \in 1 .. Len(t) : U[n] = 10 * U[n - 1] + t[n] - Zero
               /\ Figures(t) = U[Len(t)]
  BY FiguresSteps
<1> DEFINE text == Append(t, c)
           V == [n \in 0 .. Len(t) + 1 |->
                   IF n <= Len(t) THEN U[n] ELSE 10 * U[Len(t)] + c - Zero]
<1>2. /\ text \in Seq(Int) /\ Len(text) = Len(t) + 1 /\ text[Len(t) + 1] = c /\ Len(t) \in Nat
      /\ \A n \in 1 .. Len(t) : text[n] = t[n]
  OBVIOUS
<1>3. /\ \A n \in 0 .. Len(t) : V[n] = U[n]
      /\ V[Len(t) + 1] = 10 * U[Len(t)] + c - Zero
  BY <1>2
<1> HIDE DEF text, V
<1>4. V[0] = 0
  BY <1>1, <1>2, <1>3
<1>5. ASSUME NEW n \in 1 .. Len(text) PROVE V[n] = 10 * V[n - 1] + text[n] - Zero
  <2>1. CASE n <= Len(t)
    <3>1. n \in 1 .. Len(t) /\ n \in 0 .. Len(t) /\ n - 1 \in 0 .. Len(t)
      BY <2>1, <1>2
    <3> QED BY <3>1, <1>1, <1>2, <1>3
  <2>2. CASE n = Len(t) + 1
    <3>1. n - 1 = Len(t) /\ Len(t) \in 0 .. Len(t)
      BY <2>2, <1>2
    <3> QED BY <2>2, <3>1, <1>2, <1>3
  <2> QED BY <2>1, <2>2, <1>2
<1>6. Figures(text) = V[Len(text)]
  BY <1>2, <1>4, <1>5, FiguresIs
<1> QED BY <1>1, <1>2, <1>3, <1>6 DEF text

(* One figure is itself.                                                   *)
LEMMA FiguresOne == \A c \in Int : Figures(<<c>>) = c - Zero
<1> TAKE c \in Int
<1>1. Append(<< >>, c) = <<c>> /\ << >> \in Seq(Int)
  OBVIOUS
<1>2. Figures(Append(<< >>, c)) = 10 * Figures(<< >>) + c - Zero
  BY <1>1, FiguresAppend
<1> QED BY <1>1, <1>2, FiguresEmpty DEF Zero

(* The recursion of Decimal.                                               *)
DecimalOf(g, n) == IF n < 10 THEN <<Zero + n>> ELSE Append(g[n \div 10], Zero + (n % 10))

(* What div and mod by ten make of a number of two digits or more.         *)
LEMMA Tenth ==
  ASSUME NEW n \in Nat, n >= 10
  PROVE  n \div 10 \in 1 .. n - 1 /\ n % 10 \in 0 .. 9 /\ n = 10 * (n \div 10) + (n % 10)
OBVIOUS

(* The recursion of Decimal defines a function.                            *)
LEMMA DecimalExists ==
  ASSUME NEW d \in Nat
  PROVE  \E g : g = [n \in 0 .. d |-> DecimalOf(g, n)]
<1> DEFINE S == {m \in Nat : \E g : g = [n \in 0 .. m |-> DecimalOf(g, n)]}
<1>1. 0 \in S
  <2> DEFINE g == [n \in 0 .. 0 |-> <<Zero>>]
  <2>1. \A n \in 0 .. 0 : DecimalOf(g, n) = <<Zero>>
    BY DEF DecimalOf, Zero
  <2>2. g = [n \in 0 .. 0 |-> DecimalOf(g, n)]
    BY <2>1
  <2> QED BY <2>2
<1>2. ASSUME NEW m \in 1 .. d, m - 1 \in S PROVE m \in S
  <2>1. PICK g : g = [n \in 0 .. m - 1 |-> DecimalOf(g, n)]
    BY <1>2
  <2> DEFINE h == [n \in 0 .. m |-> IF n < m THEN g[n] ELSE DecimalOf(g, m)]
  <2>2. ASSUME NEW n \in 0 .. m PROVE h[n] = DecimalOf(h, n)
    <3>1. h[n] = DecimalOf(g, n)
      BY <2>1
    <3>2. ~(n < 10) => h[n \div 10] = g[n \div 10]
      <4>1. ~(n < 10) => n \div 10 \in 0 .. m /\ n \div 10 < m
        BY Tenth
      <4> QED BY <4>1
    <3> HIDE DEF h
    <3> QED BY <3>1, <3>2 DEF DecimalOf
  <2>3. h = [n \in 0 .. m |-> DecimalOf(h, n)]
    <3>1. h = [n \in 0 .. m |-> h[n]]
      OBVIOUS
    <3> HIDE DEF h
    <3> QED BY <3>1, <2>2
  <2> HIDE DEF h
  <2> QED BY <2>3
<1> HIDE DEF S
<1>3. d \in S
  BY <1>1, <1>2, AllUpTo
<1> QED BY <1>3 DEF S

(* Decimal satisfies its recursion.                                        *)
LEMMA DecimalUnfolds == \A n \in 0 .. MaxInteger : Decimal[n] = DecimalOf(Decimal, n)
<1> DEFINE P(g) == g = [n \in 0 .. MaxInteger |-> DecimalOf(g, n)]
<1>1. Decimal = CHOOSE g : P(g)
  BY DEF Decimal, DecimalOf
<1>2. \E g : P(g)
  BY DecimalExists, JcsAssumption
<1> HIDE DEF P
<1>3. P(Decimal)
  BY <1>1, <1>2
<1>4. Decimal = [n \in 0 .. MaxInteger |-> DecimalOf(Decimal, n)]
  BY <1>3 DEF P
<1> QED BY <1>4, Zenon

(* The digits of a number are digits, only those of 0 start with a zero,   *)
(* and they are the number.                                                *)
DecimalRight(n) ==
  /\ Decimal[n] \in Seq(Figure) /\ Len(Decimal[n]) >= 1
  /\ n = 0 => Decimal[n] = <<Zero>>
  /\ n # 0 => Decimal[n][1] # Zero
  /\ Figures(Decimal[n]) = n

(* Decimal is right for every integer, by induction over its digits.       *)
LEMMA DecimalIs == \A n \in 0 .. MaxInteger : DecimalRight(n)
<1> DEFINE S == {n \in 0 .. MaxInteger : DecimalRight(n)}
<1>1. ASSUME NEW n \in 0 .. MaxInteger, \A k \in 0 .. n - 1 : k \in S PROVE n \in S
  <2>0. n \in Nat
    OBVIOUS
  <2>1. CASE n < 10
    <3>1. Decimal[n] = <<Zero + n>>
      BY <2>1, DecimalUnfolds DEF DecimalOf
    <3>2. Zero + n \in Figure /\ Zero + n \in Int /\ (n # 0 => Zero + n # Zero) /\ (Zero + n) - Zero = n
      BY <2>1 DEF Figure, Zero
    <3>3. <<Zero + n>> \in Seq(Figure) /\ Len(<<Zero + n>>) = 1 /\ <<Zero + n>>[1] = Zero + n
      BY <3>2
    <3>4. Figures(<<Zero + n>>) = n
      BY <3>2, FiguresOne
    <3>5. n = 0 => Zero + n = Zero
      BY DEF Zero
    <3>6. DecimalRight(n)
      BY <3>1, <3>2, <3>3, <3>4, <3>5 DEF DecimalRight
    <3> QED BY <3>6
  <2>2. CASE ~(n < 10)
    <3> DEFINE t == Decimal[n \div 10]
               c == Zero + (n % 10)
    <3>1. n \div 10 \in 1 .. n - 1 /\ n % 10 \in 0 .. 9 /\ n = 10 * (n \div 10) + (n % 10)
      BY <2>0, <2>2, Tenth
    <3>2. DecimalRight(n \div 10) /\ n \div 10 # 0
      BY <3>1, <1>1
    <3>3. /\ t \in Seq(Figure) /\ Len(t) >= 1 /\ t[1] # Zero /\ Figures(t) = n \div 10
      BY <3>2 DEF DecimalRight
    <3>4. Decimal[n] = Append(t, c)
      BY <2>2, DecimalUnfolds DEF DecimalOf
    <3>5. c \in Figure /\ c \in Int
      BY <3>1 DEF Figure, Zero
    <3>6. t \in Seq(Int)
      BY <3>3 DEF Figure, Zero
    <3>7. Figures(Append(t, c)) = 10 * (n \div 10) + c - Zero
      BY <3>3, <3>5, <3>6, FiguresAppend
    <3>8. 10 * (n \div 10) + c - Zero = n
      BY <3>1 DEF Zero
    <3> HIDE DEF t, c
    <3>9. Append(t, c) \in Seq(Figure) /\ Len(Append(t, c)) >= 1 /\ Append(t, c)[1] = t[1]
      BY <3>3, <3>5
    <3>10. DecimalRight(n)
      BY <3>2, <3>3, <3>4, <3>7, <3>8, <3>9, <2>2 DEF DecimalRight
    <3> QED BY <3>10
  <2> QED BY <2>1, <2>2
<1> HIDE DEF S
<1>2. \A n \in 0 .. MaxInteger : n \in S
  BY <1>1, AllFromSmaller, JcsAssumption
<1> QED BY <1>2 DEF S

(* Figures are code points, and no sign, point or exponent is one.         *)
LEMMA FigureInt == Figure \subseteq Int /\ Minus \notin Figure /\ Plus \notin Figure
                   /\ Point \notin Figure /\ Exponent \notin Figure /\ Zero \in Figure
BY DEF Figure, Zero, Minus, Plus, Point, Exponent

(* Figures are text.                                                       *)
LEMMA FiguresInt == \A t \in Seq(Figure) : t \in Seq(Int)
BY DEF Figure, Zero

(* A part of a text.                                                       *)
LEMMA CutIs ==
  ASSUME NEW S, NEW s \in Seq(S), NEW m \in 1 .. Len(s) + 1, NEW n \in m - 1 .. Len(s)
  PROVE  /\ SubSeq(s, m, n) \in Seq(S) /\ Len(SubSeq(s, m, n)) = n - m + 1
         /\ \A i \in 1 .. n - m + 1 : SubSeq(s, m, n)[i] = s[m - 1 + i]
<1> DEFINE r == SubSeq(s, m, n)
<1>1. Len(s) \in Nat
  OBVIOUS
<1>2. m \in Nat /\ n \in Nat /\ n - m + 1 \in Nat
  BY <1>1
<1>3. r = [i \in 1 .. n - m + 1 |-> s[m - 1 + i]]
  BY <1>1, <1>2
<1>4. \A i \in 1 .. n - m + 1 : r[i] = s[m - 1 + i] /\ r[i] \in S
  <2>1. \A i \in 1 .. n - m + 1 : m - 1 + i \in 1 .. Len(s)
    BY <1>1, <1>2
  <2> QED BY <2>1, <1>3
<1>5. r = [i \in 1 .. n - m + 1 |-> r[i]]
  BY <1>3
<1> HIDE DEF r
<1>6. r \in Seq(S) /\ Len(r) = n - m + 1
  BY <1>2, <1>4, <1>5, FunctionSequence
<1> QED BY <1>4, <1>6 DEF r

(* A part of a text is a text.                                             *)
LEMMA TextCut ==
  \A s \in Seq(Int) : \A m \in 1 .. Len(s) + 1 : \A n \in m - 1 .. Len(s) :
    /\ SubSeq(s, m, n) \in Seq(Int) /\ Len(SubSeq(s, m, n)) = n - m + 1
    /\ \A i \in 1 .. n - m + 1 : SubSeq(s, m, n)[i] = s[m - 1 + i]
BY CutIs

(* Texts that agree are equal.                                             *)
LEMMA SameText ==
  \A s, t \in Seq(Int) : Len(s) = Len(t) /\ (\A i \in 1 .. Len(s) : s[i] = t[i]) => s = t
BY SameSequence

(* The part of a text before the first of a character, and the part        *)
(* after.                                                                  *)
LEMMA BeforeIs ==
  ASSUME NEW a \in Seq(Int), NEW b \in Seq(Int), NEW c \in Int, ~Holds(a, c)
  PROVE  LET text == a \o <<c>> \o b
         IN  Before(text, c) = a /\ After(text, c) = b /\ Without(text, c) = a \o b
<1> DEFINE text == a \o <<c>> \o b
           n == Len(a)
           P(i) == text[i] = c /\ \A j \in 1 .. i - 1 : text[j] # c
<1>1. /\ text \in Seq(Int) /\ Len(text) = n + 1 + Len(b) /\ n \in Nat /\ Len(b) \in Nat
      /\ \A i \in 1 .. n : text[i] = a[i]
      /\ text[n + 1] = c
      /\ \A i \in 1 .. Len(b) : text[n + 1 + i] = b[i]
  OBVIOUS
<1>2. \A i \in 1 .. n : text[i] # c
  BY <1>1 DEF Holds
<1> HIDE DEF text
<1>3. DOMAIN text = 1 .. n + 1 + Len(b) /\ n + 1 \in DOMAIN text
  BY <1>1
<1>4. Holds(text, c)
  BY <1>1, <1>3 DEF Holds
<1>5. P(n + 1)
  BY <1>1, <1>2
<1>6. \A i \in DOMAIN text : P(i) => i = n + 1
  <2> SUFFICES ASSUME NEW i \in DOMAIN text, P(i) PROVE i = n + 1
    OBVIOUS
  <2>1. i \in 1 .. n + 1 + Len(b)
    BY <1>3
  <2>2. ~(i <= n)
    BY <2>1, <1>1, <1>2
  <2>3. ~(i > n + 1)
    BY <2>1, <1>1
  <2> QED BY <2>1, <2>2, <2>3, <1>1
<1>7. (CHOOSE i \in DOMAIN text : P(i)) = n + 1
  <2> HIDE DEF P
  <2> QED BY <1>3, <1>5, <1>6
<1>8. Before(text, c) = SubSeq(text, 1, n)
  <2>1. Before(text, c) = SubSeq(text, 1, (CHOOSE i \in DOMAIN text : P(i)) - 1)
    BY <1>4 DEF Before
  <2>2. (n + 1) - 1 = n
    BY <1>1
  <2> HIDE DEF P
  <2> QED BY <2>1, <2>2, <1>7
<1>9. SubSeq(text, 1, n) = a
  BY <1>1
<1>10. After(text, c) = SubSeq(text, n + 2, Len(text))
  BY <1>8, <1>9 DEF After
<1>11. SubSeq(text, n + 2, Len(text)) = b
  <2> DEFINE r == SubSeq(text, n + 2, Len(text))
  <2>0. /\ n + 2 \in 1 .. Len(text) + 1 /\ Len(text) \in (n + 2) - 1 .. Len(text)
        /\ Len(text) - (n + 2) + 1 = Len(b) /\ (n + 2) - 1 = n + 1
    BY <1>1
  <2>1. r \in Seq(Int) /\ Len(r) = Len(b) /\ \A i \in 1 .. Len(b) : r[i] = text[n + 1 + i]
    BY <2>0, <1>1, CutIs
  <2> HIDE DEF r
  <2>2. r = b
    BY <2>1, <1>1, SameSequence
  <2> QED BY <2>2 DEF r
<1> QED BY <1>8, <1>9, <1>10, <1>11 DEF Without, text

(* Without the character, all of the text is before it.                    *)
LEMMA BeforeNone ==
  ASSUME NEW text \in Seq(Int), NEW c, ~Holds(text, c)
  PROVE  Before(text, c) = text /\ After(text, c) = << >> /\ Without(text, c) = text
<1>1. Before(text, c) = text
  BY DEF Before
<1>2. SubSeq(text, Len(text) + 2, Len(text)) = << >>
  OBVIOUS
<1>3. text \o << >> = text
  OBVIOUS
<1> QED BY <1>1, <1>2, <1>3 DEF After, Without

(* Zeros are figures.                                                      *)
LEMMA ZerosIs ==
  ASSUME NEW n \in Nat
  PROVE  Zeros(n) \in Seq(Figure) /\ Len(Zeros(n)) = n /\ \A i \in 1 .. n : Zeros(n)[i] = Zero
BY FigureInt DEF Zeros

(* Zeros in front, and zeros at the end.                                   *)
LEMMA LeadingIs ==
  ASSUME NEW k \in Nat, NEW b \in Seq(Int), b = << >> \/ b[1] # Zero
  PROVE  LeadingZeros(Zeros(k) \o b) = k
<1> DEFINE text == Zeros(k) \o b
           P(j) == (\A i \in 1 .. j : text[i] = Zero) /\ (j < Len(text) => text[j + 1] # Zero)
<1>1. /\ Zeros(k) \in Seq(Int) /\ Len(Zeros(k)) = k /\ \A i \in 1 .. k : Zeros(k)[i] = Zero
  BY ZerosIs, FiguresInt
<1>2. /\ text \in Seq(Int) /\ Len(text) = k + Len(b) /\ Len(b) \in Nat
      /\ \A i \in 1 .. k : text[i] = Zero
      /\ \A i \in 1 .. Len(b) : text[k + i] = b[i]
  <2> HIDE DEF text
  <2>1. /\ text \in Seq(Int) /\ Len(text) = k + Len(b)
        /\ \A i \in 1 .. k : text[i] = Zeros(k)[i]
        /\ \A i \in 1 .. Len(b) : text[k + i] = b[i]
    <3> DEFINE z == Zeros(k)
    <3>1. z \in Seq(Int) /\ Len(z) = k
      BY <1>1
    <3> HIDE DEF z
    <3>2. /\ z \o b \in Seq(Int) /\ Len(z \o b) = Len(z) + Len(b)
          /\ \A i \in 1 .. Len(z) : (z \o b)[i] = z[i]
          /\ \A i \in 1 .. Len(b) : (z \o b)[Len(z) + i] = b[i]
      <4>1. z \in Seq(Int)
        BY <3>1
      <4> QED BY <4>1, Concat
    <3> QED BY <3>1, <3>2 DEF text, z
  <2> QED BY <2>1, <1>1
<1> HIDE DEF text
<1>3. k < Len(text) => text[k + 1] = b[1] /\ b # << >>
  BY <1>2
<1>4. P(k) /\ k \in 0 .. Len(text)
  BY <1>2, <1>3
<1>5. \A j \in 0 .. Len(text) : P(j) => j = k
  <2> SUFFICES ASSUME NEW j \in 0 .. Len(text), P(j) PROVE j = k
    OBVIOUS
  <2>1. ~(j < k)
    BY <1>2
  <2>2. ~(k < j)
    BY <1>3, <1>2
  <2> QED BY <2>1, <2>2
<1>6. LeadingZeros(text) = CHOOSE j \in 0 .. Len(text) : P(j)
  BY DEF LeadingZeros
<1> HIDE DEF P
<1>7. LeadingZeros(text) = k
  BY <1>4, <1>5, <1>6
<1> QED BY <1>7 DEF text

(* As many zeros at the end are found as were put there.                   *)
LEMMA TrailingIs ==
  ASSUME NEW k \in Nat, NEW b \in Seq(Int), b = << >> \/ b[Len(b)] # Zero
  PROVE  TrailingZeros(b \o Zeros(k)) = k
<1> DEFINE text == b \o Zeros(k)
           P(j) == /\ \A i \in Len(text) - j + 1 .. Len(text) : text[i] = Zero
                   /\ j < Len(text) => text[Len(text) - j] # Zero
<1>1. /\ Zeros(k) \in Seq(Int) /\ Len(Zeros(k)) = k /\ \A i \in 1 .. k : Zeros(k)[i] = Zero
  BY ZerosIs, FiguresInt
<1>2. /\ text \in Seq(Int) /\ Len(text) = Len(b) + k /\ Len(b) \in Nat
      /\ \A i \in 1 .. Len(b) : text[i] = b[i]
      /\ \A i \in Len(b) + 1 .. Len(b) + k : text[i] = Zero
  <2> HIDE DEF text
  <2>1. /\ text \in Seq(Int) /\ Len(text) = Len(b) + k /\ Len(b) \in Nat
        /\ \A i \in 1 .. Len(b) : text[i] = b[i]
        /\ \A i \in 1 .. k : text[Len(b) + i] = Zeros(k)[i]
    <3> DEFINE z == Zeros(k)
    <3>1. z \in Seq(Int) /\ Len(z) = k
      BY <1>1
    <3> HIDE DEF z
    <3>2. /\ b \o z \in Seq(Int) /\ Len(b \o z) = Len(b) + Len(z)
          /\ \A i \in 1 .. Len(b) : (b \o z)[i] = b[i]
          /\ \A i \in 1 .. Len(z) : (b \o z)[Len(b) + i] = z[i]
      <4>1. z \in Seq(Int)
        BY <3>1
      <4> QED BY <4>1, Concat
    <3> QED BY <3>1, <3>2 DEF text, z
  <2>2. ASSUME NEW i \in Len(b) + 1 .. Len(b) + k PROVE text[i] = Zero
    <3>1. i - Len(b) \in 1 .. k /\ Len(b) + (i - Len(b)) = i
      BY <2>1
    <3> QED BY <3>1, <2>1, <1>1
  <2> QED BY <2>1, <2>2
<1> HIDE DEF text
<1>3. k < Len(text) => text[Len(text) - k] = b[Len(b)] /\ b # << >>
  <2>1. Len(text) - k = Len(b)
    BY <1>2
  <2>2. k < Len(text) => Len(b) \in 1 .. Len(b) /\ b # << >>
    BY <1>2
  <2> QED BY <2>1, <2>2, <1>2
<1>4. P(k) /\ k \in 0 .. Len(text)
  BY <1>2, <1>3
<1>5. \A j \in 0 .. Len(text) : P(j) => j = k
  <2> SUFFICES ASSUME NEW j \in 0 .. Len(text), P(j) PROVE j = k
    OBVIOUS
  <2>1. ~(j < k)
    <3>1. j < k => j < Len(text) /\ Len(text) - j \in Len(b) + 1 .. Len(b) + k
      BY <1>2
    <3> QED BY <3>1, <1>2
  <2>2. ~(k < j)
    BY <1>3, <1>2
  <2> QED BY <2>1, <2>2
<1>6. TrailingZeros(text) = CHOOSE j \in 0 .. Len(text) : P(j)
  BY DEF TrailingZeros
<1> HIDE DEF P
<1>7. TrailingZeros(text) = k
  BY <1>4, <1>5, <1>6
<1> QED BY <1>7 DEF text

(* The tail of a text is what follows its first character.                 *)
LEMMA TailIs ==
  ASSUME NEW c \in Int, NEW t \in Seq(Int)
  PROVE  /\ Tail(<<c>> \o t) = t /\ (<<c>> \o t)[1] = c /\ <<c>> \o t # << >>
         /\ <<c>> \o t \in Seq(Int) /\ Len(<<c>> \o t) = 1 + Len(t)
<1> DEFINE r == Tail(<<c>> \o t)
<1>1. /\ <<c>> \o t \in Seq(Int) /\ Len(<<c>> \o t) = 1 + Len(t) /\ Len(t) \in Nat
      /\ (<<c>> \o t)[1] = c /\ <<c>> \o t # << >>
      /\ \A i \in 1 .. Len(t) : (<<c>> \o t)[1 + i] = t[i]
  OBVIOUS
<1>2. r \in Seq(Int) /\ Len(r) = Len(t) /\ \A i \in 1 .. Len(t) : r[i] = (<<c>> \o t)[1 + i]
  BY <1>1
<1> HIDE DEF r
<1>3. r = t
  BY <1>1, <1>2, SameSequence
<1> QED BY <1>1, <1>3 DEF r

(* Figures hold nothing else.                                              *)
LEMMA FiguresHold ==
  ASSUME NEW t \in Seq(Figure), NEW c, c \notin Figure
  PROVE  ~Holds(t, c)
BY DEF Holds

(* Figures without a sign are parsed as they are.                          *)
LEMMA ParsedPlain ==
  ASSUME NEW t \in Seq(Figure)
  PROVE  Parsed(t) = Figures(t)
<1>1. t # << >> => t[1] \in Figure
  OBVIOUS
<1>2. ~(t # << >> /\ t[1] \in {Plus, Minus})
  BY <1>1, FigureInt
<1> QED BY <1>2 DEF Parsed

(* No text is parsed as 0.                                                 *)
LEMMA ParsedEmpty == Parsed(<< >>) = 0
BY FiguresEmpty DEF Parsed

(* Signs, point, exponent and zero are code points.                        *)
LEMMA SignsInt == Plus \in Int /\ Minus \in Int /\ Point \in Int /\ Exponent \in Int /\ Zero \in Int
                  /\ Plus # Minus
BY DEF Plus, Minus, Point, Exponent, Zero

(* An exponent with a plus is parsed as it was written.                    *)
LEMMA ParsedPlus ==
  ASSUME NEW n \in 0 .. MaxInteger
  PROVE  Parsed(<<Plus>> \o Decimal[n]) = n
<1>1. Decimal[n] \in Seq(Int) /\ Figures(Decimal[n]) = n
  BY DecimalIs, FiguresInt DEF DecimalRight
<1> DEFINE text == <<Plus>> \o Decimal[n]
<1>2. text # << >> /\ text[1] = Plus /\ Tail(text) = Decimal[n]
  BY <1>1, TailIs, SignsInt
<1> HIDE DEF text
<1>3. Parsed(text) = 1 * Figures(Tail(text))
  BY <1>2, SignsInt DEF Parsed
<1>4. 1 * n = n
  OBVIOUS
<1>5. Parsed(text) = n
  BY <1>1, <1>2, <1>3, <1>4
<1> QED BY <1>5 DEF text

(* An exponent with a minus is parsed as it was written.                   *)
LEMMA ParsedMinus ==
  ASSUME NEW n \in 0 .. MaxInteger
  PROVE  Parsed(<<Minus>> \o Decimal[n]) = -n
<1>1. Decimal[n] \in Seq(Int) /\ Figures(Decimal[n]) = n
  BY DecimalIs, FiguresInt DEF DecimalRight
<1> DEFINE text == <<Minus>> \o Decimal[n]
<1>2. text # << >> /\ text[1] = Minus /\ Tail(text) = Decimal[n]
  BY <1>1, TailIs, SignsInt
<1> HIDE DEF text
<1>3. Parsed(text) = (-1) * Figures(Tail(text))
  BY <1>2, SignsInt DEF Parsed
<1>4. (-1) * n = -n
  OBVIOUS
<1>5. Parsed(text) = -n
  BY <1>1, <1>2, <1>3, <1>4
<1> QED BY <1>5 DEF text

(* A signed integer is parsed as it was written.                           *)
LEMMA SignedIs ==
  ASSUME NEW n \in -MaxInteger .. MaxInteger
  PROVE  Signed(n) \in Seq(Int) /\ Parsed(Signed(n)) = n
<1>1. MaxInteger \in Nat
  BY JcsAssumption
<1>2. CASE n < 0
  <2>1. -n \in 0 .. MaxInteger /\ -(-n) = n
    BY <1>1, <1>2
  <2>2. Signed(n) = <<Minus>> \o Decimal[-n]
    BY <1>2 DEF Signed
  <2>3. Decimal[-n] \in Seq(Int)
    BY <2>1, DecimalIs, FiguresInt DEF DecimalRight
  <2> QED BY <2>1, <2>2, <2>3, ParsedMinus, TailIs, SignsInt
<1>3. CASE ~(n < 0)
  <2>1. n \in 0 .. MaxInteger /\ Signed(n) = Decimal[n]
    BY <1>1, <1>3 DEF Signed
  <2> QED BY <2>1, DecimalIs, FiguresInt, ParsedPlain DEF DecimalRight
<1> QED BY <1>2, <1>3

(* Digits of a double: no zero in front or behind.                         *)
SomeShortest == Shortest \ {<< >>}

(* Shortest digits are figures with no zero in front or behind.            *)
LEMMA ShortestIs ==
  ASSUME NEW d \in SomeShortest
  PROVE  /\ d \in Seq(Figure) /\ d \in Seq(Int) /\ d # << >> /\ Len(d) \in Nat /\ Len(d) >= 1
         /\ d[1] # Zero /\ d[Len(d)] # Zero
<1>1. d \in Seq(Figure) /\ d # << >> /\ d[1] # Zero /\ d[Len(d)] # Zero
  BY DEF SomeShortest, Shortest
<1> QED BY <1>1, FiguresInt

(* A text in the middle of two others.                                     *)
LEMMA MiddleIs ==
  ASSUME NEW z \in Seq(Int), NEW d \in Seq(Int), NEW y \in Seq(Int)
  PROVE  LET t == z \o (d \o y)
         IN  /\ t \in Seq(Int) /\ Len(t) = Len(z) + (Len(d) + Len(y))
             /\ t = (z \o d) \o y
             /\ z \o d \in Seq(Int) /\ Len(z \o d) = Len(z) + Len(d)
             /\ d \o y \in Seq(Int) /\ Len(d \o y) = Len(d) + Len(y)
             /\ \A i \in 1 .. Len(d) : /\ t[Len(z) + i] = d[i] /\ (z \o d)[Len(z) + i] = d[i]
                                       /\ (d \o y)[i] = d[i]
<1> DEFINE b == d \o y
<1>1. b \in Seq(Int) /\ Len(b) = Len(d) + Len(y) /\ \A i \in 1 .. Len(d) : b[i] = d[i]
  BY TextConcat, Zenon
<1>2. z \o d \in Seq(Int) /\ Len(z \o d) = Len(z) + Len(d)
      /\ \A i \in 1 .. Len(d) : (z \o d)[Len(z) + i] = d[i]
  BY TextConcat, Zenon
<1>3. z \o b = (z \o d) \o y
  BY TextAssociates, Zenon
<1> HIDE DEF b
<1>4. /\ z \o b \in Seq(Int) /\ Len(z \o b) = Len(z) + Len(b)
      /\ \A i \in 1 .. Len(b) : (z \o b)[Len(z) + i] = b[i]
  BY <1>1, TextConcat, Zenon
<1>5. ASSUME NEW i \in 1 .. Len(d) PROVE (z \o b)[Len(z) + i] = d[i]
  <2>1. i \in 1 .. Len(b)
    <3>1. Len(d) \in Nat /\ Len(y) \in Nat
      OBVIOUS
    <3> QED BY <3>1, <1>1
  <2> QED BY <2>1, <1>1, <1>4
<1> QED BY <1>1, <1>2, <1>3, <1>4, <1>5 DEF b

(* Shortest digits between zeros.                                          *)
LEMMA FiguresParts ==
  ASSUME NEW d \in SomeShortest, NEW lead \in Nat, NEW trail \in Nat
  PROVE  LET figures == Zeros(lead) \o (d \o Zeros(trail))
         IN  /\ LeadingZeros(figures) = lead /\ TrailingZeros(figures) = trail
             /\ SubSeq(figures, lead + 1, Len(figures) - trail) = d
<1> DEFINE z == Zeros(lead)
           y == Zeros(trail)
           figures == z \o (d \o y)
           b == z \o d
           c == d \o y
<1>1. z \in Seq(Int) /\ Len(z) = lead /\ y \in Seq(Int) /\ Len(y) = trail
  BY ZerosIs, FiguresInt
<1>2. /\ d \in Seq(Int) /\ d # << >> /\ d[1] # Zero /\ d[Len(d)] # Zero
      /\ Len(d) \in Nat /\ Len(d) >= 1 /\ 1 \in 1 .. Len(d) /\ Len(d) \in 1 .. Len(d)
  BY ShortestIs
<1> HIDE DEF z, y
<1>3. /\ figures \in Seq(Int) /\ Len(figures) = lead + (Len(d) + trail)
      /\ figures = b \o y /\ b \in Seq(Int) /\ Len(b) = lead + Len(d) /\ c \in Seq(Int)
      /\ \A i \in 1 .. Len(d) : figures[lead + i] = d[i] /\ b[lead + i] = d[i] /\ c[i] = d[i]
  <2>1. /\ figures \in Seq(Int) /\ Len(figures) = Len(z) + (Len(d) + Len(y))
        /\ figures = b \o y /\ b \in Seq(Int) /\ Len(b) = Len(z) + Len(d)
        /\ c \in Seq(Int)
        /\ \A i \in 1 .. Len(d) : /\ figures[Len(z) + i] = d[i] /\ b[Len(z) + i] = d[i]
                                  /\ c[i] = d[i]
    BY <1>1, <1>2, MiddleIs, Zenon
  <2> HIDE DEF figures, b, c
  <2> QED BY <2>1, <1>1
<1>4. figures = z \o c
  OBVIOUS
<1> HIDE DEF figures, b, c
<1>5. LeadingZeros(figures) = lead
  <2>1. c[1] # Zero
    BY <1>2, <1>3
  <2>2. LeadingZeros(Zeros(lead) \o c) = lead
    BY <2>1, <1>3, LeadingIs
  <2> QED BY <2>2, <1>4 DEF z
<1>6. TrailingZeros(figures) = trail
  <2>1. b[Len(b)] # Zero
    BY <1>2, <1>3
  <2>2. TrailingZeros(b \o Zeros(trail)) = trail
    BY <2>1, <1>3, TrailingIs
  <2> QED BY <2>2, <1>3 DEF y
<1>7. SubSeq(figures, lead + 1, Len(figures) - trail) = d
  <2> DEFINE r == SubSeq(figures, lead + 1, Len(figures) - trail)
  <2>1. /\ lead + 1 \in 1 .. Len(figures) + 1
        /\ Len(figures) - trail \in (lead + 1) - 1 .. Len(figures)
        /\ (Len(figures) - trail) - (lead + 1) + 1 = Len(d)
        /\ \A i \in 1 .. Len(d) : (lead + 1) - 1 + i = lead + i
    BY <1>2, <1>3
  <2>2. /\ r \in Seq(Int) /\ Len(r) = (Len(figures) - trail) - (lead + 1) + 1
        /\ \A i \in 1 .. (Len(figures) - trail) - (lead + 1) + 1 :
             r[i] = figures[(lead + 1) - 1 + i]
    BY <1>3, <2>1, TextCut, Zenon
  <2>3. /\ r \in Seq(Int) /\ Len(r) = Len(d) /\ \A i \in 1 .. Len(d) : r[i] = d[i]
    BY <2>1, <2>2, <1>3
  <2> HIDE DEF r
  <2>4. r = d
    BY <2>3, <1>2, SameSequence
  <2> QED BY <2>4 DEF r
<1> QED BY <1>5, <1>6, <1>7 DEF figures, z, y

(* How a reader takes a number apart.                                      *)
LEMMA NumberParts ==
  ASSUME NEW body \in Seq(Int), body # << >>, body[1] # Minus, NEW d \in SomeShortest,
         NEW lead \in Nat, NEW trail \in Nat,
         Without(Before(body, Exponent), Point) = Zeros(lead) \o (d \o Zeros(trail))
  PROVE  LET power == Len(Before(Before(body, Exponent), Point)) - lead - 1
                        + Parsed(After(body, Exponent))
         IN  /\ NumberOf(body) = <<"number", FALSE, d, power>>
             /\ NumberOf(<<Minus>> \o body) = <<"number", TRUE, d, power>>
<1> DEFINE figures == Zeros(lead) \o (d \o Zeros(trail))
           power == Len(Before(Before(body, Exponent), Point)) - lead - 1
                      + Parsed(After(body, Exponent))
<1>1. d # << >>
  BY ShortestIs
<1>2. /\ LeadingZeros(figures) = lead /\ TrailingZeros(figures) = trail
      /\ SubSeq(figures, lead + 1, Len(figures) - trail) = d
  BY FiguresParts
<1> HIDE DEF figures
<1>3. Without(Before(body, Exponent), Point) = figures
  BY DEF figures
<1>4. NumberOf(body) = <<"number", FALSE, d, power>>
  BY <1>1, <1>2, <1>3, Zenon DEF NumberOf
<1>5. /\ <<Minus>> \o body \in Seq(Int) /\ (<<Minus>> \o body)[1] = Minus
      /\ Tail(<<Minus>> \o body) = body
  BY TailIs, SignsInt
<1>6. NumberOf(<<Minus>> \o body) = <<"number", TRUE, d, power>>
  BY <1>1, <1>2, <1>3, <1>5, Zenon DEF NumberOf
<1> QED BY <1>4, <1>6

(* No zeros, and one.                                                      *)
LEMMA ZerosNone == Zeros(0) = << >> /\ Zeros(1) = <<Zero>>
<1>1. Zeros(0) = << >>
  BY DEF Zeros
<1>2. Zeros(1) = [i \in 1 .. 1 |-> Zero]
  BY DEF Zeros
<1>3. <<Zero>> = [i \in 1 .. 1 |-> Zero]
  OBVIOUS
<1> QED BY <1>1, <1>2, <1>3

(* Digits without a zero in front are shortest digits and zeros.           *)
LEMMA StrippedIs ==
  ASSUME NEW t \in Seq(Figure), t # << >>, t[1] # Zero
  PROVE  \E d \in SomeShortest, k \in Nat : t = d \o Zeros(k) /\ Len(t) = Len(d) + k
<1> DEFINE K == {k \in Nat : k < Len(t) /\ t[Len(t) - k] # Zero}
<1>1. Len(t) \in Nat /\ Len(t) >= 1
  OBVIOUS
<1>2. Len(t) - 1 \in K
  <2>1. Len(t) - (Len(t) - 1) = 1 /\ Len(t) - 1 \in Nat /\ Len(t) - 1 < Len(t)
    BY <1>1
  <2> QED BY <2>1
<1>3. PICK k \in K : \A y \in K : k <= y
  <2>1. K \subseteq Nat /\ K # {}
    BY <1>2
  <2> HIDE DEF K
  <2> QED BY <2>1, LeastElement
<1>4. k \in Nat /\ k < Len(t) /\ t[Len(t) - k] # Zero
  BY <1>3
<1>5. ASSUME NEW i \in Len(t) - k + 1 .. Len(t) PROVE t[i] = Zero
  <2>1. Len(t) - i \in Nat /\ Len(t) - i < k /\ Len(t) - (Len(t) - i) = i
    BY <1>1, <1>4
  <2>2. Len(t) - i \notin K
    <3>1. ~(k <= Len(t) - i)
      BY <2>1, <1>4
    <3> HIDE DEF K
    <3> QED BY <3>1, <1>3
  <2> QED BY <2>1, <2>2, <1>1, <1>4
<1> DEFINE d == SubSeq(t, 1, Len(t) - k)
<1>6. /\ d \in Seq(Figure) /\ Len(d) = Len(t) - k /\ \A i \in 1 .. Len(t) - k : d[i] = t[i]
  <2>1. 1 \in 1 .. Len(t) + 1 /\ Len(t) - k \in 1 - 1 .. Len(t) /\ (Len(t) - k) - 1 + 1 = Len(t) - k
    BY <1>1, <1>4
  <2>2. \A i \in 1 .. Len(t) - k : 1 - 1 + i = i
    BY <1>1
  <2>3. /\ d \in Seq(Figure) /\ Len(d) = Len(t) - k /\ \A i \in 1 .. Len(t) - k : d[i] = t[1 - 1 + i]
    <3>1. /\ d \in Seq(Figure) /\ Len(d) = (Len(t) - k) - 1 + 1
          /\ \A i \in 1 .. (Len(t) - k) - 1 + 1 : d[i] = t[1 - 1 + i]
      BY <2>1, CutIs
    <3> QED BY <3>1, <2>1
  <2> QED BY <2>2, <2>3
<1> HIDE DEF d
<1>7. d \in SomeShortest
  <2>1. Len(d) \in 1 .. Len(t) - k /\ 1 \in 1 .. Len(t) - k /\ d # << >>
    BY <1>1, <1>4, <1>6
  <2>2. d[1] # Zero /\ d[Len(d)] # Zero
    BY <2>1, <1>4, <1>6
  <2> QED BY <2>1, <2>2, <1>6 DEF SomeShortest, Shortest
<1>8. t = d \o Zeros(k)
  <2> DEFINE z == Zeros(k)
  <2>1. z \in Seq(Figure) /\ Len(z) = k /\ \A i \in 1 .. k : z[i] = Zero
    BY <1>4, ZerosIs
  <2> HIDE DEF z
  <2>2. d \o z \in Seq(Figure) /\ Len(d \o z) = Len(t)
    BY <2>1, <1>1, <1>4, <1>6
  <2>3. ASSUME NEW i \in 1 .. Len(t) PROVE (d \o z)[i] = t[i]
    <3>1. CASE i <= Len(t) - k
      <4>1. i \in 1 .. Len(d)
        BY <3>1, <1>1, <1>4, <1>6
      <4>2. (d \o z)[i] = d[i]
        BY <4>1, <2>1, <1>6, Concat
      <4> QED BY <4>1, <4>2, <1>6
    <3>2. CASE i > Len(t) - k
      <4>1. /\ i - Len(d) \in 1 .. k /\ Len(d) + (i - Len(d)) = i /\ i \in Len(t) - k + 1 .. Len(t)
        BY <3>2, <1>1, <1>4, <1>6
      <4> DEFINE j == i - Len(d)
      <4>2. j \in 1 .. Len(z) /\ Len(d) + j = i
        BY <4>1, <2>1
      <4> HIDE DEF j
      <4>3. (d \o z)[Len(d) + j] = z[j]
        <5>1. d \in Seq(Figure) /\ z \in Seq(Figure)
          BY <2>1, <1>6
        <5> QED BY <4>2, <5>1, Concat
      <4>4. t[i] = Zero /\ z[j] = Zero
        BY <4>1, <4>2, <2>1, <1>5
      <4>5. (d \o z)[i] = z[j]
        BY <4>2, <4>3
      <4> QED BY <4>4, <4>5
    <3>3. i <= Len(t) - k \/ i > Len(t) - k
      BY <1>1, <1>4
    <3> QED BY <3>1, <3>2, <3>3
  <2>4. t = d \o z
    BY <2>2, <2>3, SameSequence
  <2> QED BY <2>4 DEF z
<1>9. Len(t) = Len(d) + k
  BY <1>1, <1>4, <1>6
<1> QED BY <1>4, <1>7, <1>8, <1>9

(* A reader finds the integer that was written.                            *)
LEMMA IntegerReads ==
  ASSUME NEW n \in 0 .. MaxInteger
  PROVE  LET v == NumberOf(Signed(n))
         IN  v[1] = "number" /\ Parsed(v[3] \o Zeros(v[4] + 1 - Len(v[3]))) = n
<1> DEFINE t == Decimal[n]
<1>1. /\ t \in Seq(Figure) /\ t \in Seq(Int) /\ Len(t) >= 1 /\ t # << >>
      /\ (n = 0 => t = <<Zero>>) /\ (n # 0 => t[1] # Zero) /\ Figures(t) = n /\ Len(t) \in Nat
  <2>1. DecimalRight(n)
    BY DecimalIs
  <2>2. t \in Seq(Figure) /\ Len(t) >= 1
    BY <2>1 DEF DecimalRight
  <2> QED BY <2>1, <2>2, FiguresInt DEF DecimalRight
<1>2. Signed(n) = t
  <2>1. ~(n < 0)
    OBVIOUS
  <2> QED BY <2>1 DEF Signed
<1> HIDE DEF t
<1>3. t[1] # Minus
  BY <1>1, FigureInt
<1>4. Before(t, Exponent) = t /\ After(t, Exponent) = << >>
      /\ Before(t, Point) = t /\ Without(t, Point) = t
  BY <1>1, FiguresHold, FigureInt, BeforeNone
<1>5. CASE n = 0
  <2>1. t = <<Zero>> /\ Len(t) = 1
    BY <1>1, <1>5
  <2>2. LeadingZeros(t) = 1
    <3>1. Zeros(1) \o << >> = t /\ << >> \in Seq(Int)
      BY <2>1, ZerosNone
    <3>2. LeadingZeros(Zeros(1) \o << >>) = 1
      BY <3>1, LeadingIs
    <3> QED BY <3>1, <3>2
  <2>3. TrailingZeros(t) = 1
    <3>1. << >> \o Zeros(1) = t /\ << >> \in Seq(Int)
      BY <2>1, ZerosNone
    <3>2. TrailingZeros(<< >> \o Zeros(1)) = 1
      BY <3>1, TrailingIs
    <3> QED BY <3>1, <3>2
  <2>4. SubSeq(t, 1 + 1, Len(t) - 1) = << >>
    BY <2>1
  <2>5. NumberOf(t) = <<"number", FALSE, << >>, 0>>
    BY <1>3, <1>4, <2>2, <2>3, <2>4, Zenon DEF NumberOf
  <2>6. << >> \o Zeros(0 + 1 - Len(<< >>)) = t
    <3>1. 0 + 1 - Len(<< >>) = 1
      OBVIOUS
    <3> QED BY <3>1, <2>1, ZerosNone
  <2>7. Parsed(t) = n
    BY <1>1, ParsedPlain
  <2> QED BY <1>2, <2>5, <2>6, <2>7
<1>6. CASE n # 0
  <2>1. PICK d \in SomeShortest, k \in Nat : t = d \o Zeros(k) /\ Len(t) = Len(d) + k
    BY <1>1, <1>6, StrippedIs
  <2>2. Len(d) \in Nat /\ d \in Seq(Int)
    BY ShortestIs
  <2>3. Zeros(0) \o (d \o Zeros(k)) = t
    BY <1>1, <2>1, ZerosNone, ConcatEmpty
  <2>4. NumberOf(t) = <<"number", FALSE, d, Len(t) - 0 - 1 + 0>>
    <3>1. Without(Before(t, Exponent), Point) = Zeros(0) \o (d \o Zeros(k))
      BY <1>4, <2>3
    <3>2. NumberOf(t) = <<"number", FALSE, d, Len(Before(Before(t, Exponent), Point)) - 0 - 1
                                                + Parsed(After(t, Exponent))>>
      BY <3>1, <1>1, <1>3, NumberParts
    <3>3. Before(Before(t, Exponent), Point) = t /\ Parsed(After(t, Exponent)) = 0
      BY <1>4, ParsedEmpty
    <3> QED BY <3>2, <3>3
  <2>5. (Len(t) - 0 - 1 + 0) + 1 - Len(d) = k
    BY <1>1, <2>1, <2>2
  <2>6. Parsed(t) = n
    BY <1>1, ParsedPlain
  <2> QED BY <1>2, <2>1, <2>4, <2>5, <2>6
<1> QED BY <1>5, <1>6

(* The integer 0 is read as the number 0.                                  *)
LEMMA ZeroReads == NumberOf(<<Zero>>) = <<"number", FALSE, << >>, 0>>
<1> DEFINE t == <<Zero>>
<1>1. t \in Seq(Figure) /\ t \in Seq(Int) /\ t[1] = Zero /\ Len(t) = 1
  BY FigureInt, SignsInt
<1>2. t[1] # Minus
  BY <1>1, FigureInt
<1>3. Zeros(1) \o << >> = t /\ << >> \o Zeros(1) = t /\ << >> \in Seq(Int)
  BY ZerosNone
<1> HIDE DEF t
<1>4. Before(t, Exponent) = t /\ After(t, Exponent) = << >>
      /\ Before(t, Point) = t /\ Without(t, Point) = t
  BY <1>1, FiguresHold, FigureInt, BeforeNone
<1>5. LeadingZeros(t) = 1
  <2>1. LeadingZeros(Zeros(1) \o << >>) = 1
    BY <1>3, LeadingIs
  <2> QED BY <2>1, <1>3
<1>6. TrailingZeros(t) = 1
  <2>1. TrailingZeros(<< >> \o Zeros(1)) = 1
    BY <1>3, TrailingIs
  <2> QED BY <2>1, <1>3
<1>7. SubSeq(t, 1 + 1, Len(t) - 1) = << >>
  BY <1>1
<1>8. NumberOf(t) = <<"number", FALSE, << >>, 0>>
  BY <1>2, <1>4, <1>5, <1>6, <1>7, Zenon DEF NumberOf
<1> QED BY <1>8 DEF t

(* A text of digits, and one with a point.                                 *)
LEMMA PlainParts ==
  ASSUME NEW body \in Seq(Figure)
  PROVE  /\ body \in Seq(Int) /\ ~Holds(body, Exponent) /\ ~Holds(body, Point)
         /\ Before(body, Exponent) = body /\ After(body, Exponent) = << >>
         /\ Before(body, Point) = body /\ After(body, Point) = << >> /\ Without(body, Point) = body
BY FiguresInt, FiguresHold, FigureInt, BeforeNone

(* What is before and after the one point of a text.                       *)
LEMMA PointedParts ==
  ASSUME NEW a \in Seq(Figure), NEW b \in Seq(Figure)
  PROVE  LET body == a \o <<Point>> \o b
         IN  /\ body \in Seq(Int) /\ ~Holds(body, Exponent)
             /\ Before(body, Exponent) = body /\ After(body, Exponent) = << >>
             /\ Before(body, Point) = a /\ After(body, Point) = b /\ Without(body, Point) = a \o b
<1> DEFINE body == a \o <<Point>> \o b
<1>1. a \in Seq(Int) /\ b \in Seq(Int) /\ <<Point>> \in Seq(Int)
  BY FiguresInt, SignsInt
<1>2. ~Holds(a, Point) /\ ~Holds(a, Exponent) /\ ~Holds(b, Exponent)
  BY FiguresHold, FigureInt
<1>3. ~Holds(<<Point>>, Exponent)
  BY DEF Holds, Point, Exponent
<1>4. a \o <<Point>> \in Seq(Int) /\ body \in Seq(Int)
  BY <1>1
<1>5. ~Holds(a \o <<Point>>, Exponent)
  BY <1>1, <1>2, <1>3, ConcatHolds
<1>6. ~Holds(body, Exponent)
  BY <1>1, <1>2, <1>4, <1>5, ConcatHolds
<1>7. Before(body, Point) = a /\ After(body, Point) = b /\ Without(body, Point) = a \o b
  BY <1>1, <1>2, SignsInt, BeforeIs
<1> HIDE DEF body
<1>8. Before(body, Exponent) = body /\ After(body, Exponent) = << >>
  BY <1>4, <1>6, BeforeNone
<1> QED BY <1>4, <1>6, <1>7, <1>8 DEF body

(* A text in two parts.                                                    *)
LEMMA SplitIs ==
  ASSUME NEW S, NEW d \in Seq(S), NEW n \in 0 .. Len(d)
  PROVE  /\ SubSeq(d, 1, n) \in Seq(S) /\ SubSeq(d, n + 1, Len(d)) \in Seq(S)
         /\ Len(SubSeq(d, 1, n)) = n
         /\ Len(SubSeq(d, n + 1, Len(d))) = Len(d) - n
         /\ \A i \in 1 .. n : SubSeq(d, 1, n)[i] = d[i]
         /\ \A i \in 1 .. Len(d) - n : SubSeq(d, n + 1, Len(d))[i] = d[n + i]
         /\ SubSeq(d, 1, n) \o SubSeq(d, n + 1, Len(d)) = d
<1> DEFINE a == SubSeq(d, 1, n)
           b == SubSeq(d, n + 1, Len(d))
<1>0. Len(d) \in Nat
  OBVIOUS
<1>1. a \in Seq(S) /\ Len(a) = n /\ \A i \in 1 .. n : a[i] = d[i]
  <2>1. 1 \in 1 .. Len(d) + 1 /\ n \in 1 - 1 .. Len(d) /\ n - 1 + 1 = n
    BY <1>0
  <2>2. /\ a \in Seq(S) /\ Len(a) = n - 1 + 1
        /\ \A i \in 1 .. n - 1 + 1 : a[i] = d[1 - 1 + i]
    BY <2>1, CutIs
  <2>3. \A i \in 1 .. n : 1 - 1 + i = i
    OBVIOUS
  <2> QED BY <2>1, <2>2, <2>3
<1>2. b \in Seq(S) /\ Len(b) = Len(d) - n /\ \A i \in 1 .. Len(d) - n : b[i] = d[n + i]
  <2>1. /\ n + 1 \in 1 .. Len(d) + 1 /\ Len(d) \in (n + 1) - 1 .. Len(d)
        /\ Len(d) - (n + 1) + 1 = Len(d) - n /\ (n + 1) - 1 = n
    BY <1>0
  <2>2. /\ b \in Seq(S) /\ Len(b) = Len(d) - (n + 1) + 1
        /\ \A i \in 1 .. Len(d) - (n + 1) + 1 : b[i] = d[(n + 1) - 1 + i]
    BY <2>1, CutIs
  <2> QED BY <2>1, <2>2
<1> HIDE DEF a, b
<1>3. a \o b = d
  <2>1. /\ a \o b \in Seq(S) /\ Len(a \o b) = Len(d)
        /\ \A i \in 1 .. n : (a \o b)[i] = a[i]
        /\ \A i \in n + 1 .. Len(d) : (a \o b)[i] = b[i - n]
    BY <1>0, <1>1, <1>2
  <2>2. ASSUME NEW i \in 1 .. Len(d) PROVE (a \o b)[i] = d[i]
    <3>1. CASE i <= n
      BY <3>1, <2>1, <1>1
    <3>2. CASE i > n
      <4>1. i \in n + 1 .. Len(d) /\ i - n \in 1 .. Len(d) - n /\ n + (i - n) = i
        BY <3>2, <1>0
      <4>2. b[i - n] = d[n + (i - n)]
        BY <4>1, <1>2
      <4> QED BY <4>1, <4>2, <2>1
    <3>3. i <= n \/ i > n
      BY <1>0
    <3> QED BY <3>1, <3>2, <3>3
  <2> QED BY <2>1, <2>2, SameSequence
<1> QED BY <1>1, <1>2, <1>3 DEF a, b

(* Three sequences start like the first.                                   *)
LEMMA ThreeInRow ==
  ASSUME NEW S, NEW s \in Seq(S), NEW t \in Seq(S), NEW u \in Seq(S), Len(s) >= 1
  PROVE  s \o t \o u \in Seq(S) /\ s \o t \o u # << >> /\ (s \o t \o u)[1] = s[1]
<1>1. s \o t \in Seq(S) /\ Len(s \o t) >= 1 /\ (s \o t)[1] = s[1]
  OBVIOUS
<1> DEFINE r == s \o t
<1>2. r \in Seq(S) /\ Len(r) >= 1 /\ r[1] = s[1]
  BY <1>1
<1> HIDE DEF r
<1>3. r \o u \in Seq(S) /\ r \o u # << >> /\ (r \o u)[1] = s[1]
  BY <1>2
<1> QED BY <1>3 DEF r

(* A zero and zeros are one zero more.                                     *)
LEMMA ZeroZeros == \A k \in Nat : <<Zero>> \o Zeros(k) = Zeros(k + 1)
<1> TAKE k \in Nat
<1> DEFINE z == Zeros(k)
           y == Zeros(k + 1)
<1>1. z \in Seq(Figure) /\ Len(z) = k /\ \A i \in 1 .. k : z[i] = Zero
  BY ZerosIs
<1>2. y \in Seq(Figure) /\ Len(y) = k + 1 /\ \A i \in 1 .. k + 1 : y[i] = Zero
  BY ZerosIs
<1> HIDE DEF z, y
<1>3. <<Zero>> \o z \in Seq(Figure) /\ Len(<<Zero>> \o z) = k + 1
      /\ \A i \in 1 .. k + 1 : (<<Zero>> \o z)[i] = IF i = 1 THEN Zero ELSE z[i - 1]
  BY <1>1, FigureInt
<1>4. \A i \in 1 .. k + 1 : (<<Zero>> \o z)[i] = y[i]
  BY <1>1, <1>2, <1>3
<1>5. <<Zero>> \o z = y
  BY <1>2, <1>3, <1>4, SameSequence
<1> QED BY <1>5 DEF z, y

(* Nothing follows one.                                                    *)
LEMMA TailNone ==
  ASSUME NEW S, NEW t \in Seq(S), Len(t) = 1
  PROVE  Tail(t) = << >>
<1>1. Tail(t) \in Seq(S) /\ Len(Tail(t)) = 0
  OBVIOUS
<1>2. << >> \in Seq(S) /\ Len(<< >>) = 0
  OBVIOUS
<1> DEFINE u == Tail(t)
<1> HIDE DEF u
<1>3. u \in Seq(S) /\ Len(u) = 0
  BY <1>1 DEF u
<1>4. u = << >>
  BY <1>3, <1>2
<1> QED BY <1>4 DEF u

(* Digits with a point after the first: without it they are the digits.    *)
LEMMA ScientificIs ==
  ASSUME NEW d \in SomeShortest
  PROVE  LET s == Scientific(d)
         IN  /\ s \in Seq(Figure \union {Point}) /\ s \in Seq(Int) /\ s # << >> /\ s[1] \in Figure
             /\ ~Holds(s, Exponent)
             /\ Without(s, Point) = d /\ Len(Before(s, Point)) = 1
<1>1. /\ d \in Seq(Figure) /\ d \in Seq(Int) /\ Len(d) \in Nat /\ Len(d) >= 1 /\ d[1] \in Figure
  BY ShortestIs
<1> DEFINE a == <<d[1]>>
           b == Tail(d)
<1>2. /\ a \in Seq(Figure) /\ a \in Seq(Int) /\ Len(a) = 1 /\ a[1] = d[1]
      /\ b \in Seq(Figure) /\ b \in Seq(Int) /\ d = a \o b
  <2>1. a \in Seq(Figure) /\ Len(a) = 1 /\ a[1] = d[1]
    BY <1>1
  <2>2. b \in Seq(Figure)
    BY <1>1
  <2>3. d = a \o b
    BY <1>1
  <2> QED BY <2>1, <2>2, <2>3, FiguresInt
<1> HIDE DEF a, b
<1>3. CASE Len(d) > 1
  <2> DEFINE s == a \o <<Point>> \o b
  <2>1. Scientific(d) = s
    <3>1. Scientific(d) = a \o (<<Point>> \o b)
      BY <1>3 DEF Scientific, a, b
    <3>2. <<Point>> \in Seq(Int)
      BY SignsInt
    <3> QED BY <3>1, <3>2, <1>2, TextAssociates
  <2>2. /\ s \in Seq(Int) /\ ~Holds(s, Exponent) /\ Before(s, Point) = a
        /\ Without(s, Point) = a \o b
    BY <1>2, PointedParts
  <2>3. s \in Seq(Figure \union {Point}) /\ s # << >> /\ s[1] = a[1]
    <3> DEFINE F == Figure \union {Point}
    <3>1. a \in Seq(F) /\ b \in Seq(F) /\ <<Point>> \in Seq(F) /\ Len(a) = 1
      BY <1>2
    <3> HIDE DEF F
    <3>2. /\ a \o <<Point>> \o b \in Seq(F) /\ a \o <<Point>> \o b # << >>
          /\ (a \o <<Point>> \o b)[1] = a[1]
      BY <3>1, ThreeInRow
    <3> QED BY <3>2 DEF F
  <2> QED BY <2>1, <2>2, <2>3, <1>1, <1>2
<1>4. CASE ~(Len(d) > 1)
  <2>1. b = << >>
    <3>1. d \in Seq(Figure) /\ Len(d) \in Nat /\ Len(d) >= 1
      BY <1>1
    <3>2. Len(d) = 1
      <4>1. \A n \in Nat : n >= 1 /\ ~(n > 1) => n = 1
        OBVIOUS
      <4> QED BY <3>1, <4>1, <1>4, Zenon
    <3>3. Tail(d) = << >>
      BY <3>1, <3>2, TailNone
    <3> QED BY <3>3 DEF b
  <2>2. Scientific(d) = a
    BY <1>2, <1>4 DEF Scientific, a
  <2>3. d = a
    BY <2>1, <1>2
  <2>4. a \in Seq(Figure \union {Point})
    BY <1>2
  <2>5. a # << >>
    BY DEF a
  <2> QED BY <2>2, <2>3, <2>4, <2>5, <1>1, <1>2, PlainParts
<1> QED BY <1>3, <1>4

(* A text that reads as a number with these digits and power.              *)
NumberIs(body, d, p) ==
  /\ body \in Seq(NumberChars) /\ body \in Seq(Int) /\ body # << >> /\ body[1] \in Figure
  /\ NumberOf(body) = <<"number", FALSE, d, p>>
  /\ NumberOf(<<Minus>> \o body) = <<"number", TRUE, d, p>>

(* The characters of numbers are code points, and figures are among them.  *)
LEMMA NumberCharsInt ==
  /\ \A t \in Seq(NumberChars) : t \in Seq(Int)
  /\ \A t \in Seq(Figure) : t \in Seq(NumberChars)
  /\ <<Point>> \in Seq(NumberChars) /\ <<Exponent>> \in Seq(NumberChars)
  /\ <<Plus>> \in Seq(NumberChars) /\ <<Minus>> \in Seq(NumberChars)
<1>1. NumberChars \subseteq Int /\ Figure \subseteq NumberChars
  BY FigureInt, SignsInt DEF NumberChars
<1>2. Point \in NumberChars /\ Exponent \in NumberChars /\ Plus \in NumberChars /\ Minus \in NumberChars
  BY DEF NumberChars
<1>3. \A S : \A T : S \subseteq T => \A t \in Seq(S) : t \in Seq(T)
  OBVIOUS
<1>4. \A S : \A c \in S : <<c>> \in Seq(S)
  OBVIOUS
<1> QED BY <1>1, <1>2, <1>3, <1>4, Zenon

(* Characters of numbers one after the other are such.                     *)
LEMMA NumberCharsConcat ==
  \A s, t \in Seq(NumberChars) : s \o t \in Seq(NumberChars)
OBVIOUS

(* A text is a number when its parts are: digits between zeros, the place  *)
(* of the point and the exponent.                                          *)
LEMMA NumberIsFrom ==
  ASSUME NEW body \in Seq(NumberChars), body # << >>, body[1] \in Figure, NEW d \in SomeShortest,
         NEW lead \in Nat, NEW trail \in Nat, NEW w \in Int, NEW p \in Int,
         Without(Before(body, Exponent), Point) = Zeros(lead) \o (d \o Zeros(trail)),
         Len(Before(Before(body, Exponent), Point)) = w,
         w - lead - 1 + Parsed(After(body, Exponent)) = p
  PROVE  NumberIs(body, d, p)
<1>1. body \in Seq(Int) /\ body[1] # Minus
  BY NumberCharsInt, FigureInt
<1> DEFINE q == Len(Before(Before(body, Exponent), Point)) - lead - 1 + Parsed(After(body, Exponent))
<1>2. q = p
  OBVIOUS
<1>3. NumberOf(body) = <<"number", FALSE, d, q>> /\ NumberOf(<<Minus>> \o body) = <<"number", TRUE, d, q>>
  BY <1>1, NumberParts
<1> HIDE DEF q
<1> QED BY <1>1, <1>2, <1>3 DEF NumberIs

(* Digits and zeros behind them are read as their number.                  *)
LEMMA PlainReads ==
  ASSUME NEW d \in SomeShortest, NEW k \in Nat
  PROVE  NumberIs(d \o Zeros(k), d, Len(d) + k - 1)
<1> DEFINE body == d \o Zeros(k)
<1>1. d \in Seq(Figure) /\ d \in Seq(Int) /\ Len(d) \in Nat /\ Len(d) >= 1 /\ d[1] \in Figure
  BY ShortestIs
<1>2. Zeros(k) \in Seq(Figure) /\ Len(Zeros(k)) = k
  BY ZerosIs
<1>3. body \in Seq(Figure) /\ Len(body) = Len(d) + k /\ body # << >> /\ body[1] = d[1]
  BY <1>1, <1>2
<1>4. body \in Seq(Int) /\ Zeros(k) \in Seq(Int)
  BY <1>2, <1>3, FiguresInt
<1>5. Zeros(0) \o body = body
  BY <1>4, ZerosNone, ConcatEmpty
<1>6. Zeros(0) \o (d \o Zeros(k)) = body
  BY <1>5
<1> HIDE DEF body
<1>7. /\ Before(body, Exponent) = body /\ After(body, Exponent) = << >>
      /\ Before(body, Point) = body /\ Without(body, Point) = body
  BY <1>3, PlainParts
<1>8. Len(body) \in Int /\ Len(d) + k - 1 \in Int /\ Len(body) - 0 - 1 + 0 = Len(d) + k - 1
  BY <1>1, <1>3
<1>9. body \in Seq(NumberChars)
  BY <1>3, NumberCharsInt
<1>10. NumberIs(body, d, Len(d) + k - 1)
  <2>1. /\ Without(Before(body, Exponent), Point) = Zeros(0) \o (d \o Zeros(k))
        /\ Len(Before(Before(body, Exponent), Point)) = Len(body)
        /\ Len(body) - 0 - 1 + Parsed(After(body, Exponent)) = Len(d) + k - 1
        /\ body # << >> /\ body[1] \in Figure
    BY <1>1, <1>3, <1>6, <1>7, <1>8, ParsedEmpty
  <2>2. 0 \in Nat
    OBVIOUS
  <2> QED BY <1>8, <1>9, <2>1, <2>2, NumberIsFrom
<1> QED BY <1>10 DEF body

(* Digits with a point in them are read as their number.                   *)
LEMMA PointedReads ==
  ASSUME NEW a \in Seq(Figure), NEW b \in Seq(Figure), NEW d \in SomeShortest, NEW lead \in Nat,
         a # << >>, a \o b = Zeros(lead) \o d
  PROVE  NumberIs(a \o <<Point>> \o b, d, Len(a) - lead - 1)
<1> DEFINE body == a \o <<Point>> \o b
<1>1. a \in Seq(NumberChars) /\ b \in Seq(NumberChars) /\ <<Point>> \in Seq(NumberChars)
  BY NumberCharsInt
<1>2. Len(a) \in Nat /\ Len(a) >= 1 /\ a[1] \in Figure
  OBVIOUS
<1>3. body \in Seq(NumberChars) /\ body # << >> /\ body[1] = a[1]
  BY <1>1, <1>2, ThreeInRow
<1>4. /\ Before(body, Exponent) = body /\ After(body, Exponent) = << >>
      /\ Before(body, Point) = a /\ Without(body, Point) = a \o b
  BY PointedParts
<1>5. d \in Seq(Int)
  BY ShortestIs
<1>6. d \o Zeros(0) = d
  BY <1>5, ZerosNone, ConcatEmpty
<1> HIDE DEF body
<1>7. /\ Without(Before(body, Exponent), Point) = Zeros(lead) \o (d \o Zeros(0))
      /\ Len(Before(Before(body, Exponent), Point)) = Len(a)
  BY <1>4, <1>6
<1>8. Len(a) - lead - 1 + Parsed(After(body, Exponent)) = Len(a) - lead - 1
  BY <1>2, <1>4, ParsedEmpty
<1>9. Len(a) \in Int /\ 0 \in Nat /\ Len(a) - lead - 1 \in Int /\ body[1] \in Figure
  BY <1>2, <1>3
<1>10. NumberIs(body, d, Len(a) - lead - 1)
  BY <1>3, <1>7, <1>8, <1>9, NumberIsFrom
<1> QED BY <1>10 DEF body

(* Digits behind a point and zeros are read as their number.               *)
LEMMA FractionReads ==
  ASSUME NEW d \in SomeShortest, NEW k \in Nat
  PROVE  NumberIs(<<Zero, Point>> \o Zeros(k) \o d, d, -k - 1)
<1> DEFINE z == Zeros(k)
           o == <<Zero>>
           x == <<Point>>
<1>1. z \in Seq(Figure) /\ z \in Seq(Int) /\ o \in Seq(Figure) /\ o \in Seq(Int) /\ x \in Seq(Int)
      /\ d \in Seq(Figure) /\ d \in Seq(Int) /\ o # << >> /\ Len(o) = 1
  <2>1. z \in Seq(Figure) /\ z \in Seq(Int)
    BY ZerosIs, FiguresInt
  <2>2. o \in Seq(Figure) /\ Len(o) = 1 /\ o # << >>
    BY FigureInt
  <2>3. o \in Seq(Int) /\ x \in Seq(Int)
    BY <2>2, FiguresInt, SignsInt
  <2> QED BY <2>1, <2>2, <2>3, ShortestIs
<1>2. <<Zero, Point>> = o \o x
  OBVIOUS
<1>3. o \o z = Zeros(k + 1)
  BY ZeroZeros
<1> HIDE DEF z, o, x
<1>4. o \o x \in Seq(Int)
  BY <1>1, TextConcat, Zenon
<1>5. (o \o x) \o z \o d = (o \o x) \o (z \o d)
  BY <1>1, <1>4, TextAssociates, Zenon
<1>6. (o \o z) \o d = o \o (z \o d)
  BY <1>1, TextAssociates, Zenon
<1>7. z \o d \in Seq(Figure)
  BY <1>1, Concat
<1> DEFINE b == z \o d
<1>8. b \in Seq(Figure) /\ o \o b = Zeros(k + 1) \o d
  BY <1>3, <1>6, <1>7
<1> HIDE DEF b
<1>9. k + 1 \in Nat /\ Len(o) - (k + 1) - 1 = -k - 1
  BY <1>1
<1>10. NumberIs(o \o <<Point>> \o b, d, Len(o) - (k + 1) - 1)
  BY <1>1, <1>8, <1>9, PointedReads
<1> QED BY <1>2, <1>5, <1>9, <1>10 DEF z, b, x

(* Digits with an exponent are read as their number.                       *)
LEMMA ExponentReads ==
  ASSUME NEW d \in SomeShortest, NEW m \in 0 .. MaxInteger, NEW c \in {Plus, Minus},
         NEW p \in Int, p = (IF c = Plus THEN m ELSE -m)
  PROVE  NumberIs(Scientific(d) \o <<Exponent, c>> \o Decimal[m], d, p)
<1> DEFINE s == Scientific(d)
           e == <<Exponent>>
           t == <<c>>
           n == Decimal[m]
           u == t \o n
           body == s \o e \o u
<1>1. /\ s \in Seq(Figure \union {Point}) /\ s \in Seq(Int) /\ s # << >> /\ s[1] \in Figure
      /\ ~Holds(s, Exponent) /\ Without(s, Point) = d /\ Len(Before(s, Point)) = 1
  BY ScientificIs
<1>2. n \in Seq(Figure) /\ n \in Seq(Int)
  BY DecimalIs, FiguresInt DEF DecimalRight
<1>3. e \in Seq(Int) /\ t \in Seq(Int) /\ e \in Seq(NumberChars) /\ t \in Seq(NumberChars)
      /\ n \in Seq(NumberChars) /\ Exponent \in Int
  BY <1>2, SignsInt, NumberCharsInt
<1>4. s \in Seq(NumberChars)
  <2>1. Figure \union {Point} \subseteq NumberChars
    BY DEF NumberChars
  <2>2. \A S : \A T : S \subseteq T => \A r \in Seq(S) : r \in Seq(T)
    OBVIOUS
  <2> QED BY <1>1, <2>1, <2>2, Zenon
<1>5. <<Exponent, c>> = e \o t
  OBVIOUS
<1>6. Parsed(u) = p
  <2>1. CASE c = Plus
    BY <2>1, ParsedPlus
  <2>2. CASE c = Minus
    BY <2>2, ParsedMinus, SignsInt
  <2> QED BY <2>1, <2>2
<1> HIDE DEF s, e, t, n
<1>7. u \in Seq(NumberChars) /\ u \in Seq(Int) /\ e \o t \in Seq(Int)
  <2>1. u \in Seq(NumberChars)
    BY <1>3, NumberCharsConcat, Zenon
  <2> QED BY <1>3, <2>1, NumberCharsInt, TextConcat, Zenon
<1>8. s \o (e \o t) \o n = body
  <2>1. s \o (e \o t) \o n = s \o ((e \o t) \o n)
    BY <1>1, <1>2, <1>7, TextAssociates, Zenon
  <2>2. (e \o t) \o n = e \o u
    BY <1>2, <1>3, TextAssociates, Zenon
  <2>3. s \o e \o u = s \o (e \o u)
    BY <1>1, <1>3, <1>7, TextAssociates, Zenon
  <2> QED BY <2>1, <2>2, <2>3, Zenon
<1> HIDE DEF u
<1>9. body \in Seq(NumberChars) /\ body # << >> /\ body[1] = s[1]
  <2>1. Len(s) >= 1
    BY <1>1
  <2> QED BY <1>3, <1>4, <1>7, <2>1, ThreeInRow
<1>10. Before(body, Exponent) = s /\ After(body, Exponent) = u
  BY <1>1, <1>3, <1>7, BeforeIs DEF e
<1> HIDE DEF body
<1>11. Zeros(0) \o (d \o Zeros(0)) = d
  BY ShortestIs, ZerosNone, ConcatEmpty
<1>12. /\ Without(Before(body, Exponent), Point) = Zeros(0) \o (d \o Zeros(0))
       /\ Len(Before(Before(body, Exponent), Point)) = 1
       /\ 1 - 0 - 1 + Parsed(After(body, Exponent)) = p
       /\ body[1] \in Figure
  BY <1>1, <1>6, <1>9, <1>10, <1>11
<1>13. NumberIs(body, d, p)
  <2>1. 0 \in Nat /\ 1 \in Int
    OBVIOUS
  <2> QED BY <1>9, <1>12, <2>1, NumberIsFrom
<1> QED BY <1>5, <1>8, <1>13 DEF s, n

------------------------------------------------------------------------------
(* The layouts of a double.                                                *)

(* How a layout is chosen, by the number of digits and the power.          *)
Chosen(c, n, hi, lo, A, B, C, D) ==
  CASE c <= n /\ n <= hi -> A
    [] 0 < n /\ n < c /\ n <= hi -> B
    [] lo < n /\ n <= 0 -> C
    [] OTHER -> D

(* Each layout is taken where its condition holds.                         *)
LEMMA ChosenIs ==
  \A c \in Nat, n, hi, lo \in Int : \A A, B, C, D :
    /\ c >= 1 /\ c <= n /\ n <= hi => Chosen(c, n, hi, lo, A, B, C, D) = A
    /\ 0 < n /\ n < c /\ n <= hi => Chosen(c, n, hi, lo, A, B, C, D) = B
    /\ c >= 1 /\ lo < n /\ n <= 0 => Chosen(c, n, hi, lo, A, B, C, D) = C
    /\ ~(c <= n /\ n <= hi) /\ ~(0 < n /\ n < c /\ n <= hi) /\ ~(lo < n /\ n <= 0)
         => Chosen(c, n, hi, lo, A, B, C, D) = D
BY DEF Chosen

(* write_ecmascript_layout chooses a layout.                               *)
LEMMA LayoutIs ==
  \A d, p : Layout(d, p) =
    Chosen(Len(d), p + 1, 21, -6, d \o Zeros((p + 1) - Len(d)),
           SubSeq(d, 1, p + 1) \o <<Point>> \o SubSeq(d, p + 1 + 1, Len(d)),
           <<Zero, Point>> \o LeadingFraction(p + 1) \o d,
           Scientific(d) \o <<Exponent, IF p >= 0 THEN Plus ELSE Minus>>
                      \o Decimal[IF p >= 0 THEN p ELSE -p])
BY Zenon DEF Layout, Chosen

(* format_finite chooses a layout.                                         *)
LEMMA RyuIs ==
  \A d, p : Ryu(d, p) =
    Chosen(Len(d), p + 1, 16, -5, d \o Zeros((p + 1) - Len(d)) \o <<Point, Zero>>,
           SubSeq(d, 1, p + 1) \o <<Point>> \o SubSeq(d, p + 1 + 1, Len(d)),
           <<Zero, Point>> \o Zeros(-(p + 1)) \o d,
           Scientific(d) \o <<Exponent>> \o Signed(p))
BY Zenon DEF Ryu, Chosen

(* The four layouts of ECMAScript and where each is taken.                 *)
LEMMA LayoutChoice ==
  ASSUME NEW d, NEW p \in Int, Len(d) \in Nat, Len(d) >= 1
  PROVE  LET c == Len(d)
             n == p + 1
         IN  /\ c <= n /\ n <= 21 => Layout(d, p) = d \o Zeros(n - c)
             /\ 0 < n /\ n < c /\ n <= 21
                  => Layout(d, p) = SubSeq(d, 1, n) \o <<Point>> \o SubSeq(d, n + 1, c)
             /\ -6 < n /\ n <= 0 => Layout(d, p) = <<Zero, Point>> \o LeadingFraction(n) \o d
             /\ ~(c <= n /\ n <= 21) /\ ~(0 < n /\ n < c /\ n <= 21) /\ ~(-6 < n /\ n <= 0)
                  => Layout(d, p) = Scientific(d) \o <<Exponent, IF p >= 0 THEN Plus ELSE Minus>>
                                      \o Decimal[IF p >= 0 THEN p ELSE -p]
<1> DEFINE c == Len(d)
           n == p + 1
           A == d \o Zeros(n - c)
           B == SubSeq(d, 1, n) \o <<Point>> \o SubSeq(d, n + 1, c)
           C == <<Zero, Point>> \o LeadingFraction(n) \o d
           D == Scientific(d) \o <<Exponent, IF p >= 0 THEN Plus ELSE Minus>>
                  \o Decimal[IF p >= 0 THEN p ELSE -p]
<1>1. Layout(d, p) = Chosen(c, n, 21, -6, A, B, C, D)
  BY LayoutIs, Zenon
<1>2. c \in Nat /\ c >= 1 /\ n \in Int /\ 21 \in Int /\ -6 \in Int
  OBVIOUS
<1> HIDE DEF A, B, C, D, c, n
<1>3. /\ c <= n /\ n <= 21 => Layout(d, p) = A
      /\ 0 < n /\ n < c /\ n <= 21 => Layout(d, p) = B
      /\ -6 < n /\ n <= 0 => Layout(d, p) = C
      /\ ~(c <= n /\ n <= 21) /\ ~(0 < n /\ n < c /\ n <= 21) /\ ~(-6 < n /\ n <= 0)
           => Layout(d, p) = D
  BY <1>1, <1>2, ChosenIs
<1> QED BY <1>3, Zenon DEF A, B, C, D, c, n

(* The four layouts of ryu and where each is taken.                        *)
LEMMA RyuChoice ==
  ASSUME NEW d, NEW p \in Int, Len(d) \in Nat, Len(d) >= 1
  PROVE  LET c == Len(d)
             n == p + 1
         IN  /\ c <= n /\ n <= 16 => Ryu(d, p) = d \o Zeros(n - c) \o <<Point, Zero>>
             /\ 0 < n /\ n < c /\ n <= 16
                  => Ryu(d, p) = SubSeq(d, 1, n) \o <<Point>> \o SubSeq(d, n + 1, c)
             /\ -5 < n /\ n <= 0 => Ryu(d, p) = <<Zero, Point>> \o Zeros(-n) \o d
             /\ ~(c <= n /\ n <= 16) /\ ~(0 < n /\ n < c /\ n <= 16) /\ ~(-5 < n /\ n <= 0)
                  => Ryu(d, p) = Scientific(d) \o <<Exponent>> \o Signed(p)
<1> DEFINE c == Len(d)
           n == p + 1
           A == d \o Zeros(n - c) \o <<Point, Zero>>
           B == SubSeq(d, 1, n) \o <<Point>> \o SubSeq(d, n + 1, c)
           C == <<Zero, Point>> \o Zeros(-n) \o d
           D == Scientific(d) \o <<Exponent>> \o Signed(p)
<1>1. Ryu(d, p) = Chosen(c, n, 16, -5, A, B, C, D)
  BY RyuIs, Zenon
<1>2. c \in Nat /\ c >= 1 /\ n \in Int /\ 16 \in Int /\ -5 \in Int
  OBVIOUS
<1> HIDE DEF A, B, C, D, c, n
<1>3. /\ c <= n /\ n <= 16 => Ryu(d, p) = A
      /\ 0 < n /\ n < c /\ n <= 16 => Ryu(d, p) = B
      /\ -5 < n /\ n <= 0 => Ryu(d, p) = C
      /\ ~(c <= n /\ n <= 16) /\ ~(0 < n /\ n < c /\ n <= 16) /\ ~(-5 < n /\ n <= 0)
           => Ryu(d, p) = D
  BY <1>1, <1>2, ChosenIs
<1> QED BY <1>3, Zenon DEF A, B, C, D, c, n

(* Whatever the layout, a double is read as its digits and power.          *)
LEMMA LayoutReads ==
  ASSUME NEW d \in SomeShortest, NEW p \in -MaxInteger .. MaxInteger
  PROVE  NumberIs(Layout(d, p), d, p)
<1> DEFINE count == Len(d)
           n == p + 1
<1>1. d \in Seq(Figure) /\ count \in Nat /\ count >= 1 /\ p \in Int /\ n \in Int
  BY ShortestIs, JcsAssumption
<1>2. CASE count <= n /\ n <= 21
  <2>1. Layout(d, p) = d \o Zeros(n - count)
    BY <1>1, <1>2, LayoutChoice, Zenon
  <2>2. n - count \in Nat /\ Len(d) + (n - count) - 1 = p
    BY <1>1, <1>2
  <2>3. NumberIs(d \o Zeros(n - count), d, Len(d) + (n - count) - 1)
    BY <2>2, PlainReads
  <2> QED BY <2>1, <2>2, <2>3
<1>3. CASE 0 < n /\ n < count /\ n <= 21
  <2> DEFINE a == SubSeq(d, 1, n)
             b == SubSeq(d, n + 1, Len(d))
  <2>1. Layout(d, p) = a \o <<Point>> \o b
    BY <1>1, <1>3, LayoutChoice, Zenon
  <2>2. n \in 0 .. Len(d)
    BY <1>1, <1>3
  <2>3. a \in Seq(Figure) /\ b \in Seq(Figure) /\ Len(a) = n /\ a \o b = d
    BY <1>1, <2>2, SplitIs
  <2> HIDE DEF a, b
  <2>4. a # << >> /\ Len(a) - 0 - 1 = p /\ 0 \in Nat
    BY <1>1, <1>3, <2>3
  <2>5. a \o b = Zeros(0) \o d
    BY <2>3, ZerosNone, ConcatEmpty, <1>1
  <2>6. NumberIs(a \o <<Point>> \o b, d, Len(a) - 0 - 1)
    BY <2>3, <2>4, <2>5, PointedReads
  <2> QED BY <2>1, <2>4, <2>6
<1>4. CASE -6 < n /\ n <= 0
  <2>2. Layout(d, p) = <<Zero, Point>> \o Zeros(-n) \o d
    BY <1>1, <1>4, LayoutChoice, Zenon DEF LeadingFraction
  <2>3. -n \in Nat /\ -(-n) - 1 = p
    BY <1>1, <1>4
  <2>4. NumberIs(<<Zero, Point>> \o Zeros(-n) \o d, d, -(-n) - 1)
    BY <2>3, FractionReads
  <2> QED BY <2>2, <2>3, <2>4
<1>5. CASE ~(count <= n /\ n <= 21) /\ ~(0 < n /\ n < count /\ n <= 21) /\ ~(-6 < n /\ n <= 0)
  <2> DEFINE c == IF p >= 0 THEN Plus ELSE Minus
             m == IF p >= 0 THEN p ELSE -p
  <2>1. Layout(d, p) = Scientific(d) \o <<Exponent, c>> \o Decimal[m]
    BY <1>1, <1>5, LayoutChoice, Zenon
  <2>2. m \in 0 .. MaxInteger /\ p = (IF c = Plus THEN m ELSE -m) /\ c \in {Plus, Minus}
    <3>1. m \in 0 .. MaxInteger
      BY <1>1, JcsAssumption
    <3>2. CASE p >= 0
      BY <3>2, <3>1
    <3>3. CASE ~(p >= 0)
      BY <3>3, <3>1, <1>1, SignsInt
    <3> QED BY <3>1, <3>2, <3>3
  <2> HIDE DEF c, m
  <2> QED BY <1>1, <2>1, <2>2, ExponentReads
<1> QED BY <1>2, <1>3, <1>4, <1>5

(* What stands before and after the point of ryu's layout.                 *)
LEMMA RecoveredPointed ==
  ASSUME NEW a \in Seq(Figure), NEW b \in Seq(Figure)
  PROVE  Recovered(a \o <<Point>> \o b) =
           IF b = <<Zero>> THEN [digits |-> a, power |-> Len(a) - 1]
           ELSE IF a = <<Zero>>
           THEN [digits |-> SubSeq(b, LeadingZeros(b) + 1, Len(b)), power |-> -LeadingZeros(b) - 1]
           ELSE [digits |-> a \o b, power |-> Len(a) - 1]
<1> DEFINE body == a \o <<Point>> \o b
<1>1. ~Holds(body, Exponent) /\ Before(body, Point) = a /\ After(body, Point) = b
  BY PointedParts
<1> HIDE DEF body
<1>2. Recovered(body) =
           IF b = <<Zero>> THEN [digits |-> a, power |-> Len(a) - 1]
           ELSE IF a = <<Zero>>
           THEN [digits |-> SubSeq(b, LeadingZeros(b) + 1, Len(b)), power |-> -LeadingZeros(b) - 1]
           ELSE [digits |-> a \o b, power |-> Len(a) - 1]
  BY <1>1 DEF Recovered
<1> QED BY <1>2 DEF body

(* A text that ends in the character of another.                           *)
LEMMA LastOf ==
  ASSUME NEW S, NEW s \in Seq(S), NEW t \in Seq(S), Len(t) >= 1
  PROVE  s \o t \in Seq(S) /\ Len(s \o t) >= 1 /\ (s \o t)[Len(s \o t)] = t[Len(t)]
OBVIOUS

(* A text of two characters.                                               *)
LEMMA PairText == \A a, b \in Int : <<a, b>> = <<a>> \o <<b>>
<1> TAKE a, b \in Int
<1> DEFINE s == <<a>>
           t == <<b>>
           u == <<a, b>>
<1>1. /\ s \in Seq(Int) /\ t \in Seq(Int) /\ u \in Seq(Int)
      /\ Len(s) = 1 /\ Len(t) = 1 /\ Len(u) = 2 /\ s[1] = a /\ t[1] = b /\ u[1] = a /\ u[2] = b
  OBVIOUS
<1> HIDE DEF s, t, u
<1>2. s \o t \in Seq(Int) /\ Len(s \o t) = 2 /\ (s \o t)[1] = a /\ (s \o t)[2] = b
  <2> DEFINE v == s \o t
  <2>1. /\ v \in Seq(Int) /\ Len(v) = Len(s) + Len(t)
        /\ \A i \in 1 .. Len(s) : v[i] = s[i]
        /\ \A i \in 1 .. Len(t) : v[Len(s) + i] = t[i]
    BY <1>1, TextConcat, Zenon
  <2> HIDE DEF v
  <2>2. 1 \in 1 .. Len(s) /\ 1 \in 1 .. Len(t) /\ Len(s) + 1 = 2
    BY <1>1
  <2>3. v[1] = s[1] /\ v[Len(s) + 1] = t[1] /\ Len(v) = 2
    BY <1>1, <2>1, <2>2
  <2> QED BY <1>1, <2>1, <2>2, <2>3 DEF v
<1>3. \A i \in 1 .. 2 : u[i] = (s \o t)[i]
  BY <1>1, <1>2
<1>4. u = s \o t
  BY <1>1, <1>2, <1>3, SameText
<1> QED BY <1>4 DEF s, t, u

(* A point and a zero.                                                     *)
LEMMA PointZero == <<Point, Zero>> = <<Point>> \o <<Zero>>
BY PairText, SignsInt, Zenon

(* What is left without the beginning.                                     *)
LEMMA RestIs ==
  ASSUME NEW S, NEW z \in Seq(S), NEW d \in Seq(S)
  PROVE  SubSeq(z \o d, Len(z) + 1, Len(z \o d)) = d
<1> DEFINE b == z \o d
           k == Len(z)
<1>1. b \in Seq(S) /\ Len(b) = k + Len(d) /\ k \in Nat /\ Len(d) \in Nat
      /\ \A i \in 1 .. Len(d) : b[k + i] = d[i]
  BY Concat
<1> HIDE DEF b, k
<1>2. k + 1 \in 1 .. Len(b) + 1 /\ Len(b) \in k + 1 - 1 .. Len(b) /\ Len(b) - (k + 1) + 1 = Len(d)
      /\ k + 1 - 1 = k
  BY <1>1
<1>3. /\ SubSeq(b, k + 1, Len(b)) \in Seq(S) /\ Len(SubSeq(b, k + 1, Len(b))) = Len(d)
      /\ \A i \in 1 .. Len(d) : SubSeq(b, k + 1, Len(b))[i] = b[k + i]
  <2>1. /\ SubSeq(b, k + 1, Len(b)) \in Seq(S)
        /\ Len(SubSeq(b, k + 1, Len(b))) = Len(b) - (k + 1) + 1
        /\ \A i \in 1 .. Len(b) - (k + 1) + 1 : SubSeq(b, k + 1, Len(b))[i] = b[k + 1 - 1 + i]
    BY <1>1, <1>2, CutIs
  <2> QED BY <1>2, <2>1
<1> DEFINE c == SubSeq(b, k + 1, Len(b))
<1> HIDE DEF c
<1>4. c \in Seq(S) /\ Len(c) = Len(d) /\ \A i \in 1 .. Len(c) : c[i] = d[i]
  BY <1>1, <1>3 DEF c
<1>5. c = d
  BY <1>4, SameSequence
<1> QED BY <1>5 DEF c, b, k

(* Of ryu's 1200.0 the digits and power are recovered, or such as have     *)
(* the same layout.                                                        *)
LEMMA RyuPlain ==
  ASSUME NEW d \in SomeShortest, NEW p \in Int, Len(d) <= p + 1, p + 1 <= 16
  PROVE  LET found == Recovered(Ryu(d, p))
         IN  Layout(found.digits, found.power) = Layout(d, p)
<1> DEFINE a == d \o Zeros((p + 1) - Len(d))
           b == <<Zero>>
           x == <<Point>>
<1>1. d \in Seq(Figure) /\ d \in Seq(Int) /\ Len(d) \in Nat /\ Len(d) >= 1
  BY ShortestIs
<1>2. (p + 1) - Len(d) \in Nat
  BY <1>1
<1>3. Zeros((p + 1) - Len(d)) \in Seq(Figure) /\ Len(Zeros((p + 1) - Len(d))) = (p + 1) - Len(d)
  BY <1>2, ZerosIs
<1>4. a \in Seq(Figure) /\ Len(a) = p + 1
  BY <1>1, <1>3
<1>5. b \in Seq(Figure) /\ b \in Seq(Int) /\ x \in Seq(Int) /\ a \in Seq(Int)
  BY <1>4, FigureInt, FiguresInt, SignsInt
<1>6. Ryu(d, p) = a \o <<Point, Zero>>
  BY <1>1, RyuChoice, Zenon
<1>7. Layout(d, p) = a
  <2>1. p + 1 <= 21
    OBVIOUS
  <2> QED BY <1>1, <2>1, LayoutChoice, Zenon
<1>8. <<Point, Zero>> = x \o b
  BY PointZero
<1> HIDE DEF a
<1>9. Ryu(d, p) = a \o <<Point>> \o b
  <2> HIDE DEF b, x
  <2>1. a \o (x \o b) = (a \o x) \o b
    BY <1>5, TextAssociates, Zenon
  <2> QED BY <2>1, <1>6, <1>8, Zenon DEF x
<1>10. Recovered(Ryu(d, p)) = [digits |-> a, power |-> Len(a) - 1]
  BY <1>4, <1>5, <1>9, RecoveredPointed
<1>11. Len(a) - 1 = p
  BY <1>4
<1>12. Layout(a, p) = a
  <2>1. Len(a) \in Nat /\ Len(a) >= 1 /\ Len(a) <= p + 1 /\ p + 1 <= 21 /\ (p + 1) - Len(a) = 0
    BY <1>1, <1>4
  <2>2. Layout(a, p) = a \o Zeros((p + 1) - Len(a))
    BY <2>1, LayoutChoice, Zenon
  <2> QED BY <2>1, <2>2, <1>5, ZerosNone, ConcatEmpty
<1> QED BY <1>7, <1>10, <1>11, <1>12

(* Of ryu's 12.34 the digits and power are recovered.                      *)
LEMMA RyuPointed ==
  ASSUME NEW d \in SomeShortest, NEW p \in Int, 0 < p + 1, p + 1 < Len(d), p + 1 <= 16
  PROVE  Recovered(Ryu(d, p)) = [digits |-> d, power |-> p]
<1> DEFINE n == p + 1
           a == SubSeq(d, 1, n)
           b == SubSeq(d, n + 1, Len(d))
<1>1. d \in Seq(Figure) /\ Len(d) \in Nat /\ Len(d) >= 1 /\ d[1] # Zero /\ d[Len(d)] # Zero
  BY ShortestIs
<1>2. Ryu(d, p) = a \o <<Point>> \o b
  BY <1>1, RyuChoice, Zenon
<1>3. n \in 0 .. Len(d) /\ n \in 1 .. n /\ 1 \in 1 .. n /\ Len(d) - n \in 1 .. Len(d) - n
      /\ n + (Len(d) - n) = Len(d) /\ n - 1 = p
  BY <1>1
<1>4. /\ a \in Seq(Figure) /\ b \in Seq(Figure) /\ Len(a) = n /\ Len(b) = Len(d) - n
      /\ a[1] = d[1] /\ b[Len(d) - n] = d[n + (Len(d) - n)] /\ a \o b = d
  <2>1. /\ \A i \in 1 .. n : a[i] = d[i]
        /\ \A i \in 1 .. Len(d) - n : b[i] = d[n + i]
    BY <1>1, <1>3, SplitIs
  <2> HIDE DEF n, a, b
  <2>2. a[1] = d[1] /\ b[Len(d) - n] = d[n + (Len(d) - n)]
    BY <1>3, <2>1
  <2> QED BY <1>1, <1>3, <2>2, SplitIs DEF a, b
<1> HIDE DEF a, b
<1>5. a # <<Zero>>
  BY <1>1, <1>4
<1>6. b # <<Zero>>
  <2>1. b[Len(b)] # Zero
    BY <1>1, <1>3, <1>4
  <2> QED BY <2>1
<1>7. Recovered(a \o <<Point>> \o b) = [digits |-> a \o b, power |-> Len(a) - 1]
  BY <1>4, <1>5, <1>6, RecoveredPointed, Zenon
<1> QED BY <1>2, <1>3, <1>4, <1>7

(* Of ryu's 0.00123 the digits and power are recovered.                    *)
LEMMA RyuFraction ==
  ASSUME NEW d \in SomeShortest, NEW p \in Int, -5 < p + 1, p + 1 <= 0
  PROVE  Recovered(Ryu(d, p)) = [digits |-> d, power |-> p]
<1> DEFINE k == -(p + 1)
           z == Zeros(k)
           o == <<Zero>>
           x == <<Point>>
           b == z \o d
<1>1. d \in Seq(Figure) /\ d \in Seq(Int) /\ Len(d) \in Nat /\ Len(d) >= 1
      /\ d[1] # Zero /\ d[Len(d)] # Zero
  BY ShortestIs
<1>2. Ryu(d, p) = <<Zero, Point>> \o z \o d
  BY <1>1, RyuChoice, Zenon
<1>3. k \in Nat /\ -k - 1 = p
  OBVIOUS
<1>4. z \in Seq(Figure) /\ Len(z) = k
  BY <1>3, ZerosIs
<1>5. z \in Seq(Int)
  BY <1>4, FiguresInt
<1>6. o \in Seq(Figure) /\ o \in Seq(Int) /\ x \in Seq(Int)
  BY FigureInt, FiguresInt, SignsInt
<1>7. <<Zero, Point>> = o \o x
  OBVIOUS
<1>8. LeadingZeros(b) = k
  BY <1>1, <1>3, LeadingIs
<1> HIDE DEF z, o, x, k
<1>9. Ryu(d, p) = o \o x \o b
  <2>1. o \o x \in Seq(Int)
    BY <1>6, TextConcat, Zenon
  <2>2. (o \o x) \o z \o d = (o \o x) \o (z \o d)
    BY <1>1, <1>5, <2>1, TextAssociates, Zenon
  <2> QED BY <1>2, <1>7, <2>2, Zenon
<1>10. b \in Seq(Figure) /\ Len(b) = k + Len(d)
  BY <1>1, <1>3, <1>4, Concat
<1>11. b[Len(b)] # Zero
  BY <1>1, <1>4, LastOf
<1>12. SubSeq(b, k + 1, Len(b)) = d
  BY <1>1, <1>4, RestIs
<1> HIDE DEF b
<1>13. b # <<Zero>>
  BY <1>11
<1>14. Recovered(o \o <<Point>> \o b)
         = [digits |-> SubSeq(b, LeadingZeros(b) + 1, Len(b)), power |-> -LeadingZeros(b) - 1]
  BY <1>6, <1>10, <1>13, RecoveredPointed, Zenon DEF o
<1> QED BY <1>3, <1>8, <1>9, <1>12, <1>14 DEF x

(* Of ryu's 1.23e-7 the digits and power are recovered.                    *)
LEMMA RyuExponent ==
  ASSUME NEW d \in SomeShortest, NEW p \in -MaxInteger .. MaxInteger,
         Ryu(d, p) = Scientific(d) \o <<Exponent>> \o Signed(p)
  PROVE  Recovered(Ryu(d, p)) = [digits |-> d, power |-> p]
<1> DEFINE s == Scientific(d)
           u == Signed(p)
           body == s \o <<Exponent>> \o u
<1>1. s \in Seq(Int) /\ ~Holds(s, Exponent) /\ Without(s, Point) = d
  BY ScientificIs
<1>2. u \in Seq(Int) /\ Parsed(u) = p
  BY SignedIs
<1> HIDE DEF s, u
<1>3. Before(body, Exponent) = s /\ After(body, Exponent) = u
  BY <1>1, <1>2, SignsInt, BeforeIs
<1>4. Holds(body, Exponent)
  <2>1. <<Exponent>> \in Seq(Int) /\ Holds(<<Exponent>>, Exponent)
    BY SignsInt DEF Holds
  <2>2. s \o <<Exponent>> \in Seq(Int) /\ Holds(s \o <<Exponent>>, Exponent)
    BY <1>1, <2>1, ConcatHolds, TextConcat
  <2> QED BY <1>2, <2>2, ConcatHolds
<1> HIDE DEF body
<1>5. Recovered(body) = [digits |-> d, power |-> p]
  BY <1>1, <1>2, <1>3, <1>4 DEF Recovered
<1> QED BY <1>5 DEF body, s, u

(* Recovering digits and power from ryu's layout changes no layout of a    *)
(* double.                                                                 *)
LEMMA RyuLayout ==
  ASSUME NEW d \in SomeShortest, NEW p \in -MaxInteger .. MaxInteger
  PROVE  LET found == Recovered(Ryu(d, p))
         IN  Layout(found.digits, found.power) = Layout(d, p)
<1>1. p \in Int /\ Len(d) \in Nat /\ Len(d) >= 1
  BY ShortestIs, JcsAssumption
<1>2. CASE Len(d) <= p + 1 /\ p + 1 <= 16
  BY <1>1, <1>2, RyuPlain
<1>3. CASE 0 < p + 1 /\ p + 1 < Len(d) /\ p + 1 <= 16
  BY <1>1, <1>3, RyuPointed
<1>4. CASE -5 < p + 1 /\ p + 1 <= 0
  BY <1>1, <1>4, RyuFraction
<1>5. CASE ~(Len(d) <= p + 1 /\ p + 1 <= 16) /\ ~(0 < p + 1 /\ p + 1 < Len(d) /\ p + 1 <= 16)
           /\ ~(-5 < p + 1 /\ p + 1 <= 0)
  <2>1. Ryu(d, p) = Scientific(d) \o <<Exponent>> \o Signed(p)
    BY <1>1, <1>5, RyuChoice, Zenon
  <2>2. Recovered(Ryu(d, p)) = [digits |-> d, power |-> p]
    BY <2>1, RyuExponent
  <2> QED BY <2>2
<1> QED BY <1>2, <1>3, <1>4, <1>5

(* What a number is written with, and that it is the number.               *)
NumberText(text) ==
  text \in Seq(NumberChars) /\ text \in Seq(Int) /\ text # << >> /\ text[1] \in Figure \union {Minus}

(* write_double: a finite double is read as its sign, digits and power.    *)
LEMMA DoubleReads ==
  ASSUME NEW d \in Finite
  PROVE  /\ NumberText(WriteDouble(d))
         /\ NumberOf(WriteDouble(d)) =
              <<"number", d.negative /\ d.digits # << >>, d.digits,
                IF d.digits = << >> THEN 0 ELSE d.power>>
<1>1. d.negative \in BOOLEAN /\ d.digits \in Shortest /\ d.power \in -MaxInteger .. MaxInteger
  BY DEF Finite
<1>2. CASE d.digits = << >>
  <2>1. WriteDouble(d) = <<Zero>>
    BY <1>2 DEF WriteDouble
  <2>2. NumberText(<<Zero>>)
    <3>1. <<Zero>> \in Seq(Figure) /\ <<Zero>> # << >> /\ <<Zero>>[1] \in Figure
      BY FigureInt
    <3> QED BY <3>1, NumberCharsInt DEF NumberText
  <2> QED BY <2>1, <2>2, <1>2, ZeroReads
<1>3. CASE d.digits # << >>
  <2>1. d.digits \in SomeShortest
    BY <1>1, <1>3 DEF SomeShortest
  <2> DEFINE body == Layout(d.digits, d.power)
  <2>2. NumberIs(body, d.digits, d.power)
    BY <1>1, <2>1, LayoutReads
  <2>3. WriteDouble(d) = (IF d.negative THEN <<Minus>> ELSE << >>) \o body
    <3>1. Layout(Recovered(Ryu(d.digits, d.power)).digits, Recovered(Ryu(d.digits, d.power)).power) = body
      BY <1>1, <2>1, RyuLayout
    <3> HIDE DEF body
    <3> QED BY <1>3, <3>1, Zenon DEF WriteDouble
  <2> HIDE DEF body
  <2>4. CASE d.negative
    <3>1. WriteDouble(d) = <<Minus>> \o body
      BY <2>3, <2>4, Zenon
    <3>2. <<Minus>> \o body \in Seq(NumberChars)
      BY <2>2, NumberCharsInt, NumberCharsConcat, Zenon DEF NumberIs
    <3>3. <<Minus>> \o body # << >> /\ (<<Minus>> \o body)[1] = Minus
      BY <2>2, TailIs, SignsInt DEF NumberIs
    <3>4. NumberText(<<Minus>> \o body)
      BY <3>2, <3>3, NumberCharsInt DEF NumberText
    <3>5. NumberOf(<<Minus>> \o body) = <<"number", TRUE, d.digits, d.power>>
      BY <2>2 DEF NumberIs
    <3> QED BY <3>1, <3>4, <3>5, <2>4, <1>3
  <2>5. CASE ~d.negative
    <3>1. WriteDouble(d) = body
      BY <2>2, <2>3, <2>5, ConcatEmpty DEF NumberIs
    <3>2. NumberText(body) /\ NumberOf(body) = <<"number", FALSE, d.digits, d.power>>
      BY <2>2 DEF NumberIs, NumberText
    <3>3. (d.negative /\ d.digits # << >>) = FALSE
      BY <2>5, <1>1
    <3> QED BY <3>1, <3>2, <3>3, <1>3
  <2> QED BY <2>4, <2>5
<1> QED BY <1>2, <1>3

(* An integer is written in characters of numbers.                         *)
LEMMA IntegerText ==
  ASSUME NEW n \in -MaxInteger .. MaxInteger
  PROVE  NumberText(Signed(n))
<1>1. \A m \in 0 .. MaxInteger : Decimal[m] \in Seq(Figure) /\ Decimal[m] # << >> /\ Decimal[m] \in Seq(Int)
  BY DecimalIs, FiguresInt DEF DecimalRight
<1>2. CASE n < 0
  <2>1. -n \in 0 .. MaxInteger
    BY <1>2, JcsAssumption
  <2> DEFINE t == Decimal[-n]
  <2>2. t \in Seq(Figure) /\ t \in Seq(Int)
    BY <1>1, <2>1
  <2>3. Signed(n) = <<Minus>> \o t
    BY <1>2 DEF Signed
  <2> HIDE DEF t
  <2>4. <<Minus>> \o t \in Seq(NumberChars)
    BY <2>2, NumberCharsInt, NumberCharsConcat, Zenon
  <2>5. <<Minus>> \o t # << >> /\ (<<Minus>> \o t)[1] = Minus
    BY <2>2, TailIs, SignsInt
  <2> QED BY <2>3, <2>4, <2>5, NumberCharsInt DEF NumberText
<1>3. CASE ~(n < 0)
  <2>1. n \in 0 .. MaxInteger
    BY <1>3, JcsAssumption
  <2> DEFINE t == Decimal[n]
  <2>2. t \in Seq(Figure) /\ t # << >>
    BY <1>1, <2>1
  <2>3. Signed(n) = t
    BY <1>3 DEF Signed
  <2> HIDE DEF t
  <2>4. t[1] \in Figure
    BY <2>2
  <2> QED BY <2>2, <2>3, <2>4, NumberCharsInt DEF NumberText
<1> QED BY <1>2, <1>3

------------------------------------------------------------------------------
(* The reader, character by character.                                     *)

(* What each state of the reader makes of a character.                     *)
LEMMA ReadingIs ==
  \A in, mode, part, code :
    LET s == Reading(in, mode, part, code)
    IN  s.in = in /\ s.mode = mode /\ s.part = part /\ s.code = code
BY DEF Reading

(* In a string, a character is one of the string.                          *)
LEMMA StepString ==
  \A in, p, c : Advanced(Reading(in, "string", p, << >>), c) = InString(Reading(in, "string", p, << >>), c)
BY ReadingIs DEF Advanced, Read1

(* After a backslash comes what was escaped.                               *)
LEMMA StepEscape ==
  \A in, p, c : Advanced(Reading(in, "escape", p, << >>), c) = InEscape(Reading(in, "escape", p, << >>), c)
BY ReadingIs DEF Advanced, Read1

(* After \u comes a digit of a code.                                       *)
LEMMA StepCode ==
  \A in, p, k, c : Advanced(Reading(in, "code", p, k), c) = InCode(Reading(in, "code", p, k), c)
BY ReadingIs DEF Advanced, Read1

(* In a number, a character of numbers belongs to it.                      *)
LEMMA StepNumber ==
  \A in, p : \A c \in NumberChars :
    Advanced(Reading(in, "number", p, << >>), c) = Reading(in, "number", Append(p, c), << >>)
BY ReadingIs DEF Advanced, Read1

(* After a colon comes a value.                                            *)
LEMMA StepColon ==
  \A in : Advanced(Expecting(in, "colon"), Colon) = Expecting(in, "value")
BY ReadingIs DEF Advanced, Read1, Expecting

(* Where a value is expected, it begins.                                   *)
LEMMA StepValue ==
  \A in, c : \A m \in {"value", "first"} :
    in.kind # "object" /\ (m = "first" => ~Closes(in, c)) => Advanced(Expecting(in, m), c) = Begin(in, c)
<1> TAKE in, c
<1> TAKE m \in {"value", "first"}
<1> HAVE in.kind # "object" /\ (m = "first" => ~Closes(in, c))
<1> DEFINE s == Expecting(in, m)
<1>1. s.in = in /\ s.mode = m
  BY ReadingIs DEF Expecting
<1> HIDE DEF s
<1>2. Advanced(s, c) = Begin(in, c)
  BY <1>1 DEF Advanced, Read1
<1> QED BY <1>2 DEF s

(* Where a member is expected, its name begins.                            *)
LEMMA StepName ==
  \A in, c : \A m \in {"value", "first"} :
    in.kind = "object" /\ (m = "first" => ~Closes(in, c)) => Advanced(Expecting(in, m), c) = BeginName(in, c)
<1> TAKE in, c
<1> TAKE m \in {"value", "first"}
<1> HAVE in.kind = "object" /\ (m = "first" => ~Closes(in, c))
<1> DEFINE s == Expecting(in, m)
<1>1. s.in = in /\ s.mode = m
  BY ReadingIs DEF Expecting
<1> HIDE DEF s
<1>2. Advanced(s, c) = BeginName(in, c)
  BY <1>1 DEF Advanced, Read1
<1> QED BY <1>2 DEF s

(* Where an array or object may end, its bracket ends it.                  *)
LEMMA StepClose ==
  \A in, c : \A m \in {"after", "first"} :
    Closes(in, c) => Advanced(Expecting(in, m), c) = Close(in)
<1> TAKE in, c
<1> TAKE m \in {"after", "first"}
<1> HAVE Closes(in, c)
<1> DEFINE s == Expecting(in, m)
<1>1. s.in = in /\ s.mode = m
  BY ReadingIs DEF Expecting
<1> HIDE DEF s
<1>2. Advanced(s, c) = Close(in)
  BY <1>1 DEF Advanced, Read1
<1> QED BY <1>2 DEF s

(* After a comma comes the next value.                                     *)
LEMMA StepComma ==
  \A in : in.kind \in {"array", "object"} => Advanced(Expecting(in, "after"), Comma) = Expecting(in, "value")
<1> TAKE in
<1> HAVE in.kind \in {"array", "object"}
<1> DEFINE s == Expecting(in, "after")
<1>1. s.in = in /\ s.mode = "after"
  BY ReadingIs DEF Expecting
<1>2. ~Closes(in, Comma) /\ Parted(in, Comma) = Expecting(in, "value")
  BY DEF Closes, Parted, Comma, CloseArray, CloseObject
<1> HIDE DEF s
<1>3. Advanced(s, Comma) = Expecting(in, "value")
  BY <1>1, <1>2 DEF Advanced, Read1
<1> QED BY <1>3 DEF s

(* The characters of a string, one by one.                                 *)
LEMMA CharInt == \A c \in Char : c \in Nat
BY DEF Char

(* No two characters have the same short escape.                           *)
LEMMA ShortEscapesIs ==
  /\ DOMAIN ShortEscapes = {8, 9, 10, 12, 13, 34, 92}
  /\ \A c \in DOMAIN ShortEscapes : ShortEscapes[c] \in Nat /\ ShortEscapes[c] # LetterU
  /\ \A c, e \in DOMAIN ShortEscapes : ShortEscapes[c] = ShortEscapes[e] => c = e
<1>1. /\ DOMAIN ShortEscapes = {8, 9, 10, 12, 13, 34, 92}
      /\ ShortEscapes[8] = 98 /\ ShortEscapes[9] = 116 /\ ShortEscapes[10] = 110
      /\ ShortEscapes[12] = 102 /\ ShortEscapes[13] = 114 /\ ShortEscapes[34] = 34
      /\ ShortEscapes[92] = 92
  BY DEF ShortEscapes, Quote, Backslash
<1> QED BY <1>1 DEF LetterU

(* A short escape is read as its character.                                *)
LEMMA EscapeReads ==
  ASSUME NEW in, NEW p, NEW c \in DOMAIN ShortEscapes
  PROVE  /\ <<Backslash, ShortEscapes[c]>> \in Seq(Int)
         /\ Run(Reading(in, "string", p, << >>), <<Backslash, ShortEscapes[c]>>)
              = Reading(in, "string", Append(p, c), << >>)
<1> DEFINE s == Reading(in, "string", p, << >>)
           s1 == Reading(in, "escape", p, << >>)
           e == ShortEscapes[c]
           text == <<Backslash, e>>
<1>1. e \in Nat /\ Backslash \in Nat /\ Backslash # Quote
  BY ShortEscapesIs DEF Backslash, Quote
<1>2. text \in Seq(Int) /\ Len(text) = 2 /\ text[1] = Backslash /\ text[2] = e
  BY <1>1
<1>3. Advanced(s, Backslash) = s1
  BY <1>1, StepString, ReadingIs DEF InString
<1>4. Advanced(s1, e) = Reading(in, "string", Append(p, c), << >>)
  <2>1. (CHOOSE x \in DOMAIN ShortEscapes : ShortEscapes[x] = e) = c
    BY ShortEscapesIs
  <2>2. e # LetterU /\ \E x \in DOMAIN ShortEscapes : ShortEscapes[x] = e
    BY ShortEscapesIs
  <2>3. InEscape(s1, e) = Reading(in, "string", Append(p, c), << >>)
    <3>1. s1.in = in /\ s1.part = p
      BY ReadingIs
    <3> HIDE DEF e, s1
    <3> QED BY <2>1, <2>2, <3>1, Zenon DEF InEscape
  <2> QED BY <2>3, StepEscape
<1> HIDE DEF text, e, s, s1
<1>5. PICK U : /\ U[0] = s /\ \A n \in 1 .. Len(text) : U[n] = Advanced(U[n - 1], text[n])
               /\ Run(s, text) = U[Len(text)]
  BY <1>2, RunSteps
<1>6. U[1] = s1
  <2>1. 1 \in 1 .. Len(text) /\ 1 - 1 = 0
    BY <1>2
  <2>2. U[1] = Advanced(U[1 - 1], text[1])
    BY <1>5, <2>1
  <2> QED BY <1>2, <1>3, <1>5, <2>1, <2>2
<1>7. U[2] = Reading(in, "string", Append(p, c), << >>)
  <2>1. 2 \in 1 .. Len(text) /\ 2 - 1 = 1
    BY <1>2
  <2>2. U[2] = Advanced(U[2 - 1], text[2])
    BY <1>5, <2>1
  <2> QED BY <1>2, <1>4, <1>6, <2>1, <2>2
<1>8. Run(s, text) = Reading(in, "string", Append(p, c), << >>)
  BY <1>2, <1>5, <1>7
<1> QED BY <1>2, <1>8 DEF text, e, s

(* A text and one more character.                                          *)
LEMMA AppendText ==
  \A s \in Seq(Int), c \in Int :
    /\ Append(s, c) \in Seq(Int) /\ Len(Append(s, c)) = Len(s) + 1
    /\ \A i \in 1 .. Len(s) : Append(s, c)[i] = s[i]
    /\ Append(s, c)[Len(s) + 1] = c
OBVIOUS

(* The fourth digit of a code ends it.                                     *)
LEMMA CodeOf ==
  \A r, c : ~(Len(r.code) < 3) =>
    InCode(r, c) = Reading(r.in, "string",
                     Append(r.part, 4096 * HexValue(r.code[1]) + 256 * HexValue(r.code[2])
                                      + 16 * HexValue(r.code[3]) + HexValue(c)), << >>)
BY DEF InCode

(* The digits 0, 0, c / 16 and c mod 16 are c.                             *)
LEMMA CodeSum ==
  \A c \in 0 .. 31 : \A w, x, y, z :
    w = 0 /\ x = 0 /\ y = c \div 16 /\ z = c % 16 => 4096 * w + 256 * x + 16 * y + z = c
OBVIOUS

(* Three digits one after the other.                                       *)
LEMMA ThreeAppended ==
  \A a, b, c \in Int :
    LET q1 == Append(<< >>, a)
        q2 == Append(q1, b)
        q == Append(q2, c)
    IN  /\ Len(<< >>) < 3 /\ Len(q1) < 3 /\ Len(q2) < 3
        /\ Len(q) = 3 /\ q[1] = a /\ q[2] = b /\ q[3] = c
<1> TAKE a, b, c \in Int
<1> DEFINE q1 == Append(<< >>, a)
           q2 == Append(q1, b)
           q == Append(q2, c)
<1>1. << >> \in Seq(Int) /\ Len(<< >>) = 0
  OBVIOUS
<1>2. q1 \in Seq(Int) /\ Len(q1) = 0 + 1 /\ q1[0 + 1] = a
  BY <1>1, AppendText
<1> HIDE DEF q1
<1>3. q2 \in Seq(Int) /\ Len(q2) = Len(q1) + 1 /\ q2[Len(q1) + 1] = b
      /\ \A i \in 1 .. Len(q1) : q2[i] = q1[i]
  BY <1>2, AppendText, Zenon
<1> HIDE DEF q2
<1>4. Len(q) = Len(q2) + 1 /\ q[Len(q2) + 1] = c /\ \A i \in 1 .. Len(q2) : q[i] = q2[i]
  BY <1>3, AppendText, Zenon
<1> HIDE DEF q
<1>5. Len(q1) = 1 /\ Len(q2) = 2 /\ Len(q) = 3 /\ q1[1] = a /\ q2[2] = b /\ q[3] = c
      /\ 1 \in 1 .. Len(q1) /\ 1 \in 1 .. Len(q2) /\ 2 \in 1 .. Len(q2)
  BY <1>2, <1>3, <1>4
<1>6. q2[1] = a /\ q[1] = a /\ q[2] = b
  BY <1>3, <1>4, <1>5
<1>7. Len(<< >>) < 3 /\ Len(q1) < 3 /\ Len(q2) < 3
  BY <1>1, <1>5
<1> QED BY <1>5, <1>6, <1>7 DEF q1, q2, q

(* After three digits of the code of a control character, the fourth is    *)
(* read as the character.                                                  *)
LEMMA LastHex ==
  ASSUME NEW in, NEW p, NEW q, NEW h, NEW l, NEW c \in 0 .. 31,
         Len(q) = 3, q[1] = Zero, q[2] = Zero, q[3] = h,
         HexValue(h) = c \div 16, HexValue(l) = c % 16
  PROVE  Advanced(Reading(in, "code", p, q), l) = Reading(in, "string", Append(p, c), << >>)
<1> DEFINE r == Reading(in, "code", p, q)
<1>1. Advanced(r, l) = InCode(r, l)
  BY StepCode
<1>2. r.in = in /\ r.part = p /\ r.code = q
  BY ReadingIs
<1> HIDE DEF r
<1>3. ~(Len(r.code) < 3)
  <2>1. Len(r.code) = 3
    BY <1>2, Zenon
  <2>2. ~(3 < 3)
    OBVIOUS
  <2> QED BY <2>1, <2>2, Zenon
<1>4. InCode(r, l) = Reading(r.in, "string",
                     Append(r.part, 4096 * HexValue(r.code[1]) + 256 * HexValue(r.code[2])
                                      + 16 * HexValue(r.code[3]) + HexValue(l)), << >>)
  BY <1>3, CodeOf
<1>5. HexValue(Zero) = 0
  BY DEF HexValue, Zero
<1>6. /\ HexValue(r.code[1]) = 0 /\ HexValue(r.code[2]) = 0
      /\ HexValue(r.code[3]) = c \div 16 /\ HexValue(l) = c % 16
  BY <1>2, <1>5
<1>7. 4096 * HexValue(r.code[1]) + 256 * HexValue(r.code[2])
        + 16 * HexValue(r.code[3]) + HexValue(l) = c
  BY <1>6, CodeSum
<1>8. InCode(r, l) = Reading(in, "string", Append(p, c), << >>)
  BY <1>2, <1>4, <1>7
<1> QED BY <1>1, <1>8 DEF r

(* A hexadecimal digit is read as it was written.                          *)
LEMMA HexIs == \A d \in 0 .. 15 : HexValue(Hex(d)) = d /\ Hex(d) \in Nat
BY DEF HexValue, Hex, Zero

(* What div and mod by 16 make of a control character.                     *)
LEMMA HexPair == \A c \in 0 .. 31 : c \div 16 \in 0 .. 15 /\ c % 16 \in 0 .. 15 /\ 16 * (c \div 16) + (c % 16) = c
OBVIOUS

(* A control character written as a code is read as itself.                *)
LEMMA CodeReads ==
  ASSUME NEW in, NEW p, NEW c \in 0 .. 31
  PROVE  LET text == <<Backslash, LetterU, Zero, Zero, Hex(c \div 16), Hex(c % 16)>>
         IN  /\ text \in Seq(Int)
             /\ Run(Reading(in, "string", p, << >>), text) = Reading(in, "string", Append(p, c), << >>)
<1> DEFINE h == Hex(c \div 16)
           l == Hex(c % 16)
           text == <<Backslash, LetterU, Zero, Zero, h, l>>
           s == Reading(in, "string", p, << >>)
           e == Reading(in, "escape", p, << >>)
           k(code) == Reading(in, "code", p, code)
<1>1. /\ c \div 16 \in 0 .. 15 /\ c % 16 \in 0 .. 15 /\ 16 * (c \div 16) + (c % 16) = c
      /\ HexValue(h) = c \div 16 /\ HexValue(l) = c % 16 /\ h \in Nat /\ l \in Nat
  BY HexIs, HexPair
<1>2. Backslash \in Nat /\ LetterU \in Nat /\ Zero \in Nat /\ Backslash # Quote /\ HexValue(Zero) = 0
  BY DEF Backslash, LetterU, Zero, Quote, HexValue
<1> HIDE DEF h, l
<1>3. /\ text \in Seq(Int) /\ Len(text) = 6 /\ text[1] = Backslash /\ text[2] = LetterU
      /\ text[3] = Zero /\ text[4] = Zero /\ text[5] = h /\ text[6] = l
  BY <1>1, <1>2
<1>4. Advanced(s, Backslash) = e
  BY <1>2, StepString, ReadingIs DEF InString
<1>5. Advanced(e, LetterU) = k(<< >>)
  <2>1. Advanced(e, LetterU) = InEscape(e, LetterU) /\ e.in = in /\ e.part = p
    BY StepEscape, ReadingIs
  <2> HIDE DEF e
  <2> QED BY <2>1 DEF InEscape
<1>6. \A code, x : Len(code) < 3 => Advanced(k(code), x) = k(Append(code, x))
  BY StepCode, ReadingIs DEF InCode
<1> DEFINE q1 == Append(<< >>, Zero)
           q2 == Append(q1, Zero)
           q == Append(q2, h)
<1>7. /\ Len(<< >>) < 3 /\ Len(q1) < 3 /\ Len(q2) < 3
      /\ Len(q) = 3 /\ q[1] = Zero /\ q[2] = Zero /\ q[3] = h
  BY <1>1, SignsInt, ThreeAppended
<1> HIDE DEF q, q1, q2
<1>8. Advanced(k(q), l) = Reading(in, "string", Append(p, c), << >>)
  BY <1>1, <1>7, LastHex
<1> HIDE DEF text, s, e, k
<1>9. PICK U : /\ U[0] = s /\ \A n \in 1 .. Len(text) : U[n] = Advanced(U[n - 1], text[n])
               /\ Run(s, text) = U[Len(text)]
  BY <1>3, RunSteps
<1>10. /\ U[1] = Advanced(s, Backslash) /\ U[2] = Advanced(U[1], LetterU) /\ U[3] = Advanced(U[2], Zero)
       /\ U[4] = Advanced(U[3], Zero) /\ U[5] = Advanced(U[4], h) /\ U[6] = Advanced(U[5], l)
  <2>1. \A n \in 1 .. 6 : U[n] = Advanced(U[n - 1], text[n])
    BY <1>3, <1>9
  <2>2. /\ U[1] = Advanced(U[1 - 1], text[1]) /\ U[2] = Advanced(U[2 - 1], text[2])
        /\ U[3] = Advanced(U[3 - 1], text[3]) /\ U[4] = Advanced(U[4 - 1], text[4])
        /\ U[5] = Advanced(U[5 - 1], text[5]) /\ U[6] = Advanced(U[6 - 1], text[6])
    <3>1. 1 \in 1 .. 6 /\ 2 \in 1 .. 6 /\ 3 \in 1 .. 6 /\ 4 \in 1 .. 6 /\ 5 \in 1 .. 6 /\ 6 \in 1 .. 6
      OBVIOUS
    <3> QED BY <2>1, <3>1, Zenon
  <2>3. 1 - 1 = 0 /\ 2 - 1 = 1 /\ 3 - 1 = 2 /\ 4 - 1 = 3 /\ 5 - 1 = 4 /\ 6 - 1 = 5
    OBVIOUS
  <2> QED BY <1>3, <1>9, <2>2, <2>3
<1>11. U[1] = e /\ U[2] = k(<< >>)
  BY <1>4, <1>5, <1>10
<1>12. U[3] = k(q1)
  BY <1>6, <1>7, <1>10, <1>11 DEF q1
<1>13. U[4] = k(q2)
  BY <1>6, <1>7, <1>10, <1>12 DEF q2
<1>14. U[5] = k(q)
  BY <1>6, <1>7, <1>10, <1>13 DEF q
<1>15. U[6] = Reading(in, "string", Append(p, c), << >>)
  BY <1>8, <1>10, <1>14
<1>16. Run(s, text) = Reading(in, "string", Append(p, c), << >>)
  BY <1>3, <1>9, <1>15
<1> QED BY <1>3, <1>16 DEF text, s, h, l

(* Every character of a string is read as itself, however it is escaped.   *)
LEMMA CharReads ==
  ASSUME NEW in, NEW p, NEW c \in Char
  PROVE  /\ EscapedChar(c) \in Seq(Int)
         /\ Run(Reading(in, "string", p, << >>), EscapedChar(c))
              = Reading(in, "string", Append(p, c), << >>)
<1>1. c \in Nat
  BY CharInt
<1>2. CASE c \in DOMAIN ShortEscapes
  <2>1. EscapedChar(c) = <<Backslash, ShortEscapes[c]>>
    BY <1>2 DEF EscapedChar
  <2> QED BY <1>2, <2>1, EscapeReads
<1>3. CASE c \notin DOMAIN ShortEscapes /\ c < 32
  <2>1. EscapedChar(c) = <<Backslash, LetterU, Zero, Zero, Hex(c \div 16), Hex(c % 16)>>
    BY <1>3, Zenon DEF EscapedChar
  <2>2. c \in 0 .. 31
    BY <1>1, <1>3
  <2> QED BY <2>1, <2>2, CodeReads
<1>4. CASE c \notin DOMAIN ShortEscapes /\ ~(c < 32)
  <2>1. EscapedChar(c) = <<c>>
    BY <1>4, Zenon DEF EscapedChar
  <2>2. <<c>> \in Seq(Int)
    BY <1>1
  <2>3. c # Quote /\ c # Backslash
    BY <1>4, ShortEscapesIs DEF Quote, Backslash
  <2>4. Advanced(Reading(in, "string", p, << >>), c) = Reading(in, "string", Append(p, c), << >>)
    <3> DEFINE s == Reading(in, "string", p, << >>)
    <3>1. Advanced(s, c) = InString(s, c) /\ s.in = in /\ s.part = p
      BY StepString, ReadingIs
    <3> HIDE DEF s
    <3>2. Advanced(s, c) = Reading(in, "string", Append(p, c), << >>)
      BY <1>4, <2>3, <3>1, Zenon DEF InString
    <3> QED BY <3>2 DEF s
  <2>5. Run(Reading(in, "string", p, << >>), <<c>>) = Advanced(Reading(in, "string", p, << >>), c)
    <3>1. c \in Int
      BY <1>1
    <3> QED BY <3>1, RunOne
  <2> QED BY <2>1, <2>2, <2>4, <2>5
<1> QED BY <1>2, <1>3, <1>4

(* The first texts of a sequence.                                          *)
First(s, n) == [i \in 1 .. n |-> s[i]]

(* The first n of a sequence are the first n - 1 and one more.             *)
LEMMA FirstIs ==
  ASSUME NEW S, NEW s \in Seq(S)
  PROVE  /\ First(s, 0) = << >> /\ First(s, Len(s)) = s
         /\ \A n \in 1 .. Len(s) : First(s, n) = Append(First(s, n - 1), s[n])
<1>0. Len(s) \in Nat
  OBVIOUS
<1>1. \A n \in 0 .. Len(s) : /\ First(s, n) \in Seq(S) /\ Len(First(s, n)) = n
                             /\ \A i \in 1 .. n : First(s, n)[i] = s[i]
  <2> TAKE n \in 0 .. Len(s)
  <2>1. \A i \in 1 .. n : s[i] \in S
    BY <1>0
  <2>2. n \in Nat
    BY <1>0
  <2>3. [i \in 1 .. n |-> s[i]] \in Seq(S)
    BY <2>1, <2>2
  <2>4. Len([i \in 1 .. n |-> s[i]]) = n
    BY <2>2
  <2> QED BY <2>3, <2>4 DEF First
<1>2. First(s, 0) = << >>
  BY DEF First
<1>3. First(s, Len(s)) = s
  <2>1. Len(s) \in 0 .. Len(s)
    BY <1>0
  <2> DEFINE f == First(s, Len(s))
  <2>2. f \in Seq(S) /\ Len(f) = Len(s) /\ \A i \in 1 .. Len(s) : f[i] = s[i]
    BY <1>1, <2>1
  <2> HIDE DEF f
  <2>3. f = s
    BY <2>2, SameSequence
  <2> QED BY <2>3 DEF f
<1>4. ASSUME NEW n \in 1 .. Len(s) PROVE First(s, n) = Append(First(s, n - 1), s[n])
  <2> DEFINE f == First(s, n)
             g == First(s, n - 1)
  <2>1. n \in 0 .. Len(s) /\ n - 1 \in 0 .. Len(s) /\ s[n] \in S /\ n \in Nat /\ n - 1 + 1 = n
        /\ \A i \in 1 .. n : i \in 1 .. n - 1 \/ i = n
    BY <1>0
  <2>2. f \in Seq(S) /\ Len(f) = n /\ \A i \in 1 .. n : f[i] = s[i]
    BY <1>1, <2>1
  <2>3. g \in Seq(S) /\ Len(g) = n - 1 /\ \A i \in 1 .. n - 1 : g[i] = s[i]
    BY <1>1, <2>1
  <2> HIDE DEF f, g
  <2> DEFINE h == Append(g, s[n])
  <2>4. h \in Seq(S) /\ Len(h) = n /\ (\A i \in 1 .. n - 1 : h[i] = g[i]) /\ h[n] = s[n]
    BY <2>1, <2>3
  <2> HIDE DEF h
  <2>5. \A i \in 1 .. Len(f) : f[i] = h[i]
    BY <2>1, <2>2, <2>3, <2>4
  <2>6. f = h
    BY <2>2, <2>4, <2>5, SameSequence
  <2> QED BY <2>6 DEF f, g, h
<1> QED BY <1>2, <1>3, <1>4

(* A string with its escapes reads as the string.                          *)
LEMMA EscapedReads ==
  ASSUME NEW in, NEW text \in Text
  PROVE  /\ Escaped(text) \in Seq(Int)
         /\ Run(Expecting(in, "string"), Escaped(text)) = Reading(in, "string", text, << >>)
<1> DEFINE texts == [i \in 1 .. Len(text) |-> EscapedChar(text[i])]
           s == Expecting(in, "string")
<1>1. text \in Seq(Char) /\ Len(text) \in Nat /\ \A i \in 1 .. Len(text) : text[i] \in Char
  BY DEF Text
<1>2. texts \in Seq(Seq(Int)) /\ Len(texts) = Len(text)
  <2>1. \A i \in 1 .. Len(text) : EscapedChar(text[i]) \in Seq(Int)
    BY <1>1, CharReads
  <2>2. texts = [i \in 1 .. Len(text) |-> texts[i]] /\ \A i \in 1 .. Len(text) : texts[i] \in Seq(Int)
    BY <2>1
  <2> HIDE DEF texts
  <2> QED BY <1>1, <2>2, FunctionSequence
<1>3. \A n \in 1 .. Len(text) : texts[n] = EscapedChar(text[n])
  OBVIOUS
<1>4. Escaped(text) = Joined(texts)
  BY DEF Escaped
<1> HIDE DEF texts
<1>5. PICK U \in [0 .. Len(texts) -> Seq(Int)] :
        /\ U[0] = << >> /\ \A n \in 1 .. Len(texts) : U[n] = U[n - 1] \o texts[n]
        /\ Joined(texts) = U[Len(texts)]
  BY <1>2, JoinedSteps
<1> DEFINE S == {n \in 0 .. Len(text) : Run(s, U[n]) = Reading(in, "string", First(text, n), << >>)}
<1>6. 0 \in S
  <2>1. Run(s, << >>) = s
    BY RunEmpty
  <2>2. s = Reading(in, "string", First(text, 0), << >>)
    BY <1>1, FirstIs DEF Expecting
  <2>3. 0 \in 0 .. Len(text)
    BY <1>1
  <2> HIDE DEF s
  <2> QED BY <1>5, <2>1, <2>2, <2>3
<1>7. ASSUME NEW n \in 1 .. Len(text), n - 1 \in S PROVE n \in S
  <2>1. n \in 1 .. Len(texts) /\ n - 1 \in 0 .. Len(texts) /\ n \in 0 .. Len(text) /\ text[n] \in Char
    BY <1>1, <1>2
  <2>2. U[n] = U[n - 1] \o EscapedChar(text[n])
    BY <1>3, <1>5, <2>1
  <2>3. U[n - 1] \in Seq(Int) /\ EscapedChar(text[n]) \in Seq(Int)
    BY <1>5, <2>1, CharReads
  <2> HIDE DEF s
  <2>4. Run(s, U[n - 1]) = Reading(in, "string", First(text, n - 1), << >>)
    BY <1>7
  <2>5. Run(s, U[n - 1] \o EscapedChar(text[n])) = Run(Run(s, U[n - 1]), EscapedChar(text[n]))
    BY <2>3, RunConcat
  <2>6. Run(Reading(in, "string", First(text, n - 1), << >>), EscapedChar(text[n]))
          = Reading(in, "string", Append(First(text, n - 1), text[n]), << >>)
    BY <2>1, CharReads
  <2>7. First(text, n) = Append(First(text, n - 1), text[n])
    BY <1>1, FirstIs
  <2>8. Run(s, U[n]) = Reading(in, "string", First(text, n), << >>)
    BY <2>2, <2>4, <2>5, <2>6, <2>7, Zenon
  <2> QED BY <2>1, <2>8
<1> HIDE DEF S, s
<1>8. \A n \in 0 .. Len(text) : n \in S
  BY <1>1, <1>6, <1>7, AllUpTo
<1>9. Len(text) \in S
  BY <1>1, <1>8
<1>10. Run(s, U[Len(text)]) = Reading(in, "string", First(text, Len(text)), << >>)
  BY <1>9 DEF S
<1>11. First(text, Len(text)) = text
  BY <1>1, FirstIs
<1>12. Escaped(text) = U[Len(text)] /\ U[Len(text)] \in Seq(Int)
  BY <1>1, <1>2, <1>4, <1>5
<1> QED BY <1>10, <1>11, <1>12 DEF s

(* A string in quotes is read as the string.                               *)
LEMMA QuotedReads ==
  ASSUME NEW text \in Text
  PROVE  /\ Quoted(text) = <<Quote>> \o (Escaped(text) \o <<Quote>>) /\ Quoted(text) \in Seq(Int)
         /\ Escaped(text) \o <<Quote>> \in Seq(Int)
         /\ \A in : Run(Expecting(in, "string"), Escaped(text) \o <<Quote>>) = EndString(in, text)
<1> DEFINE e == Escaped(text)
           q == <<Quote>>
<1>1. e \in Seq(Int) /\ \A in : Run(Expecting(in, "string"), e) = Reading(in, "string", text, << >>)
  BY EscapedReads
<1>2. q \in Seq(Int) /\ Quote \in Int
  BY DEF Quote
<1>3. Quoted(text) = q \o e \o q
  BY DEF Quoted
<1> HIDE DEF e
<1>4. ASSUME NEW in PROVE Run(Expecting(in, "string"), e \o <<Quote>>) = EndString(in, text)
  <2>1. Run(Expecting(in, "string"), e \o <<Quote>>) = Advanced(Reading(in, "string", text, << >>), Quote)
    BY <1>1, <1>2, RunEnd
  <2>2. Advanced(Reading(in, "string", text, << >>), Quote) = EndString(in, text)
    BY StepString, ReadingIs DEF InString
  <2> QED BY <2>1, <2>2
<1> HIDE DEF q
<1>5. q \o e \o q = q \o (e \o q) /\ q \o (e \o q) \in Seq(Int) /\ e \o q \in Seq(Int)
  <2>1. e \o q \in Seq(Int)
    BY <1>1, <1>2, TextConcat, Zenon
  <2>2. q \o (e \o q) \in Seq(Int)
    BY <1>2, <2>1, TextConcat, Zenon
  <2> QED BY <1>1, <1>2, <2>1, <2>2, TextAssociates, Zenon
<1> QED BY <1>3, <1>4, <1>5 DEF e, q

(* Where a value may stand.                                                *)
Nesting == {"root", "array", "member"}

(* Brackets, comma, colon and quote are different code points, and none    *)
(* is of a number.                                                         *)
LEMMA CodesDiffer ==
  /\ OpenArray \notin NumberChars /\ CloseArray \notin NumberChars /\ OpenObject \notin NumberChars
  /\ CloseObject \notin NumberChars /\ Comma \notin NumberChars
  /\ OpenArray \in Int /\ CloseArray \in Int /\ OpenObject \in Int /\ CloseObject \in Int
  /\ Comma \in Int /\ Colon \in Int /\ Quote \in Int
  /\ CloseArray # OpenArray /\ CloseArray # OpenObject /\ CloseArray # Quote
  /\ CloseObject # Quote /\ CloseArray # CloseObject
  /\ \A c \in Figure \union {Minus} :
       c # CloseArray /\ c # CloseObject /\ c # Quote /\ c # OpenArray /\ c # OpenObject
BY DEF NumberChars, Figure, Zero, Minus, Plus, Point, Exponent, OpenArray, CloseArray, OpenObject,
       CloseObject, Comma, Quote, Colon

(* Where no character of a number follows, a number is over.               *)
LEMMA SettledIs ==
  /\ \A in, mode : mode # "number" => Settled(Expecting(in, mode)) = Expecting(in, mode)
  /\ \A in, p : Settled(Reading(in, "number", p, << >>)) = Delivered(in, NumberOf(p))
  /\ \A in, value : Settled(Delivered(in, value)) = Delivered(in, value)
<1>1. \A in, mode : mode # "number" => Settled(Expecting(in, mode)) = Expecting(in, mode)
  BY ReadingIs DEF Settled, Expecting
<1>2. \A in, p : Settled(Reading(in, "number", p, << >>)) = Delivered(in, NumberOf(p))
  <2> TAKE in, p
  <2> DEFINE r == Reading(in, "number", p, << >>)
  <2>1. r.in = in /\ r.mode = "number" /\ r.part = p
    BY ReadingIs
  <2> HIDE DEF r
  <2>2. Settled(r) = Delivered(in, NumberOf(p))
    BY <2>1 DEF Settled
  <2> QED BY <2>2 DEF r
<1>3. ASSUME NEW in, NEW value PROVE Settled(Delivered(in, value)) = Delivered(in, value)
  BY <1>1 DEF Delivered
<1> QED BY <1>1, <1>2, <1>3

(* Settling a number before a character that ends it changes nothing.      *)
LEMMA Settles ==
  \A s, c : c \notin NumberChars => Advanced(s, c) = Advanced(Settled(s), c)
<1> TAKE s, c
<1> HAVE c \notin NumberChars
<1>1. CASE s.mode = "number"
  <2> DEFINE t == Settled(s)
  <2>1. t = Delivered(s.in, NumberOf(s.part))
    BY <1>1 DEF Settled
  <2>2. t.mode = "after"
    BY <2>1, ReadingIs DEF Delivered, Expecting
  <2>3. Advanced(s, c) = Read1(t, c)
    BY <1>1 DEF Advanced
  <2> HIDE DEF t
  <2>4. Advanced(t, c) = Read1(t, c)
    BY <2>2 DEF Advanced
  <2> QED BY <2>3, <2>4 DEF t
<1>2. CASE s.mode # "number"
  BY <1>2 DEF Settled
<1> QED BY <1>1, <1>2

(* A figure or a minus begins a number.                                    *)
LEMMA BeginNumber ==
  \A in : \A c \in Figure \union {Minus} : Begin(in, c) = Reading(in, "number", <<c>>, << >>)
<1> TAKE in
<1> TAKE c \in Figure \union {Minus}
<1>1. c # Quote /\ c # OpenArray /\ c # OpenObject
  BY CodesDiffer
<1>2. c # Literals.null /\ c \notin {Literals.true, Literals.false}
  BY DEF Literals, Figure, Zero, Minus
<1> QED BY <1>1, <1>2 DEF Begin

(* The text of a number is read as that number where a value may stand.    *)
LEMMA NumberReads ==
  ASSUME NEW in, in.kind \in Nesting, NEW m \in {"value", "first"}, NEW text, NumberText(text)
  PROVE  Settled(Run(Expecting(in, m), text)) = Delivered(in, NumberOf(text))
<1>1. /\ text \in Seq(NumberChars) /\ text \in Seq(Int) /\ text # << >>
      /\ text[1] \in Figure \union {Minus} /\ Len(text) \in Nat /\ Len(text) >= 1
  BY DEF NumberText
<1> DEFINE s == Expecting(in, m)
<1>2. PICK U : /\ U[0] = s /\ \A n \in 1 .. Len(text) : U[n] = Advanced(U[n - 1], text[n])
               /\ Run(s, text) = U[Len(text)]
  BY <1>1, RunSteps
<1>3. Advanced(s, text[1]) = Reading(in, "number", <<text[1]>>, << >>)
  <2>1. ~Closes(in, text[1]) /\ in.kind # "object"
    BY <1>1, CodesDiffer DEF Closes, Nesting
  <2>2. Advanced(s, text[1]) = Begin(in, text[1])
    BY <2>1, StepValue
  <2>3. text[1] # Quote /\ text[1] # OpenArray /\ text[1] # OpenObject
    BY <1>1, CodesDiffer
  <2>4. Begin(in, text[1]) = Reading(in, "number", <<text[1]>>, << >>)
    BY <1>1, BeginNumber
  <2> QED BY <2>2, <2>4
<1> HIDE DEF s
<1> DEFINE S == {n \in 0 .. Len(text) : n > 0 => U[n] = Reading(in, "number", First(text, n), << >>)}
<1>4. 0 \in S
  BY <1>1
<1>5. ASSUME NEW n \in 1 .. Len(text), n - 1 \in S PROVE n \in S
  <2>1. n \in 0 .. Len(text) /\ n - 1 \in 0 .. Len(text) /\ U[n] = Advanced(U[n - 1], text[n])
    BY <1>2
  <2>2. First(text, n) = Append(First(text, n - 1), text[n])
    BY <1>1, FirstIs
  <2>3. CASE n = 1
    <3>1. U[1] = Reading(in, "number", <<text[1]>>, << >>)
      BY <1>2, <1>3, <2>1, <2>3
    <3>2. First(text, 0) = << >>
      BY <1>1, FirstIs
    <3>3. First(text, 1) = <<text[1]>>
      <4>1. First(text, 1) = Append(<< >>, text[1])
        <5>1. 1 - 1 = 0
          OBVIOUS
        <5>2. First(text, 1) = Append(First(text, 1 - 1), text[1])
          BY <2>2, <2>3, Zenon
        <5> QED BY <3>2, <5>1, <5>2, Zenon
      <4>2. text[1] \in Int
        BY <1>1
      <4> QED BY <4>1, <4>2, AppendIs
    <3> QED BY <2>1, <2>3, <3>1, <3>3
  <2>4. CASE n # 1
    <3>1. n - 1 > 0
      BY <2>4
    <3>2. U[n - 1] = Reading(in, "number", First(text, n - 1), << >>)
      BY <1>5, <3>1
    <3>3. text[n] \in NumberChars
      BY <1>1
    <3>4. U[n] = Reading(in, "number", Append(First(text, n - 1), text[n]), << >>)
      BY <2>1, <3>2, <3>3, StepNumber
    <3> QED BY <2>1, <2>2, <3>4
  <2> QED BY <2>3, <2>4
<1> HIDE DEF S
<1>6. \A n \in 0 .. Len(text) : n \in S
  BY <1>1, <1>4, <1>5, AllUpTo
<1>7. U[Len(text)] = Reading(in, "number", First(text, Len(text)), << >>)
  BY <1>1, <1>6 DEF S
<1>8. First(text, Len(text)) = text
  BY <1>1, FirstIs
<1>9. Run(s, text) = Reading(in, "number", text, << >>)
  BY <1>2, <1>7, <1>8
<1> QED BY <1>9, SettledIs DEF s

(* The items of an array, or the members of an object, one after the       *)
(* other. I[n] is where the reader is after n of them.                     *)
LEMMA SeparatedSteps ==
  ASSUME NEW texts \in Seq(Seq(Int))
  PROVE  \E U \in [0 .. Len(texts) -> Seq(Int)] :
           /\ U[0] = << >>
           /\ \A n \in 1 .. Len(texts) :
                U[n] = U[n - 1] \o (IF n = 1 THEN texts[n] ELSE <<Comma>> \o texts[n])
           /\ Separated(texts) = U[Len(texts)]
<1> DEFINE all == << >> \o texts
           parts == [i \in 1 .. Len(all) |-> IF i = 1 THEN all[i] ELSE <<Comma>> \o all[i]]
<1>1. all = texts
  BY ConcatEmpty
<1>2. Separated(texts) = Joined(parts)
  BY DEF Separated
<1> HIDE DEF all
<1>3. parts \in Seq(Seq(Int)) /\ Len(parts) = Len(texts)
  <2>1. \A i \in 1 .. Len(texts) : parts[i] \in Seq(Int)
    <3> TAKE i \in 1 .. Len(texts)
    <3>1. texts[i] \in Seq(Int) /\ <<Comma>> \in Seq(Int)
      BY CodesDiffer
    <3>2. <<Comma>> \o texts[i] \in Seq(Int)
      BY <3>1, TextConcat, Zenon
    <3>3. parts[i] = IF i = 1 THEN texts[i] ELSE <<Comma>> \o texts[i]
      BY <1>1
    <3> QED BY <3>1, <3>2, <3>3, Zenon
  <2>2. parts = [i \in 1 .. Len(texts) |-> parts[i]] /\ Len(texts) \in Nat
    BY <1>1
  <2> HIDE DEF parts
  <2> QED BY <2>1, <2>2, FunctionSequence
<1>4. \A n \in 1 .. Len(texts) : parts[n] = IF n = 1 THEN texts[n] ELSE <<Comma>> \o texts[n]
  BY <1>1, Zenon
<1> HIDE DEF parts
<1>5. PICK U \in [0 .. Len(parts) -> Seq(Int)] :
        /\ U[0] = << >> /\ \A n \in 1 .. Len(parts) : U[n] = U[n - 1] \o parts[n]
        /\ Joined(parts) = U[Len(parts)]
  BY <1>3, JoinedSteps
<1>6. \A n \in 1 .. Len(texts) :
         U[n] = U[n - 1] \o (IF n = 1 THEN texts[n] ELSE <<Comma>> \o texts[n])
  BY <1>3, <1>4, <1>5, Zenon
<1> QED BY <1>2, <1>3, <1>5, <1>6, Zenon

(* What texts with commas between them have, the texts have.               *)
LEMMA SeparatedHolds ==
  ASSUME NEW texts \in Seq(Seq(Int))
  PROVE  /\ Separated(texts) \in Seq(Int)
         /\ \A c : (\E i \in DOMAIN texts : Holds(texts[i], c)) => Holds(Separated(texts), c)
         /\ \A c : c # Comma /\ (\A i \in DOMAIN texts : ~Holds(texts[i], c)) => ~Holds(Separated(texts), c)
<1> DEFINE all == << >> \o texts
           parts == [i \in 1 .. Len(all) |-> IF i = 1 THEN all[i] ELSE <<Comma>> \o all[i]]
<1>1. all = texts
  BY ConcatEmpty
<1>2. Separated(texts) = Joined(parts)
  BY DEF Separated
<1> HIDE DEF all
<1>4. \A n \in 1 .. Len(texts) : parts[n] = IF n = 1 THEN texts[n] ELSE <<Comma>> \o texts[n]
  BY <1>1, Zenon
<1>5. parts = [i \in 1 .. Len(texts) |-> parts[i]] /\ Len(texts) \in Nat
  BY <1>1
<1> HIDE DEF parts
<1>6. <<Comma>> \in Seq(Int)
  BY CodesDiffer
<1>3. parts \in Seq(Seq(Int)) /\ Len(parts) = Len(texts) /\ DOMAIN parts = 1 .. Len(texts)
      /\ DOMAIN texts = 1 .. Len(texts)
  <2>1. \A i \in 1 .. Len(texts) : parts[i] \in Seq(Int)
    <3> TAKE i \in 1 .. Len(texts)
    <3>1. texts[i] \in Seq(Int)
      OBVIOUS
    <3>2. <<Comma>> \o texts[i] \in Seq(Int)
      BY <1>6, <3>1, TextConcat, Zenon
    <3> QED BY <1>4, <3>1, <3>2, Zenon
  <2>2. parts \in Seq(Seq(Int)) /\ Len(parts) = Len(texts) /\ DOMAIN parts = 1 .. Len(texts)
    BY <1>5, <2>1, FunctionSequence
  <2>3. DOMAIN texts = 1 .. Len(texts)
    OBVIOUS
  <2> QED BY <2>2, <2>3
<1>7. Separated(texts) \in Seq(Int)
  BY <1>2, <1>3, JoinedType
<1>8. \A i \in 1 .. Len(texts) : \A c : Holds(<<Comma>> \o texts[i], c) <=> (c = Comma \/ Holds(texts[i], c))
  <2> TAKE i \in 1 .. Len(texts)
  <2> TAKE c
  <2>1. texts[i] \in Seq(Int)
    OBVIOUS
  <2>2. Holds(<<Comma>>, c) <=> c = Comma
    BY DEF Holds
  <2> QED BY <1>6, <2>1, <2>2, ConcatHolds
<1>9. ASSUME NEW c, NEW i \in DOMAIN texts, Holds(texts[i], c) PROVE Holds(Separated(texts), c)
  <2>1. Holds(parts[i], c)
    BY <1>3, <1>4, <1>8, <1>9, Zenon
  <2> QED BY <1>2, <1>3, <2>1, JoinedHolds
<1>10. ASSUME NEW c, c # Comma, \A i \in DOMAIN texts : ~Holds(texts[i], c)
       PROVE  ~Holds(Separated(texts), c)
  <2>1. \A i \in DOMAIN parts : ~Holds(parts[i], c)
    BY <1>3, <1>4, <1>8, <1>10, Zenon
  <2> QED BY <1>2, <1>3, <2>1, JoinedFree
<1> QED BY <1>7, <1>9, <1>10

(* A list whose items are each read as they should be is read as all of    *)
(* them, up to its bracket.                                                *)
LEMMA ListReads ==
  ASSUME NEW texts \in Seq(Seq(Int)), NEW I, NEW close,
         \A n \in 0 .. Len(texts) : I[n].kind \in {"array", "object"} /\ Closes(I[n], close),
         close \notin NumberChars,
         \A n \in 1 .. Len(texts) : \A m \in {"value", "first"} :
           Settled(Run(Expecting(I[n - 1], m), texts[n])) = Expecting(I[n], "after")
  PROVE  Advanced(Run(Expecting(I[0], "first"), Separated(texts)), close) = Close(I[Len(texts)])
<1>1. PICK U \in [0 .. Len(texts) -> Seq(Int)] :
        /\ U[0] = << >>
        /\ \A n \in 1 .. Len(texts) :
             U[n] = U[n - 1] \o (IF n = 1 THEN texts[n] ELSE <<Comma>> \o texts[n])
        /\ Separated(texts) = U[Len(texts)]
  BY SeparatedSteps
<1>2. Len(texts) \in Nat
  OBVIOUS
<1> DEFINE s == Expecting(I[0], "first")
           R(n) == Run(s, U[n])
           S == {n \in 0 .. Len(texts) : n > 0 => Settled(R(n)) = Expecting(I[n], "after")}
<1>3. R(0) = s
  BY <1>1, RunEmpty
<1>4. 0 \in S
  BY <1>2
<1>5. ASSUME NEW n \in 1 .. Len(texts), n - 1 \in S PROVE n \in S
  <2>1. /\ n \in 0 .. Len(texts) /\ n - 1 \in 0 .. Len(texts) /\ texts[n] \in Seq(Int)
        /\ U[n - 1] \in Seq(Int) /\ <<Comma>> \in Seq(Int) /\ Comma \in Int
    <3>1. n \in 0 .. Len(texts) /\ n - 1 \in 0 .. Len(texts) /\ texts[n] \in Seq(Int)
      OBVIOUS
    <3>2. U[n - 1] \in Seq(Int)
      BY <1>1, <3>1
    <3>3. <<Comma>> \in Seq(Int) /\ Comma \in Int
      BY CodesDiffer
    <3> QED BY <3>1, <3>2, <3>3
  <2> HIDE DEF s
  <2>2. CASE n = 1
    <3>1. U[n] = << >> \o texts[n]
      <4>1. n - 1 = 0
        BY <2>2
      <4>2. U[n] = U[n - 1] \o (IF n = 1 THEN texts[n] ELSE <<Comma>> \o texts[n])
        BY <1>1, Zenon
      <4>3. U[n] = U[n - 1] \o texts[n]
        BY <4>2, <2>2, Zenon
      <4> QED BY <1>1, <4>1, <4>3, Zenon
    <3>2. U[n] = texts[n]
      BY <2>1, <3>1, ConcatEmpty
    <3>3. Settled(Run(Expecting(I[n - 1], "first"), texts[n])) = Expecting(I[n], "after")
      OBVIOUS
    <3>4. I[n - 1] = I[0]
      BY <2>2
    <3>5. Settled(R(n)) = Expecting(I[n], "after")
      BY <3>2, <3>3, <3>4 DEF s
    <3> QED BY <2>1, <3>5
  <2>3. CASE n # 1
    <3>1. Settled(R(n - 1)) = Expecting(I[n - 1], "after")
      BY <1>5, <2>3
    <3>2. U[n] = U[n - 1] \o (<<Comma>> \o texts[n])
      BY <1>1, <2>3, Zenon
    <3>3. <<Comma>> \o texts[n] \in Seq(Int)
      BY <2>1, TextConcat, Zenon
    <3>4. Run(s, U[n - 1] \o (<<Comma>> \o texts[n])) = Run(R(n - 1), <<Comma>> \o texts[n])
      <4> DEFINE t == <<Comma>> \o texts[n]
      <4>1. t \in Seq(Int) /\ U[n - 1] \in Seq(Int)
        BY <2>1, <3>3
      <4> HIDE DEF t
      <4>2. Run(s, U[n - 1] \o t) = Run(Run(s, U[n - 1]), t)
        BY <4>1, RunConcat
      <4> QED BY <4>2 DEF t
    <3>5. Run(R(n - 1), <<Comma>> \o texts[n]) = Run(Advanced(R(n - 1), Comma), texts[n])
      BY <2>1, RunThen
    <3>6. Advanced(R(n - 1), Comma) = Expecting(I[n - 1], "value")
      <4>1. Advanced(R(n - 1), Comma) = Advanced(Settled(R(n - 1)), Comma)
        BY Settles, CodesDiffer
      <4>2. I[n - 1].kind \in {"array", "object"}
        BY <2>1
      <4> QED BY <3>1, <4>1, <4>2, StepComma
    <3>7. Settled(Run(Expecting(I[n - 1], "value"), texts[n])) = Expecting(I[n], "after")
      OBVIOUS
    <3>8. Settled(R(n)) = Expecting(I[n], "after")
      BY <3>2, <3>4, <3>5, <3>6, <3>7, Zenon
    <3> QED BY <2>1, <3>8
  <2> QED BY <2>2, <2>3
<1> DEFINE N == Len(texts)
           X == R(N)
<1>6. \A n \in 0 .. N : n \in S
  <2> HIDE DEF S
  <2> QED BY <1>2, <1>4, <1>5, AllUpTo
<1>7. Advanced(X, close) = Close(I[N])
  <2>1. Advanced(X, close) = Advanced(Settled(X), close)
    BY Settles
  <2>2. N \in 0 .. N /\ 0 \in 0 .. N /\ Closes(I[N], close)
    BY <1>2
  <2>3. CASE N = 0
    <3>1. X = s
      BY <1>3, <2>3
    <3>2. Settled(X) = Expecting(I[0], "first")
      BY <3>1, SettledIs
    <3> HIDE DEF X
    <3>3. Advanced(Expecting(I[0], "first"), close) = Close(I[0])
      BY <2>2, <2>3, StepClose
    <3> QED BY <2>1, <2>3, <3>2, <3>3
  <2>4. CASE N # 0
    <3>1. Settled(X) = Expecting(I[N], "after")
      BY <1>2, <1>6, <2>2, <2>4
    <3> HIDE DEF X
    <3>3. Advanced(Expecting(I[N], "after"), close) = Close(I[N])
      BY <2>2, StepClose
    <3> QED BY <2>1, <3>1, <3>3
  <2> QED BY <2>3, <2>4
<1> QED BY <1>1, <1>7

------------------------------------------------------------------------------
(* The order of members.                                                   *)

(* The order of texts.                                                     *)
LEMMA PrecedesNot == \A s \in Seq(Int) : ~Precedes(s, s)
BY DEF Precedes

(* The order of texts is transitive.                                       *)
LEMMA PrecedesAfter ==
  ASSUME NEW s \in Seq(Int), NEW t \in Seq(Int), NEW u \in Seq(Int), Precedes(s, t), Precedes(t, u)
  PROVE  Precedes(s, u)
<1>0. Len(s) \in Nat /\ Len(t) \in Nat /\ Len(u) \in Nat
      /\ (\A i \in 1 .. Len(s) : s[i] \in Int) /\ (\A i \in 1 .. Len(t) : t[i] \in Int)
      /\ (\A i \in 1 .. Len(u) : u[i] \in Int)
  OBVIOUS
<1>1. CASE /\ Len(s) < Len(t) /\ \A i \in 1 .. Len(s) : s[i] = t[i]
           /\ Len(t) < Len(u) /\ \A i \in 1 .. Len(t) : t[i] = u[i]
  BY <1>0, <1>1 DEF Precedes
<1>2. ASSUME Len(s) < Len(t), \A i \in 1 .. Len(s) : s[i] = t[i], NEW k \in 1 .. Len(t),
             k <= Len(u), t[k] < u[k], \A j \in 1 .. k - 1 : t[j] = u[j]
      PROVE  Precedes(s, u)
  <2>1. CASE k <= Len(s)
    <3>1. k \in 1 .. Len(s) /\ \A j \in 1 .. k - 1 : j \in 1 .. Len(s)
      BY <1>0, <2>1
    <3>2. s[k] < u[k] /\ \A j \in 1 .. k - 1 : s[j] = u[j]
      BY <1>2, <3>1, Zenon
    <3> QED BY <1>2, <3>1, <3>2, Zenon DEF Precedes
  <2>2. CASE k > Len(s)
    <3>1. Len(s) < Len(u) /\ \A j \in 1 .. Len(s) : j \in 1 .. k - 1
      BY <1>0, <1>2, <2>2
    <3>2. \A j \in 1 .. Len(s) : s[j] = u[j]
      BY <1>2, <3>1, Zenon
    <3> QED BY <3>1, <3>2, Zenon DEF Precedes
  <2> QED BY <1>0, <2>1, <2>2
<1>3. ASSUME NEW i \in 1 .. Len(s), i <= Len(t), s[i] < t[i], \A j \in 1 .. i - 1 : s[j] = t[j],
             Len(t) < Len(u), \A j \in 1 .. Len(t) : t[j] = u[j]
      PROVE  Precedes(s, u)
  <2>1. i \in 1 .. Len(t) /\ i <= Len(u)
    BY <1>0, <1>3
  <2>2. t[i] = u[i]
    BY <1>3, <2>1
  <2>3. \A j \in 1 .. i - 1 : j \in 1 .. Len(t)
    BY <1>0, <2>1
  <2>4. \A j \in 1 .. i - 1 : s[j] = u[j]
    BY <1>3, <2>3
  <2> QED BY <1>3, <2>1, <2>2, <2>4 DEF Precedes
<1>4. ASSUME NEW i \in 1 .. Len(s), i <= Len(t), s[i] < t[i], \A j \in 1 .. i - 1 : s[j] = t[j],
             NEW k \in 1 .. Len(t), k <= Len(u), t[k] < u[k], \A j \in 1 .. k - 1 : t[j] = u[j]
      PROVE  Precedes(s, u)
  <2>1. CASE i <= k
    <3>0. i \in Nat /\ k \in Nat /\ 1 <= i /\ i <= k /\ i <= Len(t) /\ k <= Len(u)
      BY <1>0, <1>4, <2>1
    <3>1. i <= Len(u) /\ i \in 1 .. Len(t) /\ i \in 1 .. Len(u) /\ (i < k => i \in 1 .. k - 1)
          /\ \A j \in 1 .. i - 1 : j \in 1 .. k - 1
      <4>1. \A a, b, m, n \in Nat : 1 <= a /\ a <= b /\ a <= m /\ b <= n
              => /\ a <= n /\ a \in 1 .. m /\ a \in 1 .. n /\ (a < b => a \in 1 .. b - 1)
                 /\ \A j \in 1 .. a - 1 : j \in 1 .. b - 1
        OBVIOUS
      <4> QED BY ONLY <1>0, <3>0, <4>1, Zenon
    <3>2. s[i] < u[i]
      <4>0. s[i] \in Int /\ t[i] \in Int /\ u[i] \in Int
        BY ONLY <1>0, <3>1, i \in 1 .. Len(s), Zenon
      <4>1. CASE i < k
        <5>1. t[i] = u[i]
          BY ONLY <1>4, <3>1, <4>1, Zenon
        <5> QED BY ONLY <1>4, <5>1, Zenon
      <4>2. CASE i = k
        <5>1. t[i] < u[i]
          BY ONLY <1>4, <4>2, Zenon
        <5>2. \A a, b, c \in Int : a < b /\ b < c => a < c
          OBVIOUS
        <5> QED BY ONLY <1>4, <4>0, <5>1, <5>2, Zenon
      <4>3. i < k \/ i = k
        BY ONLY <3>0
      <4> QED BY <4>1, <4>2, <4>3
    <3>3. \A j \in 1 .. i - 1 : s[j] = u[j]
      BY <1>4, <3>1
    <3> QED BY <3>1, <3>2, <3>3 DEF Precedes
  <2>2. CASE k < i
    <3>1. k \in 1 .. Len(s) /\ k \in 1 .. i - 1 /\ \A j \in 1 .. k - 1 : j \in 1 .. i - 1
      BY <1>0, <2>2
    <3>2. s[k] = t[k] /\ \A j \in 1 .. k - 1 : s[j] = t[j]
      BY <1>4, <3>1
    <3>3. s[k] < u[k]
      BY <1>4, <3>2
    <3>4. \A j \in 1 .. k - 1 : s[j] = u[j]
      BY <1>4, <3>2
    <3> QED BY <3>1, <3>3, <3>4, <1>4 DEF Precedes
  <2> QED BY <1>0, <2>1, <2>2
<1> QED BY <1>1, <1>2, <1>3, <1>4 DEF Precedes

(* Of two different texts one precedes the other.                          *)
LEMMA PrecedesOne ==
  ASSUME NEW s \in Seq(Int), NEW t \in Seq(Int), s # t
  PROVE  Precedes(s, t) \/ Precedes(t, s)
<1>0. Len(s) \in Nat /\ Len(t) \in Nat
      /\ (\A i \in 1 .. Len(s) : s[i] \in Int) /\ (\A i \in 1 .. Len(t) : t[i] \in Int)
  OBVIOUS
<1> DEFINE T == {i \in Nat : i \in 1 .. Len(s) /\ i \in 1 .. Len(t) /\ s[i] # t[i]}
<1>1. CASE T = {}
  <2>1. \A i \in 1 .. Len(s) : i <= Len(t) => s[i] = t[i]
    <3> TAKE i \in 1 .. Len(s)
    <3> HAVE i <= Len(t)
    <3>1. i \in Nat /\ i \in 1 .. Len(t)
      BY <1>0
    <3> QED BY <1>1, <3>1
  <2>2. CASE Len(s) < Len(t)
    BY <1>0, <2>1, <2>2 DEF Precedes
  <2>3. CASE Len(t) < Len(s)
    BY <1>0, <2>1, <2>3 DEF Precedes
  <2>4. Len(s) # Len(t)
    BY <1>0, <2>1, SameText
  <2> QED BY <1>0, <2>2, <2>3, <2>4
<1>2. CASE T # {}
  <2>1. PICK x \in T : \A y \in T : x <= y
    BY <1>2, LeastElement
  <2>2. /\ x \in 1 .. Len(s) /\ x <= Len(t) /\ x \in 1 .. Len(t) /\ x <= Len(s) /\ s[x] # t[x]
        /\ \A j \in 1 .. x - 1 : s[j] = t[j]
    <3>1. x \in 1 .. Len(s) /\ x \in 1 .. Len(t) /\ s[x] # t[x] /\ x \in Nat
      BY <2>1
    <3>2. ASSUME NEW j \in 1 .. x - 1 PROVE s[j] = t[j]
      <4>1. j \notin T
        <5>1. j \in Nat /\ ~(x <= j)
          BY <3>1
        <5> HIDE DEF T
        <5> QED BY <2>1, <5>1
      <4> QED BY <1>0, <3>1, <4>1
    <3> QED BY <1>0, <3>1, <3>2
  <2>3. s[x] < t[x] \/ t[x] < s[x]
    BY <1>0, <2>2
  <2> HIDE DEF T
  <2> QED BY <2>2, <2>3 DEF Precedes
<1> QED BY <1>1, <1>2

(* The ranks of characters.                                                *)
LEMMA RankIs == \A c, e \in Char : Rank(c) \in Int /\ (Rank(c) = Rank(e) => c = e)
BY DEF Rank, Char

(* The ranks of a text are as many as its characters.                      *)
LEMMA RanksIs ==
  ASSUME NEW a \in Text
  PROVE  Ranks(a) \in Seq(Int) /\ Len(Ranks(a)) = Len(a) /\ \A i \in 1 .. Len(a) : Ranks(a)[i] = Rank(a[i])
<1>1. Len(a) \in Nat /\ \A i \in 1 .. Len(a) : Rank(a[i]) \in Int
  BY RankIs DEF Text
<1> QED BY <1>1 DEF Ranks

(* Different texts have different ranks.                                   *)
LEMMA RanksDiffer ==
  ASSUME NEW a \in Text, NEW b \in Text, a # b
  PROVE  Ranks(a) # Ranks(b)
<1>1. a \in Seq(Char) /\ b \in Seq(Char)
  BY DEF Text
<1>2. SUFFICES ASSUME Ranks(a) = Ranks(b) PROVE FALSE
  OBVIOUS
<1>3. Len(a) = Len(b)
  BY <1>2, RanksIs
<1>4. \A i \in 1 .. Len(a) : a[i] = b[i]
  <2> TAKE i \in 1 .. Len(a)
  <2>1. Rank(a[i]) = Rank(b[i])
    BY <1>2, <1>3, RanksIs
  <2>2. a[i] \in Char /\ b[i] \in Char
    BY <1>1, <1>3
  <2> QED BY <2>1, <2>2, RankIs
<1>5. a = b
  BY <1>1, <1>3, <1>4, SameSequence
<1> QED BY <1>5

(* A character is one code unit or two.                                    *)
LEMMA UnitsIs == \A c \in Char : Units(c) \in Seq(Int) /\ Len(Units(c)) \in {1, 2}
BY DEF Units, Char

(* The two parts of a character beyond the basic plane.                    *)
LEMMA BeyondPlane == \A c \in Nat : c >= 65536 /\ c <= 1114111 =>
  /\ (c - 65536) \div 1024 \in 0 .. 1023 /\ (c - 65536) % 1024 \in 0 .. 1023
  /\ c - 65536 = 1024 * ((c - 65536) \div 1024) + ((c - 65536) % 1024)
OBVIOUS

(* Characters of different rank differ at a code unit of both, and by      *)
(* their rank.                                                             *)
LEMMA UnitsOrder ==
  ASSUME NEW c \in Char, NEW e \in Char, Rank(c) < Rank(e)
  PROVE  \E k \in Nat : /\ k \in 1 .. Len(Units(c)) /\ k \in 1 .. Len(Units(e)) /\ Units(c)[k] < Units(e)[k]
                        /\ \A j \in 1 .. k - 1 : Units(c)[j] = Units(e)[j]
<1>1. c \in Nat /\ e \in Nat /\ c <= 1114111 /\ e <= 1114111 /\ (c < 55296 \/ c > 57343) /\ (e < 55296 \/ e > 57343)
  BY DEF Char
<1>2. CASE c < 65536 /\ e < 65536
  <2>1. Units(c) = <<c>> /\ Units(e) = <<e>> /\ c < e
    BY <1>1, <1>2 DEF Units, Rank
  <2>2. 1 \in 1 .. Len(Units(c)) /\ 1 \in 1 .. Len(Units(e)) /\ Units(c)[1] < Units(e)[1]
    BY <2>1
  <2> QED BY <2>2
<1>3. CASE c < 65536 /\ e >= 65536
  <2> DEFINE h == 55296 + (e - 65536) \div 1024
             l == 56320 + ((e - 65536) % 1024)
  <2>1. Units(c) = <<c>> /\ Units(e) = <<h, l>>
    BY <1>1, <1>3 DEF Units
  <2>2. c < 55296
    BY <1>1, <1>3 DEF Rank
  <2>3. (e - 65536) \div 1024 \in 0 .. 1023
    BY <1>1, <1>3, BeyondPlane
  <2>4. c < h
    BY <1>1, <2>2, <2>3
  <2> HIDE DEF h, l
  <2>5. 1 \in 1 .. Len(Units(c)) /\ 1 \in 1 .. Len(Units(e)) /\ Units(c)[1] < Units(e)[1]
    BY <2>1, <2>4
  <2> QED BY <2>5
<1>4. CASE c >= 65536 /\ e < 65536
  <2> DEFINE h == 55296 + (c - 65536) \div 1024
             l == 56320 + ((c - 65536) % 1024)
  <2>1. Units(e) = <<e>> /\ Units(c) = <<h, l>>
    BY <1>1, <1>4 DEF Units
  <2>2. e > 57343
    BY <1>1, <1>4 DEF Rank
  <2>3. (c - 65536) \div 1024 \in 0 .. 1023
    BY <1>1, <1>4, BeyondPlane
  <2>4. h < e
    BY <1>1, <2>2, <2>3
  <2> HIDE DEF h, l
  <2>5. 1 \in 1 .. Len(Units(c)) /\ 1 \in 1 .. Len(Units(e)) /\ Units(c)[1] < Units(e)[1]
    BY <2>1, <2>4
  <2> QED BY <2>5
<1>5. CASE c >= 65536 /\ e >= 65536
  <2> DEFINE hc == 55296 + (c - 65536) \div 1024
             lc == 56320 + ((c - 65536) % 1024)
             he == 55296 + (e - 65536) \div 1024
             le == 56320 + ((e - 65536) % 1024)
  <2>1. Units(c) = <<hc, lc>> /\ Units(e) = <<he, le>>
    BY <1>1, <1>5 DEF Units
  <2>2. c < e
    BY <1>1, <1>5 DEF Rank
  <2>3. hc < he \/ (hc = he /\ lc < le)
    BY <1>1, <1>5, <2>2, BeyondPlane
  <2> HIDE DEF hc, lc, he, le
  <2>4. 1 \in 1 .. Len(Units(c)) /\ 1 \in 1 .. Len(Units(e)) /\ 2 \in 1 .. Len(Units(c)) /\ 2 \in 1 .. Len(Units(e))
        /\ Units(c)[1] = hc /\ Units(c)[2] = lc /\ Units(e)[1] = he /\ Units(e)[2] = le
    BY <2>1
  <2>5. CASE hc < he
    BY <2>4, <2>5
  <2>6. CASE hc = he /\ lc < le
    <3>1. \A j \in 1 .. 2 - 1 : Units(c)[j] = Units(e)[j]
      BY <2>4, <2>6
    <3> QED BY <2>4, <2>6, <3>1
  <2> QED BY <2>3, <2>5, <2>6
<1> QED BY <1>1, <1>2, <1>3, <1>4, <1>5

(* The code units of a text are those of its characters, joined.           *)
LEMMA UnitsAll ==
  ASSUME NEW a \in Text
  PROVE  LET texts == [i \in 1 .. Len(a) |-> Units(a[i])]
         IN  /\ texts \in Seq(Seq(Int)) /\ Len(texts) = Len(a) /\ Utf16(a) = Joined(texts)
             /\ \A i \in 1 .. Len(a) : texts[i] = Units(a[i]) /\ Len(texts[i]) >= 1
<1> DEFINE texts == [i \in 1 .. Len(a) |-> Units(a[i])]
<1>1. Len(a) \in Nat /\ \A i \in 1 .. Len(a) : Units(a[i]) \in Seq(Int) /\ Len(Units(a[i])) >= 1
  <2>1. Len(a) \in Nat /\ \A i \in 1 .. Len(a) : a[i] \in Char
    BY DEF Text
  <2>2. \A c \in Char : Units(c) \in Seq(Int) /\ Len(Units(c)) >= 1
    <3> TAKE c \in Char
    <3>1. Units(c) \in Seq(Int) /\ Len(Units(c)) \in {1, 2}
      BY UnitsIs
    <3> QED BY <3>1
  <2> QED BY <2>1, <2>2
<1>2. \A i \in 1 .. Len(a) : texts[i] = Units(a[i])
  OBVIOUS
<1>3. texts = [i \in 1 .. Len(a) |-> texts[i]]
  OBVIOUS
<1>4. Utf16(a) = Joined(texts)
  BY DEF Utf16
<1> HIDE DEF texts
<1>5. texts \in Seq(Seq(Int)) /\ Len(texts) = Len(a)
  BY <1>1, <1>2, <1>3, FunctionSequence
<1> QED BY <1>1, <1>2, <1>4, <1>5 DEF texts

(* The code units of a text are numbers.                                   *)
LEMMA Utf16Type == \A a \in Text : Utf16(a) \in Seq(Int)
BY UnitsAll, JoinedType

(* Texts that agree up to some place are the same joined up to there.      *)
LEMMA JoinedSame ==
  ASSUME NEW s \in Seq(Seq(Int)), NEW t \in Seq(Seq(Int)),
         NEW U \in [0 .. Len(s) -> Seq(Int)], NEW V \in [0 .. Len(t) -> Seq(Int)],
         U[0] = << >>, V[0] = << >>,
         \A n \in 1 .. Len(s) : U[n] = U[n - 1] \o s[n],
         \A n \in 1 .. Len(t) : V[n] = V[n - 1] \o t[n],
         NEW k \in Nat, k <= Len(s), k <= Len(t), \A i \in 1 .. k : s[i] = t[i]
  PROVE  U[k] = V[k]
<1> DEFINE S == {n \in 0 .. k : U[n] = V[n]}
<1>1. 0 \in S
  OBVIOUS
<1>2. ASSUME NEW n \in 1 .. k, n - 1 \in S PROVE n \in S
  <2>1. n \in 1 .. Len(s) /\ n \in 1 .. Len(t) /\ n \in 0 .. k
    OBVIOUS
  <2>2. U[n] = U[n - 1] \o s[n] /\ V[n] = V[n - 1] \o t[n] /\ s[n] = t[n]
    BY <2>1
  <2>3. U[n - 1] = V[n - 1]
    BY <1>2
  <2>4. U[n] = V[n]
    BY <2>2, <2>3, Zenon
  <2> QED BY <2>1, <2>4
<1> HIDE DEF S
<1>3. k \in 0 .. k
  OBVIOUS
<1>4. \A n \in 0 .. k : n \in S
  BY <1>1, <1>2, AllUpTo
<1> QED BY <1>3, <1>4 DEF S

(* The place of a text in the texts joined.                                *)
LEMMA JoinedAt ==
  ASSUME NEW s \in Seq(Seq(Int)), NEW U \in [0 .. Len(s) -> Seq(Int)],
         \A n \in 1 .. Len(s) : U[n] = U[n - 1] \o s[n],
         NEW i \in 1 .. Len(s), NEW w \in Seq(Int), U[i - 1] = w, NEW k \in 1 .. Len(s[i])
  PROVE  /\ Len(w) + k \in 1 .. Len(U[Len(s)])
         /\ U[Len(s)][Len(w) + k] = s[i][k]
         /\ \A j \in 1 .. Len(w) : U[Len(s)][j] = w[j]
<1>1. /\ i \in 0 .. Len(s) /\ i - 1 \in 0 .. i /\ Len(s) \in 0 .. Len(s) /\ i \in 0 .. Len(s) /\ s[i] \in Seq(Int)
      /\ i - 1 \in 0 .. Len(s)
  OBVIOUS
<1>2. U[i] = w \o s[i]
  OBVIOUS
<1>3. /\ Len(U[i]) = Len(w) + Len(s[i]) /\ U[i][Len(w) + k] = s[i][k]
      /\ \A j \in 1 .. Len(w) : U[i][j] = w[j]
  BY <1>1, <1>2, TextConcat
<1>4. /\ Len(U[i]) \in Nat /\ Len(U[Len(s)]) \in Nat /\ Len(U[i]) <= Len(U[Len(s)])
      /\ \A j \in 1 .. Len(U[i]) : U[Len(s)][j] = U[i][j]
  BY <1>1, JoinedGrows
<1>5. Len(w) \in Nat /\ Len(s[i]) \in Nat
  BY <1>1
<1>6. Len(w) + k \in 1 .. Len(U[i]) /\ \A j \in 1 .. Len(w) : j \in 1 .. Len(U[i])
  <2>1. \A a, b \in Nat : \A l \in 1 .. b : a + l \in 1 .. a + b /\ \A j \in 1 .. a : j \in 1 .. a + b
    OBVIOUS
  <2>2. Len(U[i]) = Len(w) + Len(s[i])
    BY <1>3
  <2> QED BY <1>5, <2>1, <2>2, Zenon
<1>7. Len(w) + k \in 1 .. Len(U[Len(s)])
  BY <1>4, <1>6
<1> QED BY <1>3, <1>4, <1>6, <1>7

(* compare_utf16: a text whose ranks are less is less by its code units.   *)
LEMMA RanksLess ==
  ASSUME NEW a \in Text, NEW b \in Text, Precedes(Ranks(a), Ranks(b))
  PROVE  Less(a, b)
<1> DEFINE s == [i \in 1 .. Len(a) |-> Units(a[i])]
           t == [i \in 1 .. Len(b) |-> Units(b[i])]
           r == Ranks(a)
           q == Ranks(b)
<1>0. /\ Len(a) \in Nat /\ Len(b) \in Nat
      /\ (\A i \in 1 .. Len(a) : a[i] \in Char) /\ (\A i \in 1 .. Len(b) : b[i] \in Char)
  BY DEF Text
<1>1. /\ s \in Seq(Seq(Int)) /\ Len(s) = Len(a) /\ Utf16(a) = Joined(s)
      /\ \A i \in 1 .. Len(a) : s[i] = Units(a[i]) /\ Len(s[i]) >= 1
  BY UnitsAll
<1>2. /\ t \in Seq(Seq(Int)) /\ Len(t) = Len(b) /\ Utf16(b) = Joined(t)
      /\ \A i \in 1 .. Len(b) : t[i] = Units(b[i]) /\ Len(t[i]) >= 1
  BY UnitsAll
<1>3. /\ Len(r) = Len(a) /\ Len(q) = Len(b)
      /\ (\A i \in 1 .. Len(a) : r[i] = Rank(a[i])) /\ (\A i \in 1 .. Len(b) : q[i] = Rank(b[i]))
  BY RanksIs
<1>4. Precedes(r, q)
  OBVIOUS
<1> HIDE DEF s, t, r, q
<1>5. \A i : i \in 1 .. Len(a) /\ i \in 1 .. Len(b) /\ r[i] = q[i] => s[i] = t[i]
  BY <1>0, <1>1, <1>2, <1>3, RankIs
<1>6. PICK U \in [0 .. Len(s) -> Seq(Int)] :
        /\ U[0] = << >> /\ \A n \in 1 .. Len(s) : U[n] = U[n - 1] \o s[n]
        /\ Joined(s) = U[Len(s)]
  BY <1>1, JoinedSteps
<1>7. PICK V \in [0 .. Len(t) -> Seq(Int)] :
        /\ V[0] = << >> /\ \A n \in 1 .. Len(t) : V[n] = V[n - 1] \o t[n]
        /\ Joined(t) = V[Len(t)]
  BY <1>2, JoinedSteps
<1>8. CASE Len(r) < Len(q) /\ \A i \in 1 .. Len(r) : r[i] = q[i]
  <2> DEFINE n == Len(s)
             w == U[n]
  <2>1. n \in Nat /\ n <= Len(s) /\ n <= Len(t) /\ \A i \in 1 .. n : s[i] = t[i]
    <3>1. n \in Nat /\ n <= Len(s) /\ n <= Len(t) /\ n = Len(r) /\ n = Len(a)
      BY <1>0, <1>1, <1>2, <1>3, <1>8
    <3>2. ASSUME NEW i \in 1 .. n PROVE s[i] = t[i]
      <4>1. i \in 1 .. Len(r) /\ i \in 1 .. Len(a) /\ i \in 1 .. Len(b)
        BY <1>0, <1>2, <3>1
      <4>2. r[i] = q[i]
        BY <1>8, <4>1
      <4> QED BY <1>5, <4>1, <4>2
    <3> QED BY <3>1, <3>2
  <2>2. U[n] = V[n]
    BY <1>1, <1>2, <1>6, <1>7, <2>1, JoinedSame
  <2>3. n + 1 \in 1 .. Len(t) /\ n + 1 - 1 = n /\ Len(t[n + 1]) >= 1 /\ n \in 0 .. Len(s)
    BY <1>0, <1>1, <1>2, <1>3, <1>8
  <2>4. w \in Seq(Int) /\ V[n + 1 - 1] = w
    BY <1>6, <2>2, <2>3
  <2>5. 1 \in 1 .. Len(t[n + 1])
    <3>1. t[n + 1] \in Seq(Int)
      BY <1>2, <2>3
    <3> QED BY <2>3, <3>1
  <2> HIDE DEF w
  <2>6. /\ Len(w) + 1 \in 1 .. Len(V[Len(t)]) /\ \A j \in 1 .. Len(w) : V[Len(t)][j] = w[j]
    <3>1. n + 1 \in 1 .. Len(t)
      BY <2>3
    <3> DEFINE i == n + 1
    <3>2. i \in 1 .. Len(t) /\ V[i - 1] = w /\ 1 \in 1 .. Len(t[i])
      BY <2>3, <2>4, <2>5
    <3> HIDE DEF i, n
    <3> QED BY <1>2, <1>7, <2>4, <3>2, JoinedAt
  <2>7. V[Len(t)] \in Seq(Int)
    <3>1. Len(t) \in 0 .. Len(t)
      BY <1>0, <1>2
    <3> QED BY <1>7, <3>1
  <2>8. Utf16(a) = w /\ Utf16(b) = V[Len(t)]
    BY <1>1, <1>2, <1>6, <1>7 DEF w
  <2> DEFINE z == V[Len(t)]
  <2>9. z \in Seq(Int) /\ Len(w) + 1 \in 1 .. Len(z) /\ \A j \in 1 .. Len(w) : z[j] = w[j]
    BY <2>6, <2>7
  <2> HIDE DEF z
  <2>10. Precedes(w, z)
    BY <2>4, <2>9 DEF Precedes
  <2> QED BY <2>8, <2>10 DEF Less, z
<1>9. ASSUME NEW i \in 1 .. Len(r), i <= Len(q), r[i] < q[i], \A j \in 1 .. i - 1 : r[j] = q[j]
      PROVE  Less(a, b)
  <2>1. i \in 1 .. Len(s) /\ i \in 1 .. Len(t) /\ i \in 1 .. Len(a) /\ i \in 1 .. Len(b) /\ i - 1 \in Nat
        /\ i - 1 <= Len(s) /\ i - 1 <= Len(t) /\ i - 1 \in 0 .. Len(s)
    BY <1>0, <1>1, <1>2, <1>3, <1>9
  <2>2. \A j \in 1 .. i - 1 : s[j] = t[j]
    <3> TAKE j \in 1 .. i - 1
    <3>1. j \in 1 .. Len(a) /\ j \in 1 .. Len(b)
      BY <1>0, <2>1
    <3> QED BY <1>5, <1>9, <3>1
  <2>3. U[i - 1] = V[i - 1]
    BY <1>1, <1>2, <1>6, <1>7, <2>1, <2>2, JoinedSame
  <2>4. s[i] = Units(a[i]) /\ t[i] = Units(b[i]) /\ a[i] \in Char /\ b[i] \in Char /\ Rank(a[i]) < Rank(b[i])
    BY <1>0, <1>1, <1>2, <1>3, <1>9, <2>1
  <2>5. PICK k \in Nat : /\ k \in 1 .. Len(s[i]) /\ k \in 1 .. Len(t[i]) /\ s[i][k] < t[i][k]
                         /\ \A j \in 1 .. k - 1 : s[i][j] = t[i][j]
    <3>1. \E k \in Nat : /\ k \in 1 .. Len(Units(a[i])) /\ k \in 1 .. Len(Units(b[i]))
                         /\ Units(a[i])[k] < Units(b[i])[k]
                         /\ \A j \in 1 .. k - 1 : Units(a[i])[j] = Units(b[i])[j]
      BY ONLY <2>4, UnitsOrder, Zenon
    <3> QED BY ONLY <2>4, <3>1, Zenon
  <2> DEFINE w == U[i - 1]
             y == U[Len(s)]
             z == V[Len(t)]
  <2>6. w \in Seq(Int) /\ U[i - 1] = w /\ V[i - 1] = w
    BY <1>6, <2>1, <2>3
  <2>7. Utf16(a) = y /\ Utf16(b) = z
    BY <1>1, <1>2, <1>6, <1>7
  <2> HIDE DEF w, y, z
  <2>8. \A l \in 1 .. Len(s[i]) : /\ Len(w) + l \in 1 .. Len(y) /\ y[Len(w) + l] = s[i][l]
                                  /\ \A j \in 1 .. Len(w) : y[j] = w[j]
    BY <1>1, <1>6, <2>1, <2>6, JoinedAt DEF y
  <2>9. \A l \in 1 .. Len(t[i]) : /\ Len(w) + l \in 1 .. Len(z) /\ z[Len(w) + l] = t[i][l]
                                  /\ \A j \in 1 .. Len(w) : z[j] = w[j]
    BY <1>2, <1>7, <2>1, <2>6, JoinedAt DEF z
  <2> DEFINE p == Len(w) + k
  <2>10. p \in 1 .. Len(y) /\ p \in 1 .. Len(z) /\ y[p] < z[p]
    BY <2>5, <2>8, <2>9
  <2>11. ASSUME NEW j \in 1 .. p - 1 PROVE y[j] = z[j]
    <3>0. Len(w) \in Nat /\ s[i] \in Seq(Int) /\ t[i] \in Seq(Int)
      <4>1. Len(w) \in Nat
        BY <2>6
      <4>2. s[i] \in Seq(Int)
        BY <1>1, <2>1
      <4>3. t[i] \in Seq(Int)
        BY <1>2, <2>1
      <4> QED BY <4>1, <4>2, <4>3
    <3>1. CASE j <= Len(w)
      <4>1. j \in 1 .. Len(w)
        BY <3>0, <3>1
      <4> QED BY <2>5, <2>8, <2>9, <4>1
    <3>2. CASE j > Len(w)
      <4> DEFINE l == j - Len(w)
      <4>1. l \in 1 .. k - 1 /\ l \in 1 .. Len(s[i]) /\ l \in 1 .. Len(t[i]) /\ Len(w) + l = j
        <5>1. Len(s[i]) \in Nat /\ Len(t[i]) \in Nat
          BY <3>0
        <5>2. k \in Nat /\ k <= Len(s[i]) /\ k <= Len(t[i]) /\ k >= 1
          BY <2>5, <5>1
        <5>3. l \in 1 .. k - 1 /\ Len(w) + l = j
          BY <3>0, <3>2, <5>2
        <5> HIDE DEF l
        <5> QED BY <5>1, <5>2, <5>3
      <4> HIDE DEF l
      <4>2. s[i][l] = t[i][l] /\ y[Len(w) + l] = s[i][l] /\ z[Len(w) + l] = t[i][l]
        BY <2>5, <2>8, <2>9, <4>1
      <4> QED BY <4>1, <4>2
    <3> QED BY <3>0, <3>1, <3>2
  <2> HIDE DEF p
  <2>12. y \in Seq(Int) /\ z \in Seq(Int)
    BY <2>7, Utf16Type
  <2>13. Precedes(y, z)
    BY <2>10, <2>11, <2>12 DEF Precedes
  <2> QED BY <2>7, <2>13 DEF Less
<1> QED BY <1>4, <1>8, <1>9 DEF Precedes

(* compare_utf16 is a strict and total order, and that of the ranks.       *)
LEMMA LessOrder ==
  /\ \A a \in Text : ~Less(a, a)
  /\ \A a, b, c \in Text : Less(a, b) /\ Less(b, c) => Less(a, c)
  /\ \A a, b \in Text : a # b => Less(a, b) \/ Less(b, a)
  /\ \A a, b \in Text : Less(a, b) => Precedes(Ranks(a), Ranks(b))
<1>1. \A a \in Text : ~Less(a, a)
  BY Utf16Type, PrecedesNot DEF Less
<1>2. \A a, b, c \in Text : Less(a, b) /\ Less(b, c) => Less(a, c)
  BY Utf16Type, PrecedesAfter DEF Less
<1>3. \A a, b \in Text : a # b => Less(a, b) \/ Less(b, a)
  <2> TAKE a, b \in Text
  <2> HAVE a # b
  <2>1. Ranks(a) \in Seq(Int) /\ Ranks(b) \in Seq(Int) /\ Ranks(a) # Ranks(b)
    BY RanksIs, RanksDiffer
  <2>2. Precedes(Ranks(a), Ranks(b)) \/ Precedes(Ranks(b), Ranks(a))
    BY <2>1, PrecedesOne
  <2> QED BY <2>2, RanksLess
<1>4. \A a, b \in Text : Less(a, b) => Precedes(Ranks(a), Ranks(b))
  <2> TAKE a, b \in Text
  <2> HAVE Less(a, b)
  <2>1. a # b
    BY <1>1
  <2>2. Ranks(a) \in Seq(Int) /\ Ranks(b) \in Seq(Int) /\ Ranks(a) # Ranks(b)
    BY <2>1, RanksIs, RanksDiffer
  <2>3. Precedes(Ranks(a), Ranks(b)) \/ Precedes(Ranks(b), Ranks(a))
    BY <2>2, PrecedesOne
  <2>4. CASE Precedes(Ranks(b), Ranks(a))
    BY <1>1, <1>2, <2>4, RanksLess
  <2> QED BY <2>3, <2>4
<1> QED BY <1>1, <1>2, <1>3, <1>4

(* How many names are less than one.                                       *)
LesserNames(names, x) == {y \in names : Less(y, x)}

(* The place of a name is how many are less than it.                       *)
Place(names, x) == Cardinality(LesserNames(names, x))

(* Every place is taken by one name, and lesser names have lesser places.  *)
LEMMA PlacesIs ==
  ASSUME NEW N \in SUBSET Text, IsFiniteSet(N), NEW n, n = Cardinality(N)
  PROVE  /\ \A x \in N : Place(N, x) \in 0 .. n - 1
         /\ \A x, y \in N : Less(x, y) => Place(N, x) < Place(N, y)
         /\ \A x, y \in N : Place(N, x) = Place(N, y) => x = y
         /\ \A k \in 0 .. n - 1 : \E x \in N : Place(N, x) = k
<1>1. n \in Nat
  BY FS_CardinalityType
<1>2. ASSUME NEW x \in N
      PROVE  /\ LesserNames(N, x) \in SUBSET N /\ IsFiniteSet(LesserNames(N, x)) /\ x \notin LesserNames(N, x)
             /\ Place(N, x) \in 0 .. n - 1
  <2>1. LesserNames(N, x) \in SUBSET N
    BY DEF LesserNames
  <2>2. x \notin LesserNames(N, x)
    BY LessOrder DEF LesserNames
  <2>3. /\ IsFiniteSet(LesserNames(N, x)) /\ Cardinality(LesserNames(N, x)) <= Cardinality(N)
        /\ Cardinality(N) = Cardinality(LesserNames(N, x)) => N = LesserNames(N, x)
    BY <2>1, FS_Subset
  <2>4. Cardinality(LesserNames(N, x)) \in Nat
    BY <2>3, FS_CardinalityType
  <2>5. N # LesserNames(N, x)
    BY <2>2
  <2>6. Place(N, x) \in 0 .. n - 1
    BY <1>1, <2>3, <2>4, <2>5 DEF Place
  <2> QED BY <2>1, <2>2, <2>3, <2>6
<1>3. ASSUME NEW x \in N, NEW y \in N, Less(x, y) PROVE Place(N, x) < Place(N, y)
  <2>1. LesserNames(N, x) \in SUBSET LesserNames(N, y)
    BY <1>3, LessOrder DEF LesserNames
  <2>2. x \in LesserNames(N, y) /\ x \notin LesserNames(N, x) /\ IsFiniteSet(LesserNames(N, y)) /\ IsFiniteSet(LesserNames(N, x))
    BY <1>2, <1>3 DEF LesserNames
  <2>3. /\ Cardinality(LesserNames(N, x)) <= Cardinality(LesserNames(N, y))
        /\ Cardinality(LesserNames(N, y)) = Cardinality(LesserNames(N, x)) => LesserNames(N, y) = LesserNames(N, x)
    BY <2>1, <2>2, FS_Subset
  <2>4. Cardinality(LesserNames(N, x)) \in Nat /\ Cardinality(LesserNames(N, y)) \in Nat
    BY <2>2, FS_CardinalityType
  <2>5. LesserNames(N, y) # LesserNames(N, x)
    BY <2>2
  <2> QED BY <2>3, <2>4, <2>5 DEF Place
<1>4. ASSUME NEW x \in N, NEW y \in N, Place(N, x) = Place(N, y) PROVE x = y
  <2>1. Place(N, x) \in Int /\ Place(N, y) \in Int
    BY <1>2
  <2>2. ~Less(x, y) /\ ~Less(y, x)
    <3>1. ~(Place(N, x) < Place(N, y)) /\ ~(Place(N, y) < Place(N, x))
      BY <1>4, <2>1
    <3> QED BY <1>3, <3>1
  <2> QED BY <2>2, LessOrder
<1> DEFINE f == [x \in N |-> Place(N, x)]
<1>5. f \in [N -> 0 .. n - 1] /\ \A x, y \in N : f[x] = f[y] => x = y
  BY <1>2, <1>4
<1>6. IsFiniteSet(0 .. n - 1) /\ Cardinality(0 .. n - 1) = n
  <2>1. 0 \in Int /\ n - 1 \in Int
    BY <1>1
  <2>2. /\ IsFiniteSet(0 .. n - 1)
        /\ Cardinality(0 .. n - 1) = IF 0 > n - 1 THEN 0 ELSE (n - 1) - 0 + 1
    BY <2>1, FS_Interval
  <2>3. (IF 0 > n - 1 THEN 0 ELSE (n - 1) - 0 + 1) = n
    BY <1>1
  <2> QED BY <2>2, <2>3
<1>7. f \in Injection(N, 0 .. n - 1)
  <2> HIDE DEF f
  <2> QED BY <1>5, Fun_IsInj
<1>8. f \in Surjection(N, 0 .. n - 1)
  <2> HIDE DEF f
  <2>1. Cardinality(N) = Cardinality(0 .. n - 1) <=> f \in Surjection(N, 0 .. n - 1)
    BY <1>6, <1>7, FS_Injection
  <2> QED BY <1>6, <2>1, Zenon
<1>9. \A k \in 0 .. n - 1 : \E x \in N : f[x] = k
  <2> HIDE DEF f
  <2> QED BY <1>8, Fun_SurjectionProperties
<1>10. \A k \in 0 .. n - 1 : \E x \in N : Place(N, x) = k
  BY <1>9
<1> QED BY <1>2, <1>3, <1>4, <1>10

(* The members of an object and their names.                               *)
AllOf(ms) == {ms[i] : i \in 1 .. Len(ms)}

(* The names of members.                                                   *)
NamesOf(ms) == {ms[i][1] : i \in 1 .. Len(ms)}

(* Members are pairs of a name and a value, with different names.          *)
LEMMA MembersAre ==
  ASSUME NEW V, NEW ms \in Members(V)
  PROVE  /\ ms \in Seq(Text \X V) /\ Len(ms) \in Nat
         /\ \A i \in 1 .. Len(ms) : ms[i] \in Text \X V /\ ms[i] = <<ms[i][1], ms[i][2]>> /\ ms[i][1] \in Text /\ ms[i][2] \in V
         /\ \A i, j \in 1 .. Len(ms) : ms[i][1] = ms[j][1] => i = j
BY DEF Members

(* An object has as many names as members.                                 *)
LEMMA NamesAre ==
  ASSUME NEW V, NEW ms \in Members(V)
  PROVE  /\ NamesOf(ms) \in SUBSET Text /\ IsFiniteSet(NamesOf(ms)) /\ Cardinality(NamesOf(ms)) = Len(ms)
         /\ IsFiniteSet(AllOf(ms))
         /\ \A m \in AllOf(ms) : m[1] \in NamesOf(ms)
         /\ \A m, k \in AllOf(ms) : m[1] = k[1] => m = k
<1> DEFINE n == Len(ms)
<1>1. n \in Nat /\ (\A i \in 1 .. n : ms[i][1] \in Text)
      /\ \A i, j \in 1 .. n : ms[i][1] = ms[j][1] => i = j
  BY MembersAre
<1>2. IsFiniteSet(1 .. n) /\ Cardinality(1 .. n) = n
  <2>1. 1 \in Int /\ n \in Int
    BY <1>1
  <2>2. IsFiniteSet(1 .. n) /\ Cardinality(1 .. n) = IF 1 > n THEN 0 ELSE n - 1 + 1
    BY <2>1, FS_Interval
  <2>3. (IF 1 > n THEN 0 ELSE n - 1 + 1) = n
    BY <1>1
  <2> QED BY <2>2, <2>3
<1> DEFINE f == [i \in 1 .. n |-> ms[i][1]]
           g == [i \in 1 .. n |-> ms[i]]
<1>3. f \in Bijection(1 .. n, NamesOf(ms))
  <2>1. /\ f \in [1 .. n -> NamesOf(ms)] /\ (\A a, b \in 1 .. n : f[a] = f[b] => a = b)
        /\ \A t \in NamesOf(ms) : \E s \in 1 .. n : f[s] = t
    BY <1>1 DEF NamesOf
  <2> HIDE DEF f
  <2> QED BY <2>1, Fun_IsBij
<1>4. g \in Bijection(1 .. n, AllOf(ms))
  <2>1. /\ g \in [1 .. n -> AllOf(ms)] /\ (\A a, b \in 1 .. n : g[a] = g[b] => a = b)
        /\ \A t \in AllOf(ms) : \E s \in 1 .. n : g[s] = t
    BY <1>1 DEF AllOf
  <2> HIDE DEF g
  <2> QED BY <2>1, Fun_IsBij
<1>5. ExistsBijection(1 .. n, NamesOf(ms)) /\ ExistsBijection(1 .. n, AllOf(ms))
  <2> HIDE DEF f, g
  <2> QED BY <1>3, <1>4 DEF ExistsBijection
<1>6. /\ IsFiniteSet(NamesOf(ms)) /\ Cardinality(NamesOf(ms)) = Cardinality(1 .. n)
      /\ IsFiniteSet(AllOf(ms))
  BY <1>2, <1>5, FS_Bijection
<1>7. NamesOf(ms) \in SUBSET Text
  BY <1>1 DEF NamesOf
<1>8. /\ \A m \in AllOf(ms) : m[1] \in NamesOf(ms)
      /\ \A m, k \in AllOf(ms) : m[1] = k[1] => m = k
  BY <1>1 DEF AllOf, NamesOf
<1> QED BY <1>2, <1>6, <1>7, <1>8

(* As many members are before one as names are less than its name.         *)
LEMMA LesserIs ==
  ASSUME NEW V, NEW ms \in Members(V), NEW m \in AllOf(ms)
  PROVE  Cardinality(Lesser(AllOf(ms), m)) = Place(NamesOf(ms), m[1])
<1> DEFINE S == Lesser(AllOf(ms), m)
           T == LesserNames(NamesOf(ms), m[1])
           f == [x \in S |-> x[1]]
<1>1. IsFiniteSet(AllOf(ms)) /\ S \in SUBSET AllOf(ms)
  BY NamesAre DEF Lesser
<1>2. IsFiniteSet(S)
  BY <1>1, FS_Subset
<1>3. /\ f \in [S -> T] /\ (\A a, b \in S : f[a] = f[b] => a = b)
      /\ \A t \in T : \E s \in S : f[s] = t
  <2>1. /\ \A x \in AllOf(ms) : x[1] \in NamesOf(ms)
        /\ \A x, k \in AllOf(ms) : x[1] = k[1] => x = k
    BY NamesAre
  <2>2. \A t \in NamesOf(ms) : \E x \in AllOf(ms) : x[1] = t
    BY DEF NamesOf, AllOf
  <2>3. /\ \A x : x \in S <=> x \in AllOf(ms) /\ Less(x[1], m[1])
        /\ \A t : t \in T <=> t \in NamesOf(ms) /\ Less(t, m[1])
    BY DEF Lesser, LesserNames
  <2> HIDE DEF S, T
  <2>4. \A x \in S : x[1] \in T
    BY <2>1, <2>3
  <2>5. \A t \in T : \E s \in S : s[1] = t
    BY <2>2, <2>3
  <2>6. \A a, b \in S : a[1] = b[1] => a = b
    BY <2>1, <2>3
  <2> QED BY <2>4, <2>5, <2>6
<1>4. f \in Bijection(S, T)
  <2> HIDE DEF f, S, T
  <2> QED BY <1>3, Fun_IsBij
<1>5. ExistsBijection(S, T)
  <2> HIDE DEF f, S, T
  <2> QED BY <1>4 DEF ExistsBijection
<1>6. Cardinality(T) = Cardinality(S)
  <2> HIDE DEF S, T
  <2> QED BY <1>2, <1>5, FS_Bijection
<1> QED BY <1>6 DEF Place

(* What Ordered makes of the members: the same members, by their names.    *)
LEMMA OrderedPlaces ==
  ASSUME NEW V, NEW ms \in Members(V)
  PROVE  /\ Ordered(ms) = [k \in 1 .. Len(ms) |-> Ordered(ms)[k]]
         /\ \A k \in 1 .. Len(ms) : /\ Ordered(ms)[k] \in AllOf(ms)
                                    /\ Place(NamesOf(ms), Ordered(ms)[k][1]) = k - 1
<1> DEFINE all == AllOf(ms)
           before == [m \in all |-> Cardinality(Lesser(all, m))]
<1>1. Ordered(ms) = [k \in 1 .. Len(ms) |-> CHOOSE m \in all : before[m] = k - 1]
  BY DEF Ordered, AllOf
<1>2. \A m \in all : before[m] = Place(NamesOf(ms), m[1])
  <2>1. \A m \in all : Cardinality(Lesser(all, m)) = Place(NamesOf(ms), m[1])
    BY LesserIs
  <2> HIDE DEF all
  <2> QED BY <2>1
<1>3. \A t \in NamesOf(ms) : \E x \in all : x[1] = t
  BY DEF NamesOf, AllOf
<1>4. \A k \in 0 .. Len(ms) - 1 : \E x \in NamesOf(ms) : Place(NamesOf(ms), x) = k
  <2>1. NamesOf(ms) \in SUBSET Text /\ IsFiniteSet(NamesOf(ms)) /\ Cardinality(NamesOf(ms)) = Len(ms)
    BY NamesAre
  <2> QED BY <2>1, PlacesIs
<1> HIDE DEF all, before
<1>5. ASSUME NEW k \in 1 .. Len(ms)
      PROVE  /\ Ordered(ms)[k] \in all /\ Place(NamesOf(ms), Ordered(ms)[k][1]) = k - 1
  <2>1. k - 1 \in 0 .. Len(ms) - 1
    BY MembersAre
  <2>2. \E m \in all : before[m] = k - 1
    BY <1>2, <1>3, <1>4, <2>1
  <2> DEFINE o == CHOOSE m \in all : before[m] = k - 1
  <2>3. o \in all /\ before[o] = k - 1
    BY <2>2
  <2>4. Ordered(ms)[k] = o
    BY <1>1
  <2> HIDE DEF o
  <2> QED BY <1>2, <2>3, <2>4
<1>6. Ordered(ms) = [k \in 1 .. Len(ms) |-> Ordered(ms)[k]]
  BY <1>1
<1> QED BY <1>5, <1>6 DEF all

(* sort_by: the members, each once, in the order of their names.           *)
LEMMA OrderedIs ==
  ASSUME NEW V, NEW ms \in Members(V)
  PROVE  /\ Ordered(ms) \in Seq(Text \X V) /\ Len(Ordered(ms)) = Len(ms)
         /\ \A k \in 1 .. Len(ms) : \E i \in 1 .. Len(ms) : Ordered(ms)[k] = ms[i]
         /\ \A i \in 1 .. Len(ms) : \E k \in 1 .. Len(ms) : Ordered(ms)[k] = ms[i]
         /\ \A k \in 1 .. Len(ms) : k > 1 => Less(Ordered(ms)[k - 1][1], Ordered(ms)[k][1])
<1> DEFINE o == Ordered(ms)
           n == Len(ms)
           N == NamesOf(ms)
<1>1. /\ o = [k \in 1 .. n |-> o[k]]
      /\ \A k \in 1 .. n : o[k] \in AllOf(ms) /\ Place(N, o[k][1]) = k - 1
  BY OrderedPlaces
<1>2. /\ n \in Nat /\ \A i \in 1 .. n : ms[i] \in Text \X V
  BY MembersAre
<1>3. /\ \A x \in AllOf(ms) : \E i \in 1 .. n : x = ms[i]
      /\ \A i \in 1 .. n : ms[i] \in AllOf(ms)
  BY DEF AllOf
<1>4. /\ N \in SUBSET Text /\ IsFiniteSet(N) /\ Cardinality(N) = n
      /\ \A m \in AllOf(ms) : m[1] \in N
      /\ \A m, k \in AllOf(ms) : m[1] = k[1] => m = k
  BY NamesAre
<1>5. /\ \A x \in N : Place(N, x) \in 0 .. n - 1
      /\ \A x, y \in N : Less(x, y) => Place(N, x) < Place(N, y)
      /\ \A x, y \in N : Place(N, x) = Place(N, y) => x = y
  BY <1>4, PlacesIs
<1> HIDE DEF o, n, N
<1>6. o \in Seq(Text \X V) /\ Len(o) = n
  <2>1. \A k \in 1 .. n : o[k] \in Text \X V
    BY <1>1, <1>2, <1>3
  <2> DEFINE W == Text \X V
  <2> HIDE DEF W
  <2>2. o \in Seq(W) /\ Len(o) = n
    BY <1>1, <1>2, <2>1, FunctionSequence DEF W
  <2> QED BY <2>2 DEF W
<1>7. \A i \in 1 .. n : \E k \in 1 .. n : o[k] = ms[i]
  <2> TAKE i \in 1 .. n
  <2>1. ms[i] \in AllOf(ms) /\ ms[i][1] \in N
    BY <1>3, <1>4
  <2> DEFINE k == Place(N, ms[i][1]) + 1
  <2>2. k \in 1 .. n /\ k - 1 = Place(N, ms[i][1])
    BY <1>2, <1>5, <2>1
  <2> HIDE DEF k
  <2>3. o[k] \in AllOf(ms) /\ Place(N, o[k][1]) = Place(N, ms[i][1])
    BY <1>1, <2>2
  <2>4. o[k][1] = ms[i][1]
    BY <1>4, <1>5, <2>1, <2>3
  <2>5. o[k] = ms[i]
    BY <1>4, <2>1, <2>3, <2>4
  <2> QED BY <2>2, <2>5
<1>8. \A k \in 1 .. n : k > 1 => Less(o[k - 1][1], o[k][1])
  <2> TAKE k \in 1 .. n
  <2> HAVE k > 1
  <2>1. k - 1 \in 1 .. n
    BY <1>2
  <2>2. o[k - 1][1] \in N /\ o[k][1] \in N /\ Place(N, o[k - 1][1]) = k - 1 - 1 /\ Place(N, o[k][1]) = k - 1
    BY <1>1, <1>4, <2>1
  <2>3. o[k - 1][1] # o[k][1] /\ ~(Place(N, o[k][1]) < Place(N, o[k - 1][1]))
    BY <1>2, <2>2
  <2>4. o[k - 1][1] \in Text /\ o[k][1] \in Text
    BY <1>4, <2>2
  <2> QED BY <1>5, <2>2, <2>3, <2>4, LessOrder
<1>9. \A k \in 1 .. n : \E i \in 1 .. n : o[k] = ms[i]
  BY <1>1, <1>3
<1> QED BY <1>6, <1>7, <1>8, <1>9 DEF o, n

------------------------------------------------------------------------------
(* Values, and the recursions over them.                                   *)

(* The recursion of Values.                                                *)
ValuesOf(g, d) ==
  IF d = 0 THEN Scalars
  ELSE Scalars \union ({"array"} \X Seq(g[d - 1])) \union ({"object"} \X Members(g[d - 1]))

(* The recursion of Values defines a function.                             *)
LEMMA ValuesExists ==
  ASSUME NEW n \in Nat
  PROVE  \E g : g = [d \in 0 .. n |-> ValuesOf(g, d)]
<1> DEFINE S == {m \in Nat : \E g : g = [d \in 0 .. m |-> ValuesOf(g, d)]}
<1>1. 0 \in S
  <2> DEFINE g == [d \in 0 .. 0 |-> Scalars]
  <2>1. \A d \in 0 .. 0 : ValuesOf(g, d) = Scalars
    BY DEF ValuesOf
  <2>2. g = [d \in 0 .. 0 |-> ValuesOf(g, d)]
    BY <2>1
  <2> QED BY <2>2
<1>2. ASSUME NEW m \in 1 .. n, m - 1 \in S PROVE m \in S
  <2>1. PICK g : g = [d \in 0 .. m - 1 |-> ValuesOf(g, d)]
    BY <1>2
  <2> DEFINE h == [d \in 0 .. m |-> IF d < m THEN g[d] ELSE ValuesOf(g, m)]
  <2>2. ASSUME NEW d \in 0 .. m PROVE h[d] = ValuesOf(h, d)
    <3>1. h[d] = ValuesOf(g, d)
      BY <2>1
    <3>2. d # 0 => h[d - 1] = g[d - 1]
      <4>1. d # 0 => d - 1 \in 0 .. m /\ d - 1 < m
        OBVIOUS
      <4> QED BY <4>1
    <3> HIDE DEF h
    <3> QED BY <3>1, <3>2 DEF ValuesOf
  <2>3. h = [d \in 0 .. m |-> ValuesOf(h, d)]
    <3>1. h = [d \in 0 .. m |-> h[d]]
      OBVIOUS
    <3> HIDE DEF h
    <3> QED BY <3>1, <2>2
  <2> HIDE DEF h
  <2> QED BY <2>3
<1> HIDE DEF S
<1>3. n \in S
  BY <1>1, <1>2, AllUpTo
<1> QED BY <1>3 DEF S

(* Values satisfies its recursion.                                         *)
LEMMA ValuesUnfold == \A d \in 0 .. MaxDepth : Values[d] = ValuesOf(Values, d)
<1> DEFINE P(g) == g = [d \in 0 .. MaxDepth |-> ValuesOf(g, d)]
<1>1. Values = CHOOSE g : P(g)
  BY DEF Values, ValuesOf
<1>2. \E g : P(g)
  BY ValuesExists, JcsAssumption
<1> HIDE DEF P
<1>3. P(Values)
  BY <1>1, <1>2
<1>4. Values = [d \in 0 .. MaxDepth |-> ValuesOf(Values, d)]
  BY <1>3 DEF P
<1> QED BY <1>4, Zenon

(* The values of a depth: scalars, and arrays and objects of values of     *)
(* one depth less.                                                         *)
LEMMA ValuesAre ==
  /\ Values[0] = Scalars
  /\ \A d \in 1 .. MaxDepth :
       Values[d] = Scalars \union ({"array"} \X Seq(Values[d - 1])) \union ({"object"} \X Members(Values[d - 1]))
<1>1. 0 \in 0 .. MaxDepth /\ \A d \in 1 .. MaxDepth : d \in 0 .. MaxDepth /\ d # 0
  BY JcsAssumption
<1> QED BY <1>1, ValuesUnfold, Zenon DEF ValuesOf

(* The kind of a value says what it is.                                    *)
Kinds == {"null", "bool", "integer", "double", "nonfinite", "string"}

(* What kind of scalar a scalar is.                                        *)
LEMMA ScalarParts ==
  ASSUME NEW v \in Scalars
  PROVE  /\ v[1] \in Kinds
         /\ v[1] = "bool" => v = Bool(v[2]) /\ v[2] \in BOOLEAN
         /\ v[1] = "integer" => v = Integer(v[2]) /\ v[2] \in -MaxInteger .. MaxInteger
         /\ v[1] = "double" => v = <<"double", v[2]>> /\ v[2] \in Finite
         /\ v[1] = "string" => v = String(v[2]) /\ v[2] \in Text
         /\ v[1] = "null" => v = Null
         /\ v[1] = "nonfinite" => v = NonFinite
<1>1. \/ v = Null
      \/ v = NonFinite
      \/ v \in {"bool"} \X BOOLEAN
      \/ v \in {"integer"} \X (-MaxInteger .. MaxInteger)
      \/ v \in {"double"} \X Finite
      \/ v \in {"string"} \X Text
  BY Zenon DEF Scalars
<1>2. CASE v = Null
  BY <1>2 DEF Null, NonFinite, Kinds
<1>3. CASE v = NonFinite
  BY <1>3 DEF NonFinite, Null, Kinds
<1>4. CASE v \in {"bool"} \X BOOLEAN
  <2>1. v[1] = "bool" /\ v[2] \in BOOLEAN /\ v = <<"bool", v[2]>>
    BY <1>4
  <2> QED BY <2>1 DEF Bool, Kinds
<1>5. CASE v \in {"integer"} \X (-MaxInteger .. MaxInteger)
  <2>1. v[1] = "integer" /\ v[2] \in -MaxInteger .. MaxInteger /\ v = <<"integer", v[2]>>
    BY <1>5
  <2> QED BY <2>1 DEF Integer, Kinds
<1>6. CASE v \in {"double"} \X Finite
  <2>1. v[1] = "double" /\ v[2] \in Finite /\ v = <<"double", v[2]>>
    BY <1>6
  <2> QED BY <2>1 DEF Kinds
<1>7. CASE v \in {"string"} \X Text
  <2>1. v[1] = "string" /\ v[2] \in Text /\ v = <<"string", v[2]>>
    BY <1>7
  <2> QED BY <2>1 DEF String, Kinds
<1> QED BY <1>1, <1>2, <1>3, <1>4, <1>5, <1>6, <1>7

(* A value is a scalar, an array or an object.                             *)
LEMMA ValueParts ==
  ASSUME NEW d \in 0 .. MaxDepth, NEW v \in Values[d]
  PROVE  \/ v \in Scalars /\ v[1] \in Kinds
         \/ d \in 1 .. MaxDepth /\ v[1] = "array" /\ v = Array(v[2]) /\ v[2] \in Seq(Values[d - 1])
         \/ d \in 1 .. MaxDepth /\ v[1] = "object" /\ v = Object(v[2]) /\ v[2] \in Members(Values[d - 1])
<1>1. CASE v \in Scalars
  BY <1>1, ScalarParts
<1>2. CASE v \notin Scalars
  <2>1. d \in 1 .. MaxDepth
    BY <1>2, ValuesAre, JcsAssumption
  <2>2. v \in {"array"} \X Seq(Values[d - 1]) \/ v \in {"object"} \X Members(Values[d - 1])
    BY <1>2, <2>1, ValuesAre, Zenon
  <2>3. CASE v \in {"array"} \X Seq(Values[d - 1])
    BY <2>1, <2>3 DEF Array
  <2>4. CASE v \in {"object"} \X Members(Values[d - 1])
    BY <2>1, <2>4 DEF Object
  <2> QED BY <2>2, <2>3, <2>4
<1> QED BY <1>1, <1>2

(* Sequences of some are sequences of more.                                *)
LEMMA SeqGrows == \A S : \A T : S \subseteq T => Seq(S) \subseteq Seq(T)
OBVIOUS

(* Members with values of some are members with values of more.            *)
LEMMA MembersGrow ==
  ASSUME NEW S, NEW T, S \subseteq T
  PROVE  Members(S) \subseteq Members(T)
<1>1. Text \X S \subseteq Text \X T
  OBVIOUS
<1>2. Seq(Text \X S) \subseteq Seq(Text \X T)
  BY <1>1, SeqGrows, Zenon
<1> QED BY <1>2, Zenon DEF Members

(* A value of a depth is one of the next.                                  *)
LEMMA ValuesGrow == \A d \in 1 .. MaxDepth : Values[d - 1] \subseteq Values[d]
<1> DEFINE S == {d \in 0 .. MaxDepth : d > 0 => Values[d - 1] \subseteq Values[d]}
<1>1. 0 \in S
  BY JcsAssumption
<1>2. ASSUME NEW d \in 1 .. MaxDepth, d - 1 \in S PROVE d \in S
  <2>1. Values[d] = Scalars \union ({"array"} \X Seq(Values[d - 1])) \union ({"object"} \X Members(Values[d - 1]))
    BY ValuesAre
  <2>2. CASE d = 1
    <3>1. d - 1 = 0
      BY <2>2
    <3>2. Values[d - 1] = Scalars
      BY <3>1, ValuesAre
    <3>3. Values[d - 1] \subseteq Values[d]
      BY <2>1, <3>2, Zenon
    <3>4. d \in 0 .. MaxDepth
      OBVIOUS
    <3> QED BY <3>3, <3>4
  <2>3. CASE d # 1
    <3>1. d - 1 \in 1 .. MaxDepth /\ d - 1 > 0 /\ d \in 0 .. MaxDepth
      BY <2>3, JcsAssumption
    <3>2. Values[d - 1] = Scalars \union ({"array"} \X Seq(Values[d - 1 - 1]))
                            \union ({"object"} \X Members(Values[d - 1 - 1]))
      BY <3>1, ValuesAre
    <3>3. Values[d - 1 - 1] \subseteq Values[d - 1]
      BY <1>2, <3>1
    <3>4. Seq(Values[d - 1 - 1]) \subseteq Seq(Values[d - 1])
          /\ Members(Values[d - 1 - 1]) \subseteq Members(Values[d - 1])
      <4> DEFINE X == Values[d - 1 - 1]
                 Y == Values[d - 1]
      <4>1. X \subseteq Y
        BY <3>3
      <4> HIDE DEF X, Y
      <4>2. Seq(X) \subseteq Seq(Y)
        BY <4>1, SeqGrows, Zenon
      <4>3. Members(X) \subseteq Members(Y)
        BY <4>1, MembersGrow
      <4> QED BY <4>2, <4>3 DEF X, Y
    <3>5. Values[d - 1] \subseteq Values[d]
      <4> DEFINE A == Seq(Values[d - 1 - 1])
                 B == Seq(Values[d - 1])
                 C == Members(Values[d - 1 - 1])
                 D == Members(Values[d - 1])
      <4>1. A \subseteq B /\ C \subseteq D
        BY <3>4
      <4>2. /\ Values[d - 1] = Scalars \union ({"array"} \X A) \union ({"object"} \X C)
            /\ Values[d] = Scalars \union ({"array"} \X B) \union ({"object"} \X D)
        BY <2>1, <3>2
      <4> HIDE DEF A, B, C, D
      <4> QED BY <4>1, <4>2
    <3> QED BY <3>1, <3>5
  <2> QED BY <2>2, <2>3
<1> HIDE DEF S
<1>3. \A d \in 0 .. MaxDepth : d \in S
  BY <1>1, <1>2, AllUpTo, JcsAssumption
<1>4. \A d \in 1 .. MaxDepth : d \in 0 .. MaxDepth /\ d > 0
  OBVIOUS
<1> QED BY <1>3, <1>4 DEF S

(* A value of any depth is a value.                                        *)
LEMMA ValuesIn == \A d \in 0 .. MaxDepth : Values[d] \subseteq Value
<1> DEFINE S == {k \in 0 .. MaxDepth : Values[MaxDepth - k] \subseteq Value}
<1>1. 0 \in S
  <2>1. MaxDepth - 0 = MaxDepth /\ 0 \in 0 .. MaxDepth
    BY JcsAssumption
  <2> QED BY <2>1 DEF Value
<1>2. ASSUME NEW k \in 1 .. MaxDepth, k - 1 \in S PROVE k \in S
  <2>1. MaxDepth - (k - 1) \in 1 .. MaxDepth /\ MaxDepth - (k - 1) - 1 = MaxDepth - k /\ k \in 0 .. MaxDepth
    BY JcsAssumption
  <2>2. Values[MaxDepth - (k - 1) - 1] \subseteq Values[MaxDepth - (k - 1)]
    BY <2>1, ValuesGrow
  <2>3. Values[MaxDepth - (k - 1)] \subseteq Value
    BY <1>2
  <2>4. Values[MaxDepth - k] \subseteq Value
    BY <2>1, <2>2, <2>3
  <2> QED BY <2>1, <2>4
<1> HIDE DEF S
<1>3. \A k \in 0 .. MaxDepth : k \in S
  BY <1>1, <1>2, AllUpTo, JcsAssumption
<1>4. \A d \in 0 .. MaxDepth : MaxDepth - d \in 0 .. MaxDepth /\ MaxDepth - (MaxDepth - d) = d
  BY JcsAssumption
<1>5. ASSUME NEW d \in 0 .. MaxDepth PROVE Values[d] \subseteq Value
  <2>1. MaxDepth - d \in S
    BY <1>3, <1>4
  <2>2. Values[MaxDepth - (MaxDepth - d)] \subseteq Value
    BY <2>1 DEF S
  <2> QED BY <2>2, <1>4
<1> QED BY <1>5

(* What holds of a value when it holds of what is in it, holds of all.     *)
LEMMA AllValues ==
  ASSUME NEW S, Scalars \subseteq S,
         \A d \in 1 .. MaxDepth : \A items \in Seq(Values[d - 1]) :
           (\A i \in 1 .. Len(items) : items[i] \in S) => Array(items) \in S,
         \A d \in 1 .. MaxDepth : \A ms \in Members(Values[d - 1]) :
           (\A i \in 1 .. Len(ms) : ms[i][2] \in S) => Object(ms) \in S
  PROVE  \A v \in Value : v \in S
<1> DEFINE R == {d \in 0 .. MaxDepth : Values[d] \subseteq S}
<1>1. 0 \in R
  BY ValuesAre, JcsAssumption
<1>2. ASSUME NEW d \in 1 .. MaxDepth, d - 1 \in R PROVE d \in R
  <2>1. Values[d - 1] \subseteq S
    BY <1>2
  <2>2. d \in 0 .. MaxDepth
    OBVIOUS
  <2>3. ASSUME NEW v \in Values[d] PROVE v \in S
    <3>1. CASE v \in Scalars
      BY <3>1
    <3>2. CASE v[1] = "array" /\ v = Array(v[2]) /\ v[2] \in Seq(Values[d - 1])
      <4>1. \A i \in 1 .. Len(v[2]) : v[2][i] \in S
        BY <2>1, <3>2
      <4> QED BY <3>2, <4>1
    <3>3. CASE v[1] = "object" /\ v = Object(v[2]) /\ v[2] \in Members(Values[d - 1])
      <4>1. \A i \in 1 .. Len(v[2]) : v[2][i][2] \in S
        BY <2>1, <3>3, MembersAre
      <4> QED BY <3>3, <4>1
    <3> QED BY <2>2, <3>1, <3>2, <3>3, ValueParts
  <2> QED BY <2>2, <2>3
<1> HIDE DEF R
<1>3. \A d \in 0 .. MaxDepth : d \in R
  BY <1>1, <1>2, AllUpTo, JcsAssumption
<1> QED BY <1>3, JcsAssumption DEF R, Value

(* The recursion of WriteCanonical.                                        *)
PickWrite(k, A, B, C, D, E, F, G, H) ==
  CASE k = "null" -> A
    [] k = "bool" -> B
    [] k = "integer" -> C
    [] k = "double" -> D
    [] k = "nonfinite" -> E
    [] k = "string" -> F
    [] k = "array" -> G
    [] OTHER -> H

(* The texts of items.                                                     *)
ItemTexts(g, items) == [i \in 1 .. Len(items) |-> g[items[i]]]

(* The texts of members.                                                   *)
MemberTexts(g, members) ==
  [i \in 1 .. Len(members) |-> Quoted(members[i][1]) \o <<Colon>> \o g[members[i][2]]]

(* The text of an array.                                                   *)
WriteArray(g, items) == <<OpenArray>> \o Separated(ItemTexts(g, items)) \o <<CloseArray>>

(* The text of an object.                                                  *)
WriteObject(g, members) == <<OpenObject>> \o Separated(MemberTexts(g, members)) \o <<CloseObject>>

(* The text of a value when g gives that of smaller ones.                  *)
WriteOf(g, v) ==
  PickWrite(v[1], <<Literals.null>>, IF v[2] THEN <<Literals.true>> ELSE <<Literals.false>>,
            Signed(v[2]), WriteDouble(v[2]), <<NonFiniteNumber>>, Quoted(v[2]),
            WriteArray(g, v[2]), WriteObject(g, Ordered(v[2])))

(* Each kind has its text.                                                 *)
LEMMA PickWriteIs ==
  \A A, B, C, D, E, F, G, H :
    /\ PickWrite("null", A, B, C, D, E, F, G, H) = A
    /\ PickWrite("bool", A, B, C, D, E, F, G, H) = B
    /\ PickWrite("integer", A, B, C, D, E, F, G, H) = C
    /\ PickWrite("double", A, B, C, D, E, F, G, H) = D
    /\ PickWrite("nonfinite", A, B, C, D, E, F, G, H) = E
    /\ PickWrite("string", A, B, C, D, E, F, G, H) = F
    /\ PickWrite("array", A, B, C, D, E, F, G, H) = G
    /\ PickWrite("object", A, B, C, D, E, F, G, H) = H
BY DEF PickWrite

(* The text of each kind of value.                                         *)
LEMMA WriteOfIs ==
  \A g, v :
    /\ v[1] = "null" => WriteOf(g, v) = <<Literals.null>>
    /\ v[1] = "bool" => WriteOf(g, v) = IF v[2] THEN <<Literals.true>> ELSE <<Literals.false>>
    /\ v[1] = "integer" => WriteOf(g, v) = Signed(v[2])
    /\ v[1] = "double" => WriteOf(g, v) = WriteDouble(v[2])
    /\ v[1] = "nonfinite" => WriteOf(g, v) = <<NonFiniteNumber>>
    /\ v[1] = "string" => WriteOf(g, v) = Quoted(v[2])
    /\ v[1] = "array" => WriteOf(g, v) = WriteArray(g, v[2])
    /\ v[1] = "object" => WriteOf(g, v) = WriteObject(g, Ordered(v[2]))
<1> TAKE g, v
<1> DEFINE A == <<Literals.null>>
           B == IF v[2] THEN <<Literals.true>> ELSE <<Literals.false>>
           C == Signed(v[2])
           D == WriteDouble(v[2])
           E == <<NonFiniteNumber>>
           F == Quoted(v[2])
           G == WriteArray(g, v[2])
           H == WriteObject(g, Ordered(v[2]))
<1>1. WriteOf(g, v) = PickWrite(v[1], A, B, C, D, E, F, G, H)
  BY DEF WriteOf
<1> HIDE DEF A, B, C, D, E, F, G, H
<1>2. /\ v[1] = "null" => WriteOf(g, v) = A
      /\ v[1] = "bool" => WriteOf(g, v) = B
      /\ v[1] = "integer" => WriteOf(g, v) = C
      /\ v[1] = "double" => WriteOf(g, v) = D
      /\ v[1] = "nonfinite" => WriteOf(g, v) = E
      /\ v[1] = "string" => WriteOf(g, v) = F
      /\ v[1] = "array" => WriteOf(g, v) = G
      /\ v[1] = "object" => WriteOf(g, v) = H
  BY <1>1, PickWriteIs
<1> QED BY <1>2 DEF A, B, C, D, E, F, G, H

(* The text of a value depends on what is in it only.                      *)
LEMMA WriteAgrees ==
  ASSUME NEW d \in 0 .. MaxDepth, NEW v \in Values[d], NEW g, NEW h,
         d > 0 => \A x \in Values[d - 1] : g[x] = h[x]
  PROVE  WriteOf(g, v) = WriteOf(h, v)
<1>1. CASE v[1] \in Kinds
  BY <1>1, WriteOfIs, Zenon DEF Kinds
<1>2. CASE d \in 1 .. MaxDepth /\ v[1] = "array" /\ v[2] \in Seq(Values[d - 1])
  <2>1. \A i \in 1 .. Len(v[2]) : g[v[2][i]] = h[v[2][i]]
    <3> TAKE i \in 1 .. Len(v[2])
    <3>1. v[2][i] \in Values[d - 1]
      BY <1>2
    <3> QED BY <1>2, <3>1
  <2>2. ItemTexts(g, v[2]) = ItemTexts(h, v[2])
    BY <2>1 DEF ItemTexts
  <2>3. WriteArray(g, v[2]) = WriteArray(h, v[2])
    BY <2>2, Zenon DEF WriteArray
  <2> QED BY <1>2, <2>3, WriteOfIs, Zenon
<1>3. CASE d \in 1 .. MaxDepth /\ v[1] = "object" /\ v[2] \in Members(Values[d - 1])
  <2> DEFINE o == Ordered(v[2])
             V == Values[d - 1]
  <2>0. v[2] \in Members(V)
    BY <1>3
  <2>1. o \in Seq(Text \X V)
    <3> HIDE DEF V
    <3> QED BY <2>0, OrderedIs
  <2> HIDE DEF o, V
  <2>2. \A i \in 1 .. Len(o) : o[i][2] \in V
    BY <2>1
  <2>3. \A i \in 1 .. Len(o) : g[o[i][2]] = h[o[i][2]]
    BY <1>3, <2>2 DEF V
  <2>4. MemberTexts(g, o) = MemberTexts(h, o)
    <3>1. \A i \in 1 .. Len(o) : Quoted(o[i][1]) \o <<Colon>> \o g[o[i][2]] = Quoted(o[i][1]) \o <<Colon>> \o h[o[i][2]]
      BY <2>3, Zenon
    <3> QED BY <3>1, Zenon DEF MemberTexts
  <2>5. WriteObject(g, o) = WriteObject(h, o)
    BY <2>4, Zenon DEF WriteObject
  <2> QED BY <1>3, <2>5, WriteOfIs, Zenon DEF o
<1> QED BY <1>1, <1>2, <1>3, ValueParts

(* The recursion of WriteCanonical defines a function, by induction over   *)
(* depth.                                                                  *)
LEMMA WriteExists ==
  ASSUME NEW n \in 0 .. MaxDepth
  PROVE  \E g : g = [v \in Values[n] |-> WriteOf(g, v)]
<1> DEFINE S == {d \in 0 .. MaxDepth : \E g : g = [v \in Values[d] |-> WriteOf(g, v)]}
<1>1. 0 \in S
  <2> DEFINE h == [v \in Values[0] |-> WriteOf(0, v)]
  <2>0. 0 \in 0 .. MaxDepth
    BY JcsAssumption
  <2>1. \A v \in Values[0] : WriteOf(0, v) = WriteOf(h, v)
    <3> HIDE DEF h
    <3> QED BY <2>0, WriteAgrees
  <2>2. h = [v \in Values[0] |-> WriteOf(h, v)]
    <3>1. h = [v \in Values[0] |-> WriteOf(0, v)]
      OBVIOUS
    <3> HIDE DEF h
    <3> QED BY <2>1, <3>1
  <2> HIDE DEF h
  <2> QED BY <2>0, <2>2
<1>2. ASSUME NEW d \in 1 .. MaxDepth, d - 1 \in S PROVE d \in S
  <2>1. PICK g : g = [v \in Values[d - 1] |-> WriteOf(g, v)]
    BY <1>2
  <2> DEFINE h == [v \in Values[d] |-> WriteOf(g, v)]
  <2>2. d \in 0 .. MaxDepth /\ d > 0
    OBVIOUS
  <2>3. \A x \in Values[d - 1] : g[x] = h[x]
    <3> TAKE x \in Values[d - 1]
    <3>1. x \in Values[d]
      BY ValuesGrow
    <3>2. g[x] = WriteOf(g, x)
      BY <2>1, Zenon
    <3>3. h[x] = WriteOf(g, x)
      BY <3>1
    <3> QED BY <3>2, <3>3
  <2>4. \A v \in Values[d] : WriteOf(g, v) = WriteOf(h, v)
    <3> HIDE DEF h
    <3> QED BY <2>2, <2>3, WriteAgrees
  <2>5. h = [v \in Values[d] |-> WriteOf(h, v)]
    <3>1. h = [v \in Values[d] |-> WriteOf(g, v)]
      OBVIOUS
    <3> HIDE DEF h
    <3> QED BY <2>4, <3>1
  <2> HIDE DEF h
  <2> QED BY <2>2, <2>5
<1> HIDE DEF S
<1>3. \A d \in 0 .. MaxDepth : d \in S
  BY <1>1, <1>2, AllUpTo, JcsAssumption
<1> QED BY <1>3 DEF S

(* WriteCanonical satisfies its recursion.                                 *)
LEMMA WriteUnfolds == \A v \in Value : WriteCanonical[v] = WriteOf(WriteCanonical, v)
<1> DEFINE P(g) == g = [v \in Value |-> WriteOf(g, v)]
<1>1. WriteCanonical = CHOOSE g : P(g)
  BY DEF WriteCanonical, WriteOf, PickWrite, WriteArray, WriteObject, ItemTexts, MemberTexts
<1>2. \E g : P(g)
  <2>1. MaxDepth \in 0 .. MaxDepth
    BY JcsAssumption
  <2> QED BY <2>1, WriteExists DEF Value
<1> HIDE DEF P
<1>3. P(WriteCanonical)
  BY <1>1, <1>2
<1>4. WriteCanonical = [v \in Value |-> WriteOf(WriteCanonical, v)]
  BY <1>3 DEF P
<1> QED BY <1>4, Zenon

(* The recursions of Meaning, Turned and MembersInOrder.                   *)
Meanings(g, items) == [i \in 1 .. Len(items) |-> g[items[i]]]

(* What members mean.                                                      *)
MemberMeanings(g, members) == {<<members[i][1], g[members[i][2]]>> : i \in 1 .. Len(members)}

(* Members the other way round.                                            *)
TurnedMembers(g, members) ==
  [i \in 1 .. Len(members) |->
     <<members[Len(members) + 1 - i][1], g[members[Len(members) + 1 - i][2]]>>]

(* All items have it.                                                      *)
ItemsHold(g, items) == \A i \in 1 .. Len(items) : g[items[i]]

(* Members are in order, and all their values have it.                     *)
MembersHold(g, members) ==
  \A i \in 1 .. Len(members) :
    /\ i > 1 => Precedes(Ranks(members[i - 1][1]), Ranks(members[i][1]))
    /\ g[members[i][2]]

(* What a value means when g gives what smaller ones mean.                 *)
MeaningOf(g, v) ==
  CASE v[1] = "array" -> Array(Meanings(g, v[2]))
    [] v[1] = "object" -> <<"object", MemberMeanings(g, v[2])>>
    [] OTHER -> ScalarMeaning(v)

(* A value turned round when g turns smaller ones.                         *)
TurnedOf(g, v) ==
  CASE v[1] = "array" -> Array(Meanings(g, v[2]))
    [] v[1] = "object" -> Object(TurnedMembers(g, v[2]))
    [] OTHER -> v

(* Whether a value is in order when g says it of smaller ones.             *)
InOrderOf(g, v) ==
  CASE v[1] = "array" -> ItemsHold(g, v[2])
    [] v[1] = "object" -> MembersHold(g, Ordered(v[2]))
    [] OTHER -> TRUE

(* What each kind of value means.                                          *)
LEMMA MeaningOfIs ==
  \A g, v :
    /\ v[1] = "array" => MeaningOf(g, v) = Array(Meanings(g, v[2]))
    /\ v[1] = "object" => MeaningOf(g, v) = <<"object", MemberMeanings(g, v[2])>>
    /\ v[1] \in Kinds => MeaningOf(g, v) = ScalarMeaning(v)
<1> TAKE g, v
<1> DEFINE C == Array(Meanings(g, v[2]))
           D == <<"object", MemberMeanings(g, v[2])>>
           F == ScalarMeaning(v)
           r == MeaningOf(g, v)
<1>1. r = CASE v[1] = "array" -> C [] v[1] = "object" -> D [] OTHER -> F
  BY DEF MeaningOf
<1> HIDE DEF C, D, F, r
<1>2. /\ v[1] = "array" => r = C
      /\ v[1] = "object" => r = D
      /\ v[1] \in Kinds => r = F
  BY <1>1 DEF Kinds
<1> QED BY <1>2 DEF C, D, F, r

(* Each kind of value turned round.                                        *)
LEMMA TurnedOfIs ==
  \A g, v :
    /\ v[1] = "array" => TurnedOf(g, v) = Array(Meanings(g, v[2]))
    /\ v[1] = "object" => TurnedOf(g, v) = Object(TurnedMembers(g, v[2]))
    /\ v[1] \in Kinds => TurnedOf(g, v) = v
<1> TAKE g, v
<1> DEFINE C == Array(Meanings(g, v[2]))
           D == Object(TurnedMembers(g, v[2]))
           r == TurnedOf(g, v)
<1>1. r = CASE v[1] = "array" -> C [] v[1] = "object" -> D [] OTHER -> v
  BY DEF TurnedOf
<1> HIDE DEF C, D, r
<1>2. /\ v[1] = "array" => r = C
      /\ v[1] = "object" => r = D
      /\ v[1] \in Kinds => r = v
  BY <1>1 DEF Kinds
<1> QED BY <1>2 DEF C, D, r

(* When each kind of value is in order.                                    *)
LEMMA InOrderOfIs ==
  \A g, v :
    /\ v[1] = "array" => InOrderOf(g, v) = ItemsHold(g, v[2])
    /\ v[1] = "object" => InOrderOf(g, v) = MembersHold(g, Ordered(v[2]))
    /\ v[1] \in Kinds => InOrderOf(g, v) = TRUE
<1> TAKE g, v
<1>1. CASE v[1] = "array"
  BY <1>1 DEF InOrderOf, Kinds
<1>2. CASE v[1] = "object"
  BY <1>2 DEF InOrderOf, Kinds
<1>3. CASE v[1] \in Kinds
  BY <1>3 DEF InOrderOf, Kinds
<1> QED BY <1>1, <1>2, <1>3 DEF Kinds

(* Meaning is the function of its recursion.                               *)
LEMMA MeaningUnit == Meaning = CHOOSE g : g = [v \in Value |-> MeaningOf(g, v)]
BY DEF Meaning, MeaningOf, Meanings, MemberMeanings

(* Turned is the function of its recursion.                                *)
LEMMA TurnedUnit == Turned = CHOOSE g : g = [v \in Value |-> TurnedOf(g, v)]
BY DEF Turned, TurnedOf, Meanings, TurnedMembers

(* MembersInOrder is the function of its recursion.                        *)
LEMMA InOrderUnit == MembersInOrder = CHOOSE g : g = [v \in Value |-> InOrderOf(g, v)]
BY DEF MembersInOrder, InOrderOf, ItemsHold, MembersHold

(* What a value means depends on what is in it only.                       *)
LEMMA MeaningAgrees ==
  ASSUME NEW d \in 0 .. MaxDepth, NEW v \in Values[d], NEW g, NEW h,
         d > 0 => \A x \in Values[d - 1] : g[x] = h[x]
  PROVE  MeaningOf(g, v) = MeaningOf(h, v)
<1>1. CASE v[1] \in Kinds
  BY <1>1, MeaningOfIs, Zenon
<1>2. CASE d \in 1 .. MaxDepth /\ v[1] = "array" /\ v[2] \in Seq(Values[d - 1])
  <2>1. \A i \in 1 .. Len(v[2]) : g[v[2][i]] = h[v[2][i]]
    <3> TAKE i \in 1 .. Len(v[2])
    <3>1. v[2][i] \in Values[d - 1]
      BY <1>2
    <3> QED BY <1>2, <3>1
  <2>2. Meanings(g, v[2]) = Meanings(h, v[2])
    BY <2>1 DEF Meanings
  <2> QED BY <1>2, <2>2, MeaningOfIs, Zenon
<1>3. CASE d \in 1 .. MaxDepth /\ v[1] = "object" /\ v[2] \in Members(Values[d - 1])
  <2>1. \A i \in 1 .. Len(v[2]) : v[2][i][2] \in Values[d - 1]
    BY <1>3, MembersAre
  <2>2. \A i \in 1 .. Len(v[2]) : g[v[2][i][2]] = h[v[2][i][2]]
    BY <1>3, <2>1
  <2>3. MemberMeanings(g, v[2]) = MemberMeanings(h, v[2])
    <3> DEFINE A == [i \in 1 .. Len(v[2]) |-> <<v[2][i][1], g[v[2][i][2]]>>]
               B == [i \in 1 .. Len(v[2]) |-> <<v[2][i][1], h[v[2][i][2]]>>]
    <3>1. A = B
      BY <2>2
    <3>2. MemberMeanings(g, v[2]) = {A[i] : i \in 1 .. Len(v[2])}
          /\ MemberMeanings(h, v[2]) = {B[i] : i \in 1 .. Len(v[2])}
      BY DEF MemberMeanings
    <3> HIDE DEF A, B
    <3> QED BY <3>1, <3>2
  <2> QED BY <1>3, <2>3, MeaningOfIs, Zenon
<1> QED BY <1>1, <1>2, <1>3, ValueParts

(* A value turned round depends on what is in it only.                     *)
LEMMA TurnedAgrees ==
  ASSUME NEW d \in 0 .. MaxDepth, NEW v \in Values[d], NEW g, NEW h,
         d > 0 => \A x \in Values[d - 1] : g[x] = h[x]
  PROVE  TurnedOf(g, v) = TurnedOf(h, v)
<1>1. CASE v[1] \in Kinds
  <2>1. TurnedOf(g, v) = v /\ TurnedOf(h, v) = v
    BY <1>1, TurnedOfIs
  <2> QED BY <2>1
<1>2. CASE d \in 1 .. MaxDepth /\ v[1] = "array" /\ v[2] \in Seq(Values[d - 1])
  <2>1. \A i \in 1 .. Len(v[2]) : g[v[2][i]] = h[v[2][i]]
    <3> TAKE i \in 1 .. Len(v[2])
    <3>1. v[2][i] \in Values[d - 1]
      BY <1>2
    <3> QED BY <1>2, <3>1
  <2>2. Meanings(g, v[2]) = Meanings(h, v[2])
    BY <2>1 DEF Meanings
  <2>3. TurnedOf(g, v) = Array(Meanings(g, v[2])) /\ TurnedOf(h, v) = Array(Meanings(h, v[2]))
    BY <1>2, TurnedOfIs
  <2> QED BY <2>2, <2>3, Zenon
<1>3. CASE d \in 1 .. MaxDepth /\ v[1] = "object" /\ v[2] \in Members(Values[d - 1])
  <2>1. \A i \in 1 .. Len(v[2]) : v[2][Len(v[2]) + 1 - i][2] \in Values[d - 1]
    <3>1. \A i \in 1 .. Len(v[2]) : Len(v[2]) + 1 - i \in 1 .. Len(v[2])
      BY <1>3, MembersAre
    <3>2. \A i \in 1 .. Len(v[2]) : v[2][i][2] \in Values[d - 1]
      BY <1>3, MembersAre
    <3> QED BY <3>1, <3>2, Zenon
  <2>2. \A i \in 1 .. Len(v[2]) : g[v[2][Len(v[2]) + 1 - i][2]] = h[v[2][Len(v[2]) + 1 - i][2]]
    BY <1>3, <2>1
  <2>3. TurnedMembers(g, v[2]) = TurnedMembers(h, v[2])
    <3>1. \A i \in 1 .. Len(v[2]) :
            <<v[2][Len(v[2]) + 1 - i][1], g[v[2][Len(v[2]) + 1 - i][2]]>>
              = <<v[2][Len(v[2]) + 1 - i][1], h[v[2][Len(v[2]) + 1 - i][2]]>>
      BY <2>2
    <3> QED BY <3>1, Zenon DEF TurnedMembers
  <2>4. /\ TurnedOf(g, v) = Object(TurnedMembers(g, v[2]))
        /\ TurnedOf(h, v) = Object(TurnedMembers(h, v[2]))
    BY <1>3, TurnedOfIs
  <2> QED BY <2>3, <2>4, Zenon
<1> QED BY <1>1, <1>2, <1>3, ValueParts

(* Whether a value is in order depends on what is in it only.              *)
LEMMA InOrderAgrees ==
  ASSUME NEW d \in 0 .. MaxDepth, NEW v \in Values[d], NEW g, NEW h,
         d > 0 => \A x \in Values[d - 1] : g[x] = h[x]
  PROVE  InOrderOf(g, v) = InOrderOf(h, v)
<1>1. CASE v[1] \in Kinds
  BY <1>1, InOrderOfIs, Zenon
<1>2. CASE d \in 1 .. MaxDepth /\ v[1] = "array" /\ v[2] \in Seq(Values[d - 1])
  <2>1. \A i \in 1 .. Len(v[2]) : g[v[2][i]] = h[v[2][i]]
    <3> TAKE i \in 1 .. Len(v[2])
    <3>1. v[2][i] \in Values[d - 1]
      BY <1>2
    <3> QED BY <1>2, <3>1
  <2>2. ItemsHold(g, v[2]) = ItemsHold(h, v[2])
    BY <2>1, Zenon DEF ItemsHold
  <2> QED BY <1>2, <2>2, InOrderOfIs, Zenon
<1>3. CASE d \in 1 .. MaxDepth /\ v[1] = "object" /\ v[2] \in Members(Values[d - 1])
  <2> DEFINE o == Ordered(v[2])
             V == Values[d - 1]
  <2>0. v[2] \in Members(V)
    BY <1>3
  <2>1. o \in Seq(Text \X V)
    <3> HIDE DEF V
    <3> QED BY <2>0, OrderedIs
  <2> HIDE DEF o, V
  <2>2. \A i \in 1 .. Len(o) : o[i][2] \in V
    BY <2>1
  <2>3. \A i \in 1 .. Len(o) : g[o[i][2]] = h[o[i][2]]
    BY <1>3, <2>2 DEF V
  <2>4. MembersHold(g, o) = MembersHold(h, o)
    BY <2>3, Zenon DEF MembersHold
  <2> QED BY <1>3, <2>4, InOrderOfIs, Zenon DEF o
<1> QED BY <1>1, <1>2, <1>3, ValueParts

(* The three of them at once.                                              *)
TreeOf(k, g, v) ==
  IF k = 1 THEN MeaningOf(g, v) ELSE IF k = 2 THEN TurnedOf(g, v) ELSE InOrderOf(g, v)

(* The same of all three.                                                  *)
LEMMA TreeAgrees ==
  ASSUME NEW k \in 1 .. 3, NEW d \in 0 .. MaxDepth, NEW v \in Values[d], NEW g, NEW h,
         d > 0 => \A x \in Values[d - 1] : g[x] = h[x]
  PROVE  TreeOf(k, g, v) = TreeOf(k, h, v)
<1>1. MeaningOf(g, v) = MeaningOf(h, v)
  BY MeaningAgrees
<1>2. TurnedOf(g, v) = TurnedOf(h, v)
  BY TurnedAgrees
<1>3. InOrderOf(g, v) = InOrderOf(h, v)
  BY InOrderAgrees
<1> QED BY <1>1, <1>2, <1>3, Zenon DEF TreeOf

(* The three recursions define functions, by induction over depth.         *)
LEMMA TreeExists ==
  ASSUME NEW k \in 1 .. 3, NEW n \in 0 .. MaxDepth
  PROVE  \E g : g = [v \in Values[n] |-> TreeOf(k, g, v)]
<1> DEFINE S == {d \in 0 .. MaxDepth : \E g : g = [v \in Values[d] |-> TreeOf(k, g, v)]}
<1>1. 0 \in S
  <2> DEFINE h == [v \in Values[0] |-> TreeOf(k, 0, v)]
  <2>0. 0 \in 0 .. MaxDepth
    BY JcsAssumption
  <2>1. \A v \in Values[0] : TreeOf(k, 0, v) = TreeOf(k, h, v)
    <3> HIDE DEF h
    <3> QED BY <2>0, TreeAgrees
  <2>2. h = [v \in Values[0] |-> TreeOf(k, h, v)]
    <3>1. h = [v \in Values[0] |-> TreeOf(k, 0, v)]
      OBVIOUS
    <3> HIDE DEF h
    <3> QED BY <2>1, <3>1
  <2> HIDE DEF h
  <2> QED BY <2>0, <2>2
<1>2. ASSUME NEW d \in 1 .. MaxDepth, d - 1 \in S PROVE d \in S
  <2>1. PICK g : g = [v \in Values[d - 1] |-> TreeOf(k, g, v)]
    BY <1>2
  <2> DEFINE h == [v \in Values[d] |-> TreeOf(k, g, v)]
  <2>2. d \in 0 .. MaxDepth /\ d > 0
    OBVIOUS
  <2>3. \A x \in Values[d - 1] : g[x] = h[x]
    <3> TAKE x \in Values[d - 1]
    <3>1. x \in Values[d]
      BY ValuesGrow
    <3>2. g[x] = TreeOf(k, g, x)
      BY <2>1, Zenon
    <3>3. h[x] = TreeOf(k, g, x)
      BY <3>1
    <3> QED BY <3>2, <3>3
  <2>4. \A v \in Values[d] : TreeOf(k, g, v) = TreeOf(k, h, v)
    <3> HIDE DEF h
    <3> QED BY <2>2, <2>3, TreeAgrees
  <2>5. h = [v \in Values[d] |-> TreeOf(k, h, v)]
    <3>1. h = [v \in Values[d] |-> TreeOf(k, g, v)]
      OBVIOUS
    <3> HIDE DEF h
    <3> QED BY <2>4, <3>1
  <2> HIDE DEF h
  <2> QED BY <2>2, <2>5
<1> HIDE DEF S
<1>3. \A d \in 0 .. MaxDepth : d \in S
  BY <1>1, <1>2, AllUpTo, JcsAssumption
<1> QED BY <1>3 DEF S

(* The functions of the three recursions satisfy them.                     *)
LEMMA TreeUnfolds ==
  ASSUME NEW k \in 1 .. 3, NEW f, f = CHOOSE g : g = [v \in Value |-> TreeOf(k, g, v)]
  PROVE  \A v \in Value : f[v] = TreeOf(k, f, v)
<1> DEFINE P(g) == g = [v \in Value |-> TreeOf(k, g, v)]
<1>1. f = CHOOSE g : P(g)
  OBVIOUS
<1>2. \E g : P(g)
  <2>1. MaxDepth \in 0 .. MaxDepth
    BY JcsAssumption
  <2> QED BY <2>1, TreeExists DEF Value
<1> HIDE DEF P
<1>3. P(f)
  BY <1>1, <1>2
<1>4. f = [v \in Value |-> TreeOf(k, f, v)]
  BY <1>3 DEF P
<1> QED BY <1>4, Zenon

(* Meaning satisfies its recursion.                                        *)
LEMMA MeaningUnfolds == \A v \in Value : Meaning[v] = MeaningOf(Meaning, v)
<1> DEFINE f == Meaning
<1>1. 1 \in 1 .. 3 /\ \A g, v : TreeOf(1, g, v) = MeaningOf(g, v)
  BY DEF TreeOf
<1>2. f = CHOOSE g : g = [v \in Value |-> TreeOf(1, g, v)]
  BY MeaningUnit, <1>1
<1> HIDE DEF f
<1>3. \A v \in Value : f[v] = TreeOf(1, f, v)
  BY <1>1, <1>2, TreeUnfolds
<1> QED BY <1>1, <1>3, Zenon DEF f

(* Turned satisfies its recursion.                                         *)
LEMMA TurnedUnfolds == \A v \in Value : Turned[v] = TurnedOf(Turned, v)
<1> DEFINE f == Turned
<1>1. 2 \in 1 .. 3 /\ \A g, v : TreeOf(2, g, v) = TurnedOf(g, v)
  BY DEF TreeOf
<1>2. f = CHOOSE g : g = [v \in Value |-> TreeOf(2, g, v)]
  BY TurnedUnit, <1>1
<1> HIDE DEF f
<1>3. \A v \in Value : f[v] = TreeOf(2, f, v)
  BY <1>1, <1>2, TreeUnfolds
<1> QED BY <1>1, <1>3, Zenon DEF f

(* MembersInOrder satisfies its recursion.                                 *)
LEMMA InOrderUnfolds == \A v \in Value : MembersInOrder[v] = InOrderOf(MembersInOrder, v)
<1> DEFINE f == MembersInOrder
<1>1. 3 \in 1 .. 3 /\ \A g, v : TreeOf(3, g, v) = InOrderOf(g, v)
  BY DEF TreeOf
<1>2. f = CHOOSE g : g = [v \in Value |-> TreeOf(3, g, v)]
  BY InOrderUnit, <1>1
<1> HIDE DEF f
<1>3. \A v \in Value : f[v] = TreeOf(3, f, v)
  BY <1>1, <1>2, TreeUnfolds
<1> QED BY <1>1, <1>3, Zenon DEF f

(* The four functions of a scalar.                                         *)
LEMMA ScalarForms ==
  ASSUME NEW v \in Scalars
  PROVE  /\ v \in Value
         /\ WriteCanonical[v] = WriteOf(WriteCanonical, v)
         /\ Meaning[v] = ScalarMeaning(v)
         /\ Turned[v] = v
         /\ MembersInOrder[v]
<1>1. v \in Value
  <2>1. 0 \in 0 .. MaxDepth
    BY JcsAssumption
  <2> QED BY <2>1, ValuesAre, ValuesIn
<1>2. v[1] \in Kinds
  BY ScalarParts
<1>3. WriteCanonical[v] = WriteOf(WriteCanonical, v)
  BY <1>1, WriteUnfolds
<1>4. Meaning[v] = ScalarMeaning(v)
  BY <1>1, <1>2, MeaningUnfolds, MeaningOfIs, Zenon
<1>5. Turned[v] = v
  <2>1. TurnedOf(Turned, v) = v
    BY <1>2, TurnedOfIs
  <2> QED BY <1>1, <2>1, TurnedUnfolds
<1>6. MembersInOrder[v]
  <2>1. InOrderOf(MembersInOrder, v) = TRUE
    BY <1>2, InOrderOfIs
  <2> QED BY <1>1, <2>1, InOrderUnfolds
<1> QED BY <1>1, <1>3, <1>4, <1>5, <1>6

(* The four functions of an array.                                         *)
LEMMA ArrayForms ==
  ASSUME NEW d \in 1 .. MaxDepth, NEW items \in Seq(Values[d - 1])
  PROVE  /\ Array(items) \in Values[d] /\ Array(items) \in Value
         /\ WriteCanonical[Array(items)] = WriteArray(WriteCanonical, items)
         /\ Meaning[Array(items)] = Array(Meanings(Meaning, items))
         /\ Turned[Array(items)] = Array(Meanings(Turned, items))
         /\ MembersInOrder[Array(items)] = ItemsHold(MembersInOrder, items)
<1> DEFINE v == Array(items)
<1>1. v[1] = "array" /\ v[2] = items
  BY DEF Array
<1>2. v \in Values[d]
  BY ValuesAre DEF Array
<1>3. v \in Value
  <2>1. d \in 0 .. MaxDepth
    OBVIOUS
  <2> QED BY <1>2, <2>1, ValuesIn
<1> HIDE DEF v
<1>4. WriteCanonical[v] = WriteArray(WriteCanonical, items)
  BY <1>1, <1>3, WriteUnfolds, WriteOfIs, Zenon
<1>5. Meaning[v] = Array(Meanings(Meaning, items))
  BY <1>1, <1>3, MeaningUnfolds, MeaningOfIs, Zenon
<1>6. Turned[v] = Array(Meanings(Turned, items))
  <2>1. TurnedOf(Turned, v) = Array(Meanings(Turned, items))
    BY <1>1, TurnedOfIs
  <2> QED BY <1>3, <2>1, TurnedUnfolds
<1>7. MembersInOrder[v] = ItemsHold(MembersInOrder, items)
  BY <1>1, <1>3, InOrderUnfolds, InOrderOfIs, Zenon
<1> QED BY <1>2, <1>3, <1>4, <1>5, <1>6, <1>7 DEF v

(* The four functions of an object.                                        *)
LEMMA ObjectForms ==
  ASSUME NEW d \in 1 .. MaxDepth, NEW ms \in Members(Values[d - 1])
  PROVE  /\ Object(ms) \in Values[d] /\ Object(ms) \in Value
         /\ WriteCanonical[Object(ms)] = WriteObject(WriteCanonical, Ordered(ms))
         /\ Meaning[Object(ms)] = <<"object", MemberMeanings(Meaning, ms)>>
         /\ Turned[Object(ms)] = Object(TurnedMembers(Turned, ms))
         /\ MembersInOrder[Object(ms)] = MembersHold(MembersInOrder, Ordered(ms))
<1> DEFINE v == Object(ms)
<1>1. v[1] = "object" /\ v[2] = ms
  BY DEF Object
<1>2. v \in Values[d]
  BY ValuesAre DEF Object
<1>3. v \in Value
  <2>1. d \in 0 .. MaxDepth
    OBVIOUS
  <2> QED BY <1>2, <2>1, ValuesIn
<1> HIDE DEF v
<1>4. WriteCanonical[v] = WriteObject(WriteCanonical, Ordered(ms))
  BY <1>1, <1>3, WriteUnfolds, WriteOfIs, Zenon
<1>5. Meaning[v] = <<"object", MemberMeanings(Meaning, ms)>>
  BY <1>1, <1>3, MeaningUnfolds, MeaningOfIs, Zenon
<1>6. Turned[v] = Object(TurnedMembers(Turned, ms))
  <2>1. TurnedOf(Turned, v) = Object(TurnedMembers(Turned, ms))
    BY <1>1, TurnedOfIs
  <2> QED BY <1>3, <2>1, TurnedUnfolds
<1>7. MembersInOrder[v] = MembersHold(MembersInOrder, Ordered(ms))
  BY <1>1, <1>3, InOrderUnfolds, InOrderOfIs, Zenon
<1> QED BY <1>2, <1>3, <1>4, <1>5, <1>6, <1>7 DEF v

------------------------------------------------------------------------------
(* Every value is read back.                                               *)

(* Where a value may begin, the text is read as that value.                *)
ReadsAs(text, value) ==
  \A in : \A m \in {"value", "first"} :
    in.kind \in Nesting => Settled(Run(Expecting(in, m), text)) = Delivered(in, value)

(* Where a value may stand, one character begins it.                       *)
LEMMA OneReads ==
  \A in, c : \A m \in {"value", "first"} :
    c \in Int /\ in.kind \in Nesting /\ c # CloseArray /\ c # CloseObject
      => <<c>> \in Seq(Int) /\ Run(Expecting(in, m), <<c>>) = Begin(in, c)
<1> TAKE in, c
<1> TAKE m \in {"value", "first"}
<1> SUFFICES ASSUME c \in Int, in.kind \in Nesting, c # CloseArray, c # CloseObject
             PROVE  <<c>> \in Seq(Int) /\ Run(Expecting(in, m), <<c>>) = Begin(in, c)
  OBVIOUS
<1>1. <<c>> \in Seq(Int)
  OBVIOUS
<1>2. Run(Expecting(in, m), <<c>>) = Advanced(Expecting(in, m), c)
  BY RunOne
<1>3. in.kind # "object" /\ ~Closes(in, c)
  BY DEF Nesting, Closes
<1> QED BY <1>1, <1>2, <1>3, StepValue

(* The literal names are read as their values.                             *)
LEMMA LiteralReads ==
  /\ <<Literals.null>> \in Seq(Int) /\ <<Literals.true>> \in Seq(Int) /\ <<Literals.false>> \in Seq(Int)
  /\ ReadsAs(<<Literals.null>>, Null)
  /\ ReadsAs(<<Literals.true>>, Bool(TRUE))
  /\ ReadsAs(<<Literals.false>>, Bool(FALSE))
<1> DEFINE a == Literals.null
           b == Literals.true
           c == Literals.false
           yes == Bool(TRUE)
           no == Bool(FALSE)
<1>1. a = 9001 /\ b = 9002 /\ c = 9003
  BY DEF Literals
<1>2. \A in : Begin(in, a) = Delivered(in, Null) /\ Begin(in, b) = Delivered(in, yes)
              /\ Begin(in, c) = Delivered(in, no)
  <2> TAKE in
  <2>1. \A x \in {a, b, c} : x # Quote /\ x # OpenArray /\ x # OpenObject /\ x \notin Figure \union {Minus}
    BY <1>1 DEF Quote, OpenArray, OpenObject, Figure, Minus, Zero
  <2>2. a # b /\ a # c /\ b # c
    BY <1>1
  <2> HIDE DEF yes, no
  <2>3. Begin(in, Literals.null) = Delivered(in, Null)
    BY <2>1, <2>2 DEF Begin
  <2>4. Begin(in, Literals.true) = Delivered(in, Bool(TRUE))
    BY <2>1, <2>2 DEF Begin
  <2>5. Begin(in, Literals.false) = Delivered(in, Bool(FALSE))
    BY <2>1, <2>2 DEF Begin
  <2> QED BY <2>3, <2>4, <2>5 DEF yes, no
<1> HIDE DEF a, b, c, yes, no
<1>3. \A x \in {a, b, c} : x \in Int /\ x # CloseArray /\ x # CloseObject
  BY <1>1 DEF CloseArray, CloseObject
<1>4. \A x \in {a, b, c} : \A in : \A m \in {"value", "first"} : in.kind \in Nesting =>
        <<x>> \in Seq(Int) /\ Run(Expecting(in, m), <<x>>) = Begin(in, x)
  BY <1>3, OneReads
<1>5. <<a>> \in Seq(Int) /\ <<b>> \in Seq(Int) /\ <<c>> \in Seq(Int)
  BY <1>3
<1>6. \A in, value : Settled(Delivered(in, value)) = Delivered(in, value)
  BY SettledIs
<1>7. ReadsAs(<<a>>, Null)
  BY <1>2, <1>4, <1>6 DEF ReadsAs
<1>8. ReadsAs(<<b>>, yes)
  BY <1>2, <1>4, <1>6 DEF ReadsAs
<1>9. ReadsAs(<<c>>, no)
  BY <1>2, <1>4, <1>6 DEF ReadsAs
<1> QED BY <1>5, <1>7, <1>8, <1>9 DEF a, b, c, yes, no

(* A string in quotes is read as a string where a value may stand.         *)
LEMMA QuoteReads ==
  ASSUME NEW text \in Text
  PROVE  Quoted(text) \in Seq(Int) /\ ReadsAs(Quoted(text), String(text))
<1> DEFINE rest == Escaped(text) \o <<Quote>>
<1>1. /\ Quoted(text) = <<Quote>> \o rest /\ Quoted(text) \in Seq(Int)
      /\ rest \in Seq(Int)
      /\ \A in : Run(Expecting(in, "string"), rest) = EndString(in, text)
  BY QuotedReads, Zenon
<1> HIDE DEF rest
<1>2. ASSUME NEW in, NEW m \in {"value", "first"}, in.kind \in Nesting
      PROVE  Settled(Run(Expecting(in, m), Quoted(text))) = Delivered(in, String(text))
  <2>1. in.kind # "object" /\ ~Closes(in, Quote)
    BY <1>2, CodesDiffer DEF Nesting, Closes
  <2>2. Advanced(Expecting(in, m), Quote) = Expecting(in, "string")
    <3>1. Begin(in, Quote) = Expecting(in, "string")
      BY CodesDiffer DEF Begin, OpenArray, OpenObject, Quote, Literals, Figure, Minus, Zero
    <3> QED BY <2>1, <3>1, StepValue
  <2>3. Run(Expecting(in, m), <<Quote>> \o rest) = Run(Advanced(Expecting(in, m), Quote), rest)
    BY <1>1, RunThen, CodesDiffer
  <2>4. EndString(in, text) = Delivered(in, String(text))
    BY <2>1 DEF EndString
  <2>5. Run(Expecting(in, m), Quoted(text)) = Delivered(in, String(text))
    BY <1>1, <2>2, <2>3, <2>4
  <2> QED BY <2>5, SettledIs
<1> QED BY <1>1, <1>2 DEF ReadsAs

(* Every scalar is read back, unless it is a number that is not finite.    *)
LEMMA ScalarReads ==
  ASSUME NEW v \in Scalars
  PROVE  /\ WriteCanonical[v] \in Seq(Int)
         /\ ~Holds(WriteCanonical[v], NonFiniteNumber) => ReadsAs(WriteCanonical[v], Meaning[v])
<1> DEFINE w == WriteOf(WriteCanonical, v)
<1>1. WriteCanonical[v] = w /\ Meaning[v] = ScalarMeaning(v)
  BY ScalarForms
<1>2. v[1] \in Kinds
  BY ScalarParts
<1>3. CASE v[1] = "null"
  <2>1. w = <<Literals.null>> /\ ScalarMeaning(v) = Null
    BY <1>3, WriteOfIs, ScalarParts DEF ScalarMeaning
  <2> QED BY <1>1, <2>1, LiteralReads
<1>4. CASE v[1] = "bool"
  <2>1. v = Bool(v[2]) /\ v[2] \in BOOLEAN
    BY <1>4, ScalarParts
  <2>2. ScalarMeaning(v) = v
    BY <1>4 DEF ScalarMeaning
  <2>3. w = IF v[2] THEN <<Literals.true>> ELSE <<Literals.false>>
    BY <1>4, WriteOfIs, Zenon
  <2> HIDE DEF w
  <2>4. CASE v[2] = TRUE
    <3>1. w = <<Literals.true>> /\ v = Bool(TRUE)
      BY <2>1, <2>3, <2>4
    <3> QED BY <1>1, <2>2, <3>1, LiteralReads
  <2>5. CASE v[2] = FALSE
    <3>1. w = <<Literals.false>> /\ v = Bool(FALSE)
      BY <2>1, <2>3, <2>5
    <3> QED BY <1>1, <2>2, <3>1, LiteralReads
  <2> QED BY <2>1, <2>4, <2>5
<1>5. CASE v[1] = "integer"
  <2>1. v[2] \in -MaxInteger .. MaxInteger
    BY <1>5, ScalarParts
  <2>2. w = Signed(v[2]) /\ ScalarMeaning(v) = NumberOf(Signed(v[2]))
    BY <1>5, WriteOfIs DEF ScalarMeaning
  <2>3. NumberText(w)
    BY <2>1, <2>2, IntegerText
  <2> HIDE DEF w
  <2>4. ReadsAs(w, NumberOf(w))
    BY <2>3, NumberReads DEF ReadsAs
  <2> QED BY <1>1, <2>2, <2>3, <2>4 DEF NumberText
<1>6. CASE v[1] = "double"
  <2> DEFINE d == v[2]
  <2>1. d \in Finite
    BY <1>6, ScalarParts
  <2>2. w = WriteDouble(d)
    BY <1>6, WriteOfIs, Zenon
  <2>3. ScalarMeaning(v) = IF d.digits = << >> THEN <<"number", FALSE, << >>, 0>>
                           ELSE <<"number", d.negative, d.digits, d.power>>
    BY <1>6 DEF ScalarMeaning
  <2> HIDE DEF w, d
  <2>4. /\ NumberText(w)
        /\ NumberOf(w) = <<"number", d.negative /\ d.digits # << >>, d.digits,
                           IF d.digits = << >> THEN 0 ELSE d.power>>
    BY <2>1, <2>2, DoubleReads
  <2>5. NumberOf(w) = ScalarMeaning(v)
    <3>1. d.negative \in BOOLEAN
      BY <2>1 DEF Finite
    <3>2. CASE d.digits = << >>
      <4>1. (d.negative /\ d.digits # << >>) = FALSE
        BY <3>2
      <4> QED BY <2>3, <2>4, <3>2, <4>1
    <3>3. CASE d.digits # << >>
      <4>1. (d.negative /\ d.digits # << >>) = d.negative
        BY <3>1, <3>3
      <4> QED BY <2>3, <2>4, <3>3, <4>1
    <3> QED BY <3>2, <3>3
  <2>6. ReadsAs(w, NumberOf(w))
    BY <2>4, NumberReads DEF ReadsAs
  <2> QED BY <1>1, <2>4, <2>5, <2>6 DEF NumberText
<1>7. CASE v[1] = "nonfinite"
  <2>1. w = <<NonFiniteNumber>>
    BY <1>7, WriteOfIs, Zenon
  <2> HIDE DEF w
  <2>2. w \in Seq(Int) /\ Holds(w, NonFiniteNumber)
    <3>1. NonFiniteNumber \in Int
      BY DEF NonFiniteNumber
    <3> QED BY <2>1, <3>1 DEF Holds
  <2> QED BY <1>1, <2>2
<1>8. CASE v[1] = "string"
  <2>1. v = String(v[2]) /\ v[2] \in Text
    BY <1>8, ScalarParts
  <2>2. w = Quoted(v[2]) /\ ScalarMeaning(v) = v
    BY <1>8, WriteOfIs DEF ScalarMeaning
  <2> HIDE DEF w
  <2> QED BY <1>1, <2>1, <2>2, QuoteReads
<1> QED BY <1>2, <1>3, <1>4, <1>5, <1>6, <1>7, <1>8 DEF Kinds

(* The fields of where the reader is.                                      *)
InsideIs == \A kind, held, name, outer :
  LET i == Inside(kind, held, name, outer)
  IN  i.kind = kind /\ i.held = held /\ i.name = name /\ i.outer = outer

(* They are what they were made of.                                        *)
LEMMA InsideHas == InsideIs
BY DEF InsideIs, Inside

(* The value of a member makes it one of the object.                       *)
LEMMA MemberDelivered ==
  \A held, name, outer, value :
    Delivered(Inside("member", held, name, outer), value)
      = Expecting(Inside("object", held \union {<<name, value>>}, << >>, outer), "after")
<1> TAKE held, name, outer, value
<1> DEFINE i == Inside("member", held, name, outer)
<1>1. i.kind = "member" /\ i.held = held /\ i.name = name /\ i.outer = outer
  BY InsideHas DEF InsideIs
<1> HIDE DEF i
<1>2. Delivered(i, value) = Expecting(Inside("object", i.held \union {<<i.name, value>>}, << >>, i.outer), "after")
  BY <1>1 DEF Delivered
<1>3. Delivered(i, value) = Expecting(Inside("object", held \union {<<name, value>>}, << >>, outer), "after")
  BY <1>1, <1>2
<1> QED BY <1>3 DEF i

(* A value in an array is its next item.                                   *)
LEMMA ItemDelivered ==
  \A held, outer, value :
    Delivered(Inside("array", held, << >>, outer), value)
      = Expecting(Inside("array", Append(held, value), << >>, outer), "after")
BY InsideHas DEF InsideIs, Delivered

(* A list of texts between brackets: what the reader goes through.         *)
LEMMA BracketsRead ==
  ASSUME NEW texts \in Seq(Seq(Int)), NEW I, NEW open, NEW close, NEW in, NEW m \in {"value", "first"},
         \A n \in 0 .. Len(texts) : I[n].kind \in {"array", "object"} /\ Closes(I[n], close),
         close \notin NumberChars, close \in Int, open \in Int,
         Advanced(Expecting(in, m), open) = Expecting(I[0], "first"),
         \A n \in 1 .. Len(texts) : \A k \in {"value", "first"} :
           Settled(Run(Expecting(I[n - 1], k), texts[n])) = Expecting(I[n], "after")
  PROVE  Run(Expecting(in, m), <<open>> \o Separated(texts) \o <<close>>) = Close(I[Len(texts)])
<1> DEFINE S == Separated(texts)
<1>1. S \in Seq(Int)
  BY SeparatedHolds
<1>2. Advanced(Run(Expecting(I[0], "first"), S), close) = Close(I[Len(texts)])
  BY ListReads
<1> HIDE DEF S
<1>3. <<open>> \o S \in Seq(Int)
  <2>1. <<open>> \in Seq(Int)
    OBVIOUS
  <2> QED BY <1>1, <2>1, TextConcat, Zenon
<1>4. Run(Expecting(in, m), <<open>> \o S \o <<close>>) = Advanced(Run(Expecting(in, m), <<open>> \o S), close)
  BY <1>3, RunEnd
<1>5. Run(Expecting(in, m), <<open>> \o S) = Run(Expecting(I[0], "first"), S)
  <2>1. \A s : Run(s, <<open>> \o S) = Run(Advanced(s, open), S)
    BY <1>1, RunThen, Zenon
  <2> QED BY <2>1, Zenon
<1> QED BY <1>2, <1>4, <1>5 DEF S

(* What a list in brackets has, its texts have.                            *)
LEMMA BracketsHold ==
  ASSUME NEW texts \in Seq(Seq(Int)), NEW open \in Int, NEW close \in Int
  PROVE  /\ <<open>> \o Separated(texts) \o <<close>> \in Seq(Int)
         /\ \A c : ~Holds(<<open>> \o Separated(texts) \o <<close>>, c) => \A i \in 1 .. Len(texts) : ~Holds(texts[i], c)
         /\ \A c : /\ c # Comma /\ c # open /\ c # close
                   /\ \A i \in 1 .. Len(texts) : ~Holds(texts[i], c)
                   => ~Holds(<<open>> \o Separated(texts) \o <<close>>, c)
<1> DEFINE S == Separated(texts)
           a == <<open>>
           b == <<close>>
<1>0. DOMAIN texts = 1 .. Len(texts)
  OBVIOUS
<1>1. /\ S \in Seq(Int)
      /\ \A c : (\E i \in DOMAIN texts : Holds(texts[i], c)) => Holds(S, c)
      /\ \A c : c # Comma /\ (\A i \in DOMAIN texts : ~Holds(texts[i], c)) => ~Holds(S, c)
  BY SeparatedHolds, Zenon
<1>2. /\ a \in Seq(Int) /\ b \in Seq(Int)
      /\ \A c : Holds(a, c) <=> c = open
      /\ \A c : Holds(b, c) <=> c = close
  BY DEF Holds
<1> HIDE DEF S, a, b
<1>3. a \o S \in Seq(Int) /\ a \o S \o b \in Seq(Int)
  BY <1>1, <1>2, TextConcat, Zenon
<1>4. \A c : Holds(a \o S \o b, c) <=> Holds(a, c) \/ Holds(S, c) \/ Holds(b, c)
  <2> TAKE c
  <2>1. Holds(a \o S \o b, c) <=> Holds(a \o S, c) \/ Holds(b, c)
    BY <1>2, <1>3, ConcatHolds
  <2>2. Holds(a \o S, c) <=> Holds(a, c) \/ Holds(S, c)
    BY <1>1, <1>2, ConcatHolds
  <2> QED BY <2>1, <2>2
<1>5. \A c : ~Holds(a \o S \o b, c) => \A i \in 1 .. Len(texts) : ~Holds(texts[i], c)
  BY <1>0, <1>1, <1>4, Zenon
<1>6. \A c : c # Comma /\ c # open /\ c # close /\ (\A i \in 1 .. Len(texts) : ~Holds(texts[i], c))
               => ~Holds(a \o S \o b, c)
  BY <1>0, <1>1, <1>2, <1>4, Zenon
<1> QED BY <1>3, <1>5, <1>6, Zenon DEF S, a, b

(* A value that is read back, unless a number in it is not finite.         *)
Readable(v) ==
  /\ WriteCanonical[v] \in Seq(Int)
  /\ ~Holds(WriteCanonical[v], NonFiniteNumber) => ReadsAs(WriteCanonical[v], Meaning[v])

(* An array is read back when its items are.                               *)
LEMMA ArrayReads ==
  ASSUME NEW d \in 1 .. MaxDepth, NEW items \in Seq(Values[d - 1]),
         \A i \in 1 .. Len(items) : Readable(items[i])
  PROVE  Readable(Array(items))
<1> DEFINE W == WriteCanonical
           texts == ItemTexts(W, items)
           M == Meanings(Meaning, items)
           text == <<OpenArray>> \o Separated(texts) \o <<CloseArray>>
<1>1. W[Array(items)] = text /\ Meaning[Array(items)] = Array(M)
  BY ArrayForms, Zenon DEF WriteArray
<1>2. /\ Len(items) \in Nat /\ texts \in Seq(Seq(Int)) /\ Len(texts) = Len(items)
      /\ \A i \in 1 .. Len(items) : texts[i] = W[items[i]]
  <2>1. \A i \in 1 .. Len(items) : W[items[i]] \in Seq(Int)
    BY DEF Readable
  <2> HIDE DEF W
  <2> QED BY <2>1 DEF ItemTexts
<1> DEFINE X == {Meaning[items[i]] : i \in 1 .. Len(items)}
<1>3. M \in Seq(X) /\ Len(M) = Len(items) /\ \A i \in 1 .. Len(items) : M[i] = Meaning[items[i]]
  <2>1. \A i \in 1 .. Len(items) : Meaning[items[i]] \in X
    OBVIOUS
  <2> HIDE DEF X
  <2> QED BY <1>2, <2>1 DEF Meanings
<1> HIDE DEF W, texts, M, X
<1>4. text \in Seq(Int) /\ \A c : ~Holds(text, c) => \A i \in 1 .. Len(texts) : ~Holds(texts[i], c)
  BY <1>2, BracketsHold, CodesDiffer
<1>5. ASSUME ~Holds(text, NonFiniteNumber) PROVE ReadsAs(text, Array(M))
  <2>0. \A i \in 1 .. Len(items) : ReadsAs(texts[i], M[i])
    <3> TAKE i \in 1 .. Len(items)
    <3>1. ~Holds(W[items[i]], NonFiniteNumber)
      BY <1>2, <1>4, <1>5
    <3>2. ReadsAs(W[items[i]], Meaning[items[i]])
      BY <3>1, Zenon DEF Readable, W
    <3> QED BY <3>2, <1>2, <1>3, Zenon
  <2>1. ASSUME NEW in, NEW m \in {"value", "first"}, in.kind \in Nesting
        PROVE  Settled(Run(Expecting(in, m), text)) = Delivered(in, Array(M))
    <3> DEFINE I == [n \in 0 .. Len(items) |-> Inside("array", First(M, n), << >>, in)]
    <3>1. \A n \in 0 .. Len(items) : I[n] = Inside("array", First(M, n), << >>, in)
      OBVIOUS
    <3> HIDE DEF I
    <3>2. \A n \in 0 .. Len(texts) : I[n].kind \in {"array", "object"} /\ Closes(I[n], CloseArray)
      BY <1>2, <3>1, InsideHas DEF InsideIs, Closes
    <3>3. Advanced(Expecting(in, m), OpenArray) = Expecting(I[0], "first")
      <4>1. in.kind # "object" /\ ~Closes(in, OpenArray)
        BY <2>1, CodesDiffer DEF Nesting, Closes
      <4>2. Begin(in, OpenArray) = Expecting(Inside("array", << >>, << >>, in), "first")
        BY DEF Begin, OpenArray, OpenObject, Quote, Literals, Figure, Minus, Zero
      <4>3. First(M, 0) = << >>
        BY <1>3, FirstIs
      <4>4. 0 \in 0 .. Len(items)
        BY <1>2
      <4> QED BY <4>1, <4>2, <4>3, <4>4, <3>1, StepValue
    <3>4. \A n \in 1 .. Len(texts) : \A k \in {"value", "first"} :
            Settled(Run(Expecting(I[n - 1], k), texts[n])) = Expecting(I[n], "after")
      <4> TAKE n \in 1 .. Len(texts)
      <4> TAKE k \in {"value", "first"}
      <4>1. n \in 1 .. Len(items) /\ n - 1 \in 0 .. Len(items) /\ n \in 0 .. Len(items)
        BY <1>2
      <4>2. I[n - 1].kind \in Nesting
        BY <3>1, <4>1, InsideHas DEF InsideIs, Nesting
      <4>3. Settled(Run(Expecting(I[n - 1], k), texts[n])) = Delivered(I[n - 1], M[n])
        BY <2>0, <4>1, <4>2, Zenon DEF ReadsAs
      <4>4. First(M, n) = Append(First(M, n - 1), M[n])
        BY <1>3, <4>1, FirstIs
      <4>5. Delivered(I[n - 1], M[n]) = Expecting(I[n], "after")
        <5>1. I[n - 1] = Inside("array", First(M, n - 1), << >>, in)
          BY ONLY <3>1, <4>1, Zenon
        <5>2. I[n] = Inside("array", Append(First(M, n - 1), M[n]), << >>, in)
          BY ONLY <3>1, <4>1, <4>4, Zenon
        <5> QED BY ONLY <5>1, <5>2, ItemDelivered, Zenon
      <4> QED BY ONLY <4>3, <4>5, Zenon
    <3>5. Run(Expecting(in, m), text) = Close(I[Len(texts)])
      <4>1. OpenArray \in Int /\ CloseArray \in Int /\ CloseArray \notin NumberChars
        BY CodesDiffer
      <4> HIDE DEF text
      <4>2. Run(Expecting(in, m), <<OpenArray>> \o Separated(texts) \o <<CloseArray>>) = Close(I[Len(texts)])
        <5>1. texts \in Seq(Seq(Int))
          BY <1>2, Zenon
        <5> QED BY ONLY <2>1, <5>1, <3>2, <3>3, <3>4, <4>1, BracketsRead, SMTT(20)
      <4> QED BY ONLY <4>2, Zenon DEF text
    <3>6. Close(I[Len(texts)]) = Delivered(in, Array(M))
      <4>1. First(M, Len(M)) = M
        BY <1>3, FirstIs
      <4>2. Len(items) \in 0 .. Len(items)
        BY <1>2
      <4>3. I[Len(texts)] = Inside("array", M, << >>, in)
        BY <1>2, <1>3, <3>1, <4>1, <4>2
      <4> QED BY <4>3, InsideHas DEF InsideIs, Close, Array
    <3> HIDE DEF text
    <3> QED BY <3>5, <3>6, SettledIs
  <2> HIDE DEF text
  <2> QED BY <2>1 DEF ReadsAs
<1> HIDE DEF text
<1> QED BY <1>1, <1>4, <1>5, Zenon DEF Readable, W

(* A name, a colon and a value are a text.                                 *)
LEMMA MemberTextType ==
  \A name \in Text : \A w \in Seq(Int) :
    /\ Quoted(name) \in Seq(Int) /\ Quoted(name) \o <<Colon>> \in Seq(Int)
    /\ Quoted(name) \o <<Colon>> \o w \in Seq(Int)
<1> TAKE name \in Text
<1> TAKE w \in Seq(Int)
<1>1. Quoted(name) \in Seq(Int)
  BY QuoteReads
<1>2. <<Colon>> \in Seq(Int)
  BY CodesDiffer
<1> QED BY <1>1, <1>2, TextConcat, Zenon

(* A name, a colon and a value are read as a member.                       *)
LEMMA MemberReads ==
  ASSUME NEW name \in Text, NEW w \in Seq(Int), NEW value, ReadsAs(w, value),
         NEW held, NEW outer, NEW m \in {"value", "first"}
  PROVE  Settled(Run(Expecting(Inside("object", held, << >>, outer), m), Quoted(name) \o <<Colon>> \o w))
           = Expecting(Inside("object", held \union {<<name, value>>}, << >>, outer), "after")
<1> DEFINE in == Inside("object", held, << >>, outer)
           member == Inside("member", held, name, outer)
           rest == Escaped(name) \o <<Quote>>
           q == Quoted(name)
           s == Expecting(in, m)
           end == Expecting(Inside("object", held \union {<<name, value>>}, << >>, outer), "after")
<1>1. /\ q = <<Quote>> \o rest /\ q \in Seq(Int) /\ rest \in Seq(Int)
      /\ Run(Expecting(in, "string"), rest) = EndString(in, name)
  BY QuotedReads, Zenon
<1>2. in.kind = "object" /\ in.held = held /\ in.outer = outer /\ member.kind = "member"
  BY InsideHas DEF InsideIs
<1>3. EndString(in, name) = Expecting(member, "colon")
  <2> HIDE DEF in
  <2> QED BY <1>2 DEF EndString
<1>4. Delivered(member, value) = end
  BY MemberDelivered
<1>5. q \o <<Colon>> \in Seq(Int)
  BY MemberTextType
<1> HIDE DEF in, member, rest, q, end
<1>6. Advanced(s, Quote) = Expecting(in, "string")
  <2>1. ~Closes(in, Quote)
    BY <1>2, CodesDiffer DEF Closes
  <2>2. BeginName(in, Quote) = Expecting(in, "string")
    BY DEF BeginName
  <2> QED BY <1>2, <2>1, <2>2, StepName
<1> HIDE DEF s
<1>7. Run(s, q) = Expecting(member, "colon")
  <2>1. Run(s, <<Quote>> \o rest) = Run(Advanced(s, Quote), rest)
    BY <1>1, RunThen, CodesDiffer
  <2> QED BY <1>1, <1>3, <1>6, <2>1
<1>8. Run(s, q \o <<Colon>>) = Expecting(member, "value")
  <2>1. Run(s, q \o <<Colon>>) = Advanced(Run(s, q), Colon)
    BY <1>1, RunEnd, CodesDiffer
  <2> QED BY <1>7, <2>1, StepColon
<1>9. Run(s, q \o <<Colon>> \o w) = Run(Expecting(member, "value"), w)
  <2>1. Run(s, q \o <<Colon>> \o w) = Run(Run(s, q \o <<Colon>>), w)
    BY <1>5, RunConcat
  <2> QED BY <1>8, <2>1
<1>10. Settled(Run(Expecting(member, "value"), w)) = Delivered(member, value)
  <2>1. member.kind \in Nesting
    BY <1>2 DEF Nesting
  <2> QED BY <2>1, Zenon DEF ReadsAs
<1>11. Settled(Run(s, q \o <<Colon>> \o w)) = end
  BY <1>4, <1>9, <1>10
<1> QED BY <1>11, Zenon DEF s, in, q, end

(* What the value of a member has, the member has.                         *)
LEMMA MemberHolds ==
  \A name \in Text : \A w \in Seq(Int) : \A c :
    Holds(w, c) => Holds(Quoted(name) \o <<Colon>> \o w, c)
<1> TAKE name \in Text
<1> TAKE w \in Seq(Int)
<1> TAKE c
<1> DEFINE a == Quoted(name) \o <<Colon>>
<1>1. a \in Seq(Int)
  BY MemberTextType
<1> HIDE DEF a
<1>2. Holds(a \o w, c) <=> Holds(a, c) \/ Holds(w, c)
  BY <1>1, ConcatHolds
<1> QED BY <1>2, Zenon DEF a

(* What the reader has of an object after n of its members.                *)
Held(M, o, n) == {<<o[i][1], M[o[i][2]]>> : i \in 1 .. n}

(* One member more.                                                        *)
LEMMA HeldIs ==
  \A M, o :
    /\ Held(M, o, 0) = {}
    /\ \A n \in Nat \ {0} : Held(M, o, n) = Held(M, o, n - 1) \union {<<o[n][1], M[o[n][2]]>>}
<1> TAKE M, o
<1> DEFINE e(i) == <<o[i][1], M[o[i][2]]>>
<1>1. \A n : Held(M, o, n) = {e(i) : i \in 1 .. n}
  BY DEF Held
<1> HIDE DEF e
<1>2. Held(M, o, 0) = {}
  BY <1>1
<1>3. ASSUME NEW n \in Nat \ {0} PROVE Held(M, o, n) = Held(M, o, n - 1) \union {e(n)}
  <2>1. 1 .. n = (1 .. n - 1) \union {n}
    OBVIOUS
  <2>2. {e(i) : i \in 1 .. n} = {e(i) : i \in 1 .. n - 1} \union {e(n)}
    BY <2>1
  <2> QED BY <1>1, <2>2
<1> QED BY <1>2, <1>3 DEF e

(* After all members in order, the reader has all members.                 *)
LEMMA HeldAll ==
  ASSUME NEW M, NEW V, NEW ms \in Members(V)
  PROVE  Held(M, Ordered(ms), Len(ms)) = MemberMeanings(M, ms)
<1> DEFINE o == Ordered(ms)
           e(x) == <<x[1], M[x[2]]>>
<1>1. /\ \A k \in 1 .. Len(ms) : \E i \in 1 .. Len(ms) : o[k] = ms[i]
      /\ \A i \in 1 .. Len(ms) : \E k \in 1 .. Len(ms) : o[k] = ms[i]
  BY OrderedIs
<1> HIDE DEF o
<1>2. Held(M, o, Len(ms)) = {e(o[i]) : i \in 1 .. Len(ms)}
  BY Zenon DEF Held
<1>3. MemberMeanings(M, ms) = {e(ms[i]) : i \in 1 .. Len(ms)}
  BY Zenon DEF MemberMeanings
<1> HIDE DEF e
<1>4. {e(o[i]) : i \in 1 .. Len(ms)} = {e(ms[i]) : i \in 1 .. Len(ms)}
  BY <1>1
<1> QED BY <1>2, <1>3, <1>4 DEF o

(* An object is read back when the values of its members are.              *)
LEMMA ObjectReads ==
  ASSUME NEW d \in 1 .. MaxDepth, NEW ms \in Members(Values[d - 1]),
         \A i \in 1 .. Len(ms) : Readable(ms[i][2])
  PROVE  Readable(Object(ms))
<1> DEFINE W == WriteCanonical
           o == Ordered(ms)
           texts == MemberTexts(W, o)
           M == Meaning
           meaning == MemberMeanings(M, ms)
           text == <<OpenObject>> \o Separated(texts) \o <<CloseObject>>
<1>1. W[Object(ms)] = text /\ Meaning[Object(ms)] = <<"object", meaning>>
  BY ObjectForms, Zenon DEF WriteObject
<1>2. /\ Len(ms) \in Nat /\ Len(o) = Len(ms)
      /\ \A i \in 1 .. Len(ms) : o[i][1] \in Text /\ Readable(o[i][2])
  <2> DEFINE V == Values[d - 1]
  <2>1. ms \in Members(V)
    OBVIOUS
  <2> HIDE DEF V, o
  <2>2. Len(ms) \in Nat /\ \A i \in 1 .. Len(ms) : ms[i][1] \in Text
    BY <2>1, MembersAre
  <2>3. Len(o) = Len(ms) /\ \A k \in 1 .. Len(ms) : \E i \in 1 .. Len(ms) : o[k] = ms[i]
    BY <2>1, OrderedIs DEF o
  <2> HIDE DEF Readable
  <2> QED BY <2>2, <2>3
<1>3. Held(M, o, Len(ms)) = meaning
  <2> DEFINE V == Values[d - 1]
  <2>1. ms \in Members(V)
    OBVIOUS
  <2> HIDE DEF V
  <2> QED BY <2>1, HeldAll
<1> HIDE DEF o, W, M, meaning
<1>4. /\ texts \in Seq(Seq(Int)) /\ Len(texts) = Len(ms)
      /\ \A i \in 1 .. Len(ms) : texts[i] = Quoted(o[i][1]) \o <<Colon>> \o W[o[i][2]]
  <2>1. \A i \in 1 .. Len(ms) : W[o[i][2]] \in Seq(Int)
    BY <1>2 DEF Readable, W
  <2>2. \A i \in 1 .. Len(ms) : Quoted(o[i][1]) \o <<Colon>> \o W[o[i][2]] \in Seq(Int)
    BY <1>2, <2>1, MemberTextType, Zenon
  <2> DEFINE e(i) == Quoted(o[i][1]) \o <<Colon>> \o W[o[i][2]]
  <2>3. texts = [i \in 1 .. Len(ms) |-> e(i)]
    BY <1>2, Zenon DEF MemberTexts
  <2>4. \A i \in 1 .. Len(ms) : e(i) \in Seq(Int)
    BY <2>2
  <2> HIDE DEF e, texts
  <2>5. texts \in Seq(Seq(Int)) /\ Len(texts) = Len(ms) /\ \A i \in 1 .. Len(ms) : texts[i] = e(i)
    BY <1>2, <2>3, <2>4
  <2> QED BY <2>5, Zenon DEF e
<1> HIDE DEF texts
<1>5. text \in Seq(Int) /\ \A c : ~Holds(text, c) => \A i \in 1 .. Len(texts) : ~Holds(texts[i], c)
  BY <1>4, BracketsHold, CodesDiffer
<1>6. ASSUME ~Holds(text, NonFiniteNumber) PROVE ReadsAs(text, <<"object", meaning>>)
  <2>0. \A i \in 1 .. Len(ms) : W[o[i][2]] \in Seq(Int) /\ ReadsAs(W[o[i][2]], M[o[i][2]])
    <3> TAKE i \in 1 .. Len(ms)
    <3>0. W[o[i][2]] \in Seq(Int)
      BY <1>2 DEF Readable, W
    <3>1. ~Holds(texts[i], NonFiniteNumber)
      BY <1>4, <1>5, <1>6
    <3>2. ~Holds(W[o[i][2]], NonFiniteNumber)
      BY <1>2, <1>4, <3>0, <3>1, MemberHolds, Zenon
    <3>3. ReadsAs(W[o[i][2]], M[o[i][2]])
      BY <1>2, <3>2, Zenon DEF Readable, W, M
    <3> QED BY <3>0, <3>3
  <2>1. ASSUME NEW in, NEW m \in {"value", "first"}, in.kind \in Nesting
        PROVE  Settled(Run(Expecting(in, m), text)) = Delivered(in, <<"object", meaning>>)
    <3> DEFINE I == [n \in 0 .. Len(ms) |-> Inside("object", Held(M, o, n), << >>, in)]
    <3>1. \A n \in 0 .. Len(ms) : I[n] = Inside("object", Held(M, o, n), << >>, in)
      OBVIOUS
    <3> HIDE DEF I
    <3>2. \A n \in 0 .. Len(texts) : I[n].kind \in {"array", "object"} /\ Closes(I[n], CloseObject)
      BY <1>4, <3>1, InsideHas DEF InsideIs, Closes
    <3>3. Advanced(Expecting(in, m), OpenObject) = Expecting(I[0], "first")
      <4>1. in.kind # "object" /\ ~Closes(in, OpenObject)
        BY <2>1, CodesDiffer DEF Nesting, Closes, OpenObject, CloseObject
      <4>2. Begin(in, OpenObject) = Expecting(Inside("object", {}, << >>, in), "first")
        BY DEF Begin, OpenArray, OpenObject, Quote, Literals, Figure, Minus, Zero
      <4>3. Held(M, o, 0) = {}
        BY HeldIs
      <4>4. 0 \in 0 .. Len(ms)
        BY <1>2
      <4> QED BY <4>1, <4>2, <4>3, <4>4, <3>1, StepValue
    <3>4. \A n \in 1 .. Len(texts) : \A k \in {"value", "first"} :
            Settled(Run(Expecting(I[n - 1], k), texts[n])) = Expecting(I[n], "after")
      <4> TAKE n \in 1 .. Len(texts)
      <4> TAKE k \in {"value", "first"}
      <4>1. n \in 1 .. Len(ms) /\ n - 1 \in 0 .. Len(ms) /\ n \in 0 .. Len(ms) /\ n \in Nat \ {0}
        BY <1>2, <1>4
      <4> DEFINE name == o[n][1]
                 w == W[o[n][2]]
                 value == M[o[n][2]]
                 before == Held(M, o, n - 1)
      <4>2. name \in Text /\ w \in Seq(Int) /\ ReadsAs(w, value) /\ texts[n] = Quoted(name) \o <<Colon>> \o w
        BY <1>2, <1>4, <2>0, <4>1, Zenon
      <4>3. Held(M, o, n) = before \union {<<name, value>>}
        <5>1. \A x \in Nat \ {0} : Held(M, o, x) = Held(M, o, x - 1) \union {<<o[x][1], M[o[x][2]]>>}
          BY HeldIs, Zenon
        <5> QED BY <4>1, <5>1, Zenon
      <4>4. I[n - 1] = Inside("object", before, << >>, in)
        BY <3>1, <4>1
      <4>5. I[n] = Inside("object", before \union {<<name, value>>}, << >>, in)
        BY <3>1, <4>1, <4>3
      <4> HIDE DEF name, w, value, before
      <4>6. Settled(Run(Expecting(Inside("object", before, << >>, in), k), Quoted(name) \o <<Colon>> \o w))
              = Expecting(Inside("object", before \union {<<name, value>>}, << >>, in), "after")
        BY <4>2, MemberReads
      <4> QED BY <4>2, <4>4, <4>5, <4>6, Zenon
    <3>5. Run(Expecting(in, m), text) = Close(I[Len(texts)])
      <4>1. OpenObject \in Int /\ CloseObject \in Int /\ CloseObject \notin NumberChars
        BY CodesDiffer
      <4> HIDE DEF text
      <4>2. Run(Expecting(in, m), <<OpenObject>> \o Separated(texts) \o <<CloseObject>>) = Close(I[Len(texts)])
        BY <1>4, <3>2, <3>3, <3>4, <4>1, BracketsRead
      <4> QED BY <4>2 DEF text
    <3>6. Close(I[Len(texts)]) = Delivered(in, <<"object", meaning>>)
      <4>1. Len(ms) \in 0 .. Len(ms)
        BY <1>2
      <4>2. I[Len(texts)] = Inside("object", meaning, << >>, in)
        BY <1>3, <1>4, <3>1, <4>1
      <4> QED BY <4>2, InsideHas DEF InsideIs, Close
    <3> HIDE DEF text
    <3> QED BY <3>5, <3>6, SettledIs
  <2> HIDE DEF text
  <2> QED BY <2>1 DEF ReadsAs
<1> HIDE DEF text
<1> QED BY <1>1, <1>5, <1>6, Zenon DEF Readable, W

(* Every value is read back, by induction over depth.                      *)
LEMMA AllReadable == \A v \in Value : Readable(v)
<1> DEFINE S == {v \in Value : Readable(v)}
<1>1. Scalars \subseteq S
  BY ScalarForms, ScalarReads DEF Readable
<1>2. \A d \in 1 .. MaxDepth : \A items \in Seq(Values[d - 1]) :
        (\A i \in 1 .. Len(items) : items[i] \in S) => Array(items) \in S
  <2> HIDE DEF Readable
  <2> QED BY ArrayForms, ArrayReads
<1>3. \A d \in 1 .. MaxDepth : \A ms \in Members(Values[d - 1]) :
        (\A i \in 1 .. Len(ms) : ms[i][2] \in S) => Object(ms) \in S
  <2> HIDE DEF Readable
  <2> QED BY ObjectForms, ObjectReads
<1> HIDE DEF S
<1>4. \A v \in Value : v \in S
  BY <1>1, <1>2, <1>3, AllValues
<1> QED BY <1>4 DEF S

(* encode_value and the reader: every text that is not an error reads as   *)
(* the meaning of the value it was written from.                           *)
LEMMA ValuesReadBack ==
  ASSUME NEW v \in Value, EncodeValue(v) # <<NonFiniteNumber>>
  PROVE  Read(EncodeValue(v)) = Meaning[v]
<1> DEFINE w == WriteCanonical[v]
           M == Meaning[v]
<1>1. w \in Seq(Int) /\ (~Holds(w, NonFiniteNumber) => ReadsAs(w, M))
  BY AllReadable DEF Readable
<1>2. EncodeValue(v) = IF Holds(w, NonFiniteNumber) THEN <<NonFiniteNumber>> ELSE w
  BY DEF EncodeValue
<1> HIDE DEF w, M
<1>3. ~Holds(w, NonFiniteNumber) /\ EncodeValue(v) = w
  BY <1>2
<1>4. Settled(Run(Expecting(Root, "value"), w)) = Delivered(Root, M)
  <2>1. Root.kind \in Nesting
    BY InsideHas DEF InsideIs, Root, Nesting
  <2> QED BY <1>1, <1>3, <2>1, Zenon DEF ReadsAs
<1>5. Delivered(Root, M) = Expecting(Inside("root", Append(<< >>, M), << >>, << >>), "after")
  <2> DEFINE in == Root
  <2>1. in.kind = "root" /\ in.held = << >>
    BY InsideHas DEF InsideIs, Root
  <2> HIDE DEF in
  <2>2. Delivered(in, M) = Expecting(Inside(in.kind, Append(in.held, M), << >>, in.outer), "after")
    BY <2>1 DEF Delivered
  <2>3. in.outer = << >>
    BY InsideHas DEF InsideIs, Root, in
  <2>4. Delivered(in, M) = Expecting(Inside("root", Append(<< >>, M), << >>, << >>), "after")
    BY <2>1, <2>2, <2>3
  <2> QED BY <2>4 DEF in
<1>6. /\ Delivered(Root, M).mode = "after" /\ Delivered(Root, M).in.kind = "root"
      /\ Delivered(Root, M).in.held = Append(<< >>, M)
  BY <1>5, InsideHas, ReadingIs DEF InsideIs, Expecting
<1>7. Append(<< >>, M)[1] = M
  OBVIOUS
<1>8. Read(w) = M
  BY <1>4, <1>6, <1>7 DEF Read
<1> QED BY <1>3, <1>8 DEF M

------------------------------------------------------------------------------
(* Every value has one text.                                               *)

(* Members with the same names and with values that T maps, in any order.  *)
Mapped(T, ms, other) ==
  /\ Len(other) = Len(ms) /\ NamesOf(other) = NamesOf(ms)
  /\ \A j \in 1 .. Len(ms) : \E i \in 1 .. Len(ms) : other[j] = <<ms[i][1], T[ms[i][2]]>>

(* Members that are mapped are mapped in order too: their names decide     *)
(* it.                                                                     *)
LEMMA OrderedMapped ==
  ASSUME NEW V, NEW T, NEW ms \in Members(V), NEW other \in Members(V), Mapped(T, ms, other)
  PROVE  \A k \in 1 .. Len(ms) : Ordered(other)[k] = <<Ordered(ms)[k][1], T[Ordered(ms)[k][2]]>>
<1>0. /\ Len(other) = Len(ms) /\ NamesOf(other) = NamesOf(ms)
      /\ \A j \in 1 .. Len(ms) : \E i \in 1 .. Len(ms) : other[j] = <<ms[i][1], T[ms[i][2]]>>
  BY Zenon DEF Mapped
<1> TAKE k \in 1 .. Len(ms)
<1> DEFINE N == NamesOf(ms)
           a == Ordered(ms)[k]
           b == Ordered(other)[k]
<1>1. a \in AllOf(ms) /\ Place(N, a[1]) = k - 1
  BY OrderedPlaces
<1>2. b \in AllOf(other) /\ Place(N, b[1]) = k - 1
  BY <1>0, OrderedPlaces
<1>3. /\ N \in SUBSET Text /\ IsFiniteSet(N)
      /\ \A m \in AllOf(ms) : m[1] \in N
  BY NamesAre
<1>4. \A m \in AllOf(other) : m[1] \in N
  BY <1>0, NamesAre
<1>5. \A x, y \in N : Place(N, x) = Place(N, y) => x = y
  <2> HIDE DEF N
  <2> QED BY <1>3, PlacesIs
<1> HIDE DEF a, b, N
<1>6. a[1] = b[1]
  BY <1>1, <1>2, <1>3, <1>4, <1>5
<1>7. PICK i \in 1 .. Len(ms) : a = ms[i]
  BY <1>1 DEF AllOf
<1>8. PICK j \in 1 .. Len(ms) : b = other[j]
  BY <1>0, <1>2 DEF AllOf
<1>9. PICK n \in 1 .. Len(ms) : other[j] = <<ms[n][1], T[ms[n][2]]>>
  BY <1>0
<1>10. i = n
  <2>1. ms[i][1] = ms[n][1]
    BY <1>6, <1>7, <1>8, <1>9
  <2> QED BY <2>1, MembersAre
<1>11. b = <<a[1], T[a[2]]>>
  BY <1>7, <1>8, <1>9, <1>10
<1> QED BY <1>11 DEF a, b

(* Members turned round are the same members with their values turned      *)
(* round.                                                                  *)
LEMMA TurnedMembersAre ==
  ASSUME NEW V, NEW ms \in Members(V), \A x \in V : Turned[x] \in V
  PROVE  LET other == TurnedMembers(Turned, ms)
         IN  /\ other \in Members(V) /\ Len(other) = Len(ms) /\ NamesOf(other) = NamesOf(ms)
             /\ \A j \in 1 .. Len(ms) : \E i \in 1 .. Len(ms) : other[j] = <<ms[i][1], Turned[ms[i][2]]>>
<1> DEFINE T == Turned
           other == TurnedMembers(T, ms)
           n == Len(ms)
<1>1. /\ n \in Nat
      /\ \A i \in 1 .. n : ms[i][1] \in Text /\ ms[i][2] \in V
      /\ \A i, j \in 1 .. n : ms[i][1] = ms[j][1] => i = j
  BY MembersAre
<1>2. other = [i \in 1 .. n |-> <<ms[n + 1 - i][1], T[ms[n + 1 - i][2]]>>]
  BY Zenon DEF TurnedMembers
<1> HIDE DEF n, T
<1>3. \A i \in 1 .. n : n + 1 - i \in 1 .. n /\ n + 1 - (n + 1 - i) = i
  BY <1>1
<1>4. \A i \in 1 .. n : ms[n + 1 - i][1] \in Text /\ T[ms[n + 1 - i][2]] \in V
  BY <1>1, <1>3 DEF T
<1> HIDE DEF other
<1>5. other \in Seq(Text \X V) /\ Len(other) = n /\ DOMAIN other = 1 .. n
  BY <1>1, <1>2, <1>4
<1>6. \A i \in 1 .. n : other[i] = <<ms[n + 1 - i][1], T[ms[n + 1 - i][2]]>> /\ other[i][1] = ms[n + 1 - i][1]
  BY <1>2
<1>7. \A i, j \in DOMAIN other : other[i][1] = other[j][1] => i = j
  <2> TAKE i, j \in DOMAIN other
  <2> HAVE other[i][1] = other[j][1]
  <2>1. i \in 1 .. n /\ j \in 1 .. n
    BY <1>5
  <2>2. n + 1 - i = n + 1 - j
    BY <1>1, <1>3, <1>6, <2>1
  <2> QED BY <1>1, <2>1, <2>2
<1>8. other \in Members(V)
  BY <1>5, <1>7 DEF Members
<1>9. NamesOf(other) = NamesOf(ms)
  <2>1. NamesOf(other) = {other[i][1] : i \in 1 .. n} /\ NamesOf(ms) = {ms[i][1] : i \in 1 .. n}
    BY <1>5 DEF NamesOf, n
  <2>2. ASSUME NEW x \in {other[i][1] : i \in 1 .. n} PROVE x \in {ms[i][1] : i \in 1 .. n}
    <3>1. PICK i \in 1 .. n : x = other[i][1]
      OBVIOUS
    <3>2. x = ms[n + 1 - i][1] /\ n + 1 - i \in 1 .. n
      BY <1>3, <1>6, <3>1
    <3> QED BY <3>2
  <2>3. ASSUME NEW x \in {ms[i][1] : i \in 1 .. n} PROVE x \in {other[i][1] : i \in 1 .. n}
    <3>1. PICK i \in 1 .. n : x = ms[i][1]
      OBVIOUS
    <3>2. n + 1 - i \in 1 .. n /\ x = other[n + 1 - i][1]
      BY <1>3, <1>6, <3>1
    <3> QED BY <3>2
  <2> QED BY <2>1, <2>2, <2>3
<1>10. \A j \in 1 .. n : \E i \in 1 .. n : other[j] = <<ms[i][1], T[ms[i][2]]>>
  BY <1>3, <1>6
<1> QED BY <1>5, <1>8, <1>9, <1>10 DEF n, other, T

(* A value keeps its text and stays a value when its members are turned    *)
(* round, and its members are written in order.                            *)
Canonical(v) ==
  WriteCanonical[Turned[v]] = WriteCanonical[v] /\ MembersInOrder[v]

(* An array has one text when its items have.                              *)
LEMMA ArrayCanonical ==
  ASSUME NEW d \in 1 .. MaxDepth, NEW items \in Seq(Values[d - 1]),
         \A x \in Values[d - 1] : Turned[x] \in Values[d - 1] /\ Canonical(x)
  PROVE  Turned[Array(items)] \in Values[d] /\ Canonical(Array(items))
<1> DEFINE V == Values[d - 1]
           T == Turned
           W == WriteCanonical
           other == Meanings(T, items)
<1>1. Len(items) \in Nat /\ \A i \in 1 .. Len(items) : items[i] \in V
  OBVIOUS
<1>2. /\ T[Array(items)] = Array(other)
      /\ W[Array(items)] = WriteArray(W, items)
      /\ MembersInOrder[Array(items)] = ItemsHold(MembersInOrder, items)
  BY ArrayForms
<1>3. \A i \in 1 .. Len(items) : T[items[i]] \in V /\ W[T[items[i]]] = W[items[i]] /\ MembersInOrder[items[i]]
  BY <1>1 DEF Canonical
<1>4. other \in Seq(Values[d - 1]) /\ Len(other) = Len(items) /\ \A i \in 1 .. Len(items) : other[i] = T[items[i]]
  <2> HIDE DEF T
  <2> QED BY <1>1, <1>3 DEF Meanings
<1> HIDE DEF other
<1>5. Array(other) \in Values[d] /\ W[Array(other)] = WriteArray(W, other)
  BY <1>4, ArrayForms
<1> HIDE DEF W, T
<1>6. ItemTexts(W, other) = ItemTexts(W, items)
  BY <1>1, <1>3, <1>4 DEF ItemTexts
<1>7. WriteArray(W, other) = WriteArray(W, items)
  BY <1>6, Zenon DEF WriteArray
<1>8. ItemsHold(MembersInOrder, items)
  BY <1>3 DEF ItemsHold
<1>9. W[T[Array(items)]] = W[Array(items)] /\ T[Array(items)] \in Values[d]
  BY <1>2, <1>5, <1>7
<1>10. MembersInOrder[Array(items)]
  BY <1>2, <1>8
<1> QED BY <1>9, <1>10 DEF Canonical, W, T

(* An object has one text, in order, when the values of its members have.  *)
LEMMA ObjectCanonical ==
  ASSUME NEW d \in 1 .. MaxDepth, NEW ms \in Members(Values[d - 1]),
         \A x \in Values[d - 1] : Turned[x] \in Values[d - 1] /\ Canonical(x)
  PROVE  Turned[Object(ms)] \in Values[d] /\ Canonical(Object(ms))
<1> DEFINE V == Values[d - 1]
           T == Turned
           W == WriteCanonical
           other == TurnedMembers(T, ms)
           o == Ordered(ms)
           p == Ordered(other)
<1>1. /\ T[Object(ms)] = Object(other)
      /\ W[Object(ms)] = WriteObject(W, o)
      /\ MembersInOrder[Object(ms)] = MembersHold(MembersInOrder, o)
  BY ObjectForms
<1>2. ms \in Members(V) /\ \A x \in V : T[x] \in V /\ W[T[x]] = W[x] /\ MembersInOrder[x]
  BY DEF Canonical
<1>3. /\ other \in Members(V) /\ Len(other) = Len(ms) /\ NamesOf(other) = NamesOf(ms)
      /\ \A j \in 1 .. Len(ms) : \E i \in 1 .. Len(ms) : other[j] = <<ms[i][1], T[ms[i][2]]>>
  <2> HIDE DEF V
  <2> QED BY <1>2, TurnedMembersAre
<1>4. Object(other) \in Values[d] /\ W[Object(other)] = WriteObject(W, p)
  BY <1>3, ObjectForms
<1> HIDE DEF V, T, W, other
<1>5. \A k \in 1 .. Len(ms) : p[k] = <<o[k][1], T[o[k][2]]>>
  <2> HIDE DEF o, p
  <2>1. Mapped(T, ms, other)
    BY <1>3, Zenon DEF Mapped
  <2>2. \A k \in 1 .. Len(ms) : Ordered(other)[k] = <<Ordered(ms)[k][1], T[Ordered(ms)[k][2]]>>
    BY <1>2, <1>3, <2>1, OrderedMapped
  <2> QED BY <2>2, Zenon DEF o, p
<1>6. /\ Len(p) = Len(ms) /\ Len(o) = Len(ms) /\ o \in Seq(Text \X V)
      /\ \A k \in 1 .. Len(ms) : k > 1 => Less(o[k - 1][1], o[k][1])
  BY <1>2, <1>3, OrderedIs
<1>7. Len(ms) \in Nat
  BY <1>2, MembersAre
<1> HIDE DEF o, p
<1>8. \A k \in 1 .. Len(ms) : o[k][1] \in Text /\ o[k][2] \in V
  BY <1>6
<1>9. \A k \in 1 .. Len(ms) : p[k][1] = o[k][1] /\ W[p[k][2]] = W[o[k][2]]
  BY <1>2, <1>5, <1>8
<1>10. MemberTexts(W, p) = MemberTexts(W, o)
  <2>1. \A i \in 1 .. Len(ms) : Quoted(p[i][1]) \o <<Colon>> \o W[p[i][2]] = Quoted(o[i][1]) \o <<Colon>> \o W[o[i][2]]
    BY <1>9, Zenon
  <2> QED BY <2>1, <1>6, Zenon DEF MemberTexts
<1>11. WriteObject(W, p) = WriteObject(W, o)
  BY <1>10, Zenon DEF WriteObject
<1>12. MembersHold(MembersInOrder, o)
  <2>1. ASSUME NEW k \in 1 .. Len(ms), k > 1 PROVE Precedes(Ranks(o[k - 1][1]), Ranks(o[k][1]))
    <3>1. k - 1 \in 1 .. Len(ms)
      BY <1>7, <2>1
    <3> QED BY <1>6, <1>8, <2>1, <3>1, LessOrder
  <2> QED BY <2>1, <1>2, <1>6, <1>8 DEF MembersHold
<1>13. W[T[Object(ms)]] = W[Object(ms)] /\ T[Object(ms)] \in Values[d]
  BY <1>1, <1>4, <1>11
<1>14. MembersInOrder[Object(ms)]
  BY <1>1, <1>12
<1> QED BY <1>13, <1>14 DEF Canonical, W, T

(* Every value has one text, in order, by induction over depth.            *)
LEMMA AllCanonical == \A v \in Value : Turned[v] \in Value /\ Canonical(v)
<1> DEFINE S == {d \in 0 .. MaxDepth : \A v \in Values[d] : Turned[v] \in Values[d] /\ Canonical(v)}
<1>1. \A v \in Scalars : Turned[v] = v /\ Canonical(v)
  BY ScalarForms DEF Canonical
<1>2. 0 \in S
  BY <1>1, ValuesAre, JcsAssumption
<1>3. ASSUME NEW d \in 1 .. MaxDepth, d - 1 \in S PROVE d \in S
  <2>1. \A x \in Values[d - 1] : Turned[x] \in Values[d - 1] /\ Canonical(x)
    BY <1>3
  <2>2. d \in 0 .. MaxDepth
    OBVIOUS
  <2> HIDE DEF Canonical
  <2>3. ASSUME NEW v \in Values[d] PROVE Turned[v] \in Values[d] /\ Canonical(v)
    <3>1. CASE v \in Scalars
      BY <1>1, <2>3, <3>1
    <3>2. CASE v = Array(v[2]) /\ v[2] \in Seq(Values[d - 1])
      BY <2>1, <3>2, ArrayCanonical
    <3>3. CASE v = Object(v[2]) /\ v[2] \in Members(Values[d - 1])
      BY <2>1, <3>3, ObjectCanonical
    <3> QED BY <2>2, <3>1, <3>2, <3>3, ValueParts
  <2> QED BY <2>2, <2>3
<1> HIDE DEF S
<1>4. \A d \in 0 .. MaxDepth : d \in S
  BY <1>2, <1>3, AllUpTo, JcsAssumption
<1>5. MaxDepth \in S
  BY <1>4, JcsAssumption
<1> QED BY <1>5 DEF S, Value

------------------------------------------------------------------------------
(* The JSON of each part of a manifest, and what a reader finds in it.     *)

(* Values of at most a depth with no number in them that is not finite.    *)
Plain(d) == {v \in Values[d] : ~Holds(WriteCanonical[v], NonFiniteNumber)}

(* A string in quotes is no error.                                         *)
LEMMA QuotedPlain == \A text \in Text : ~Holds(Quoted(text), NonFiniteNumber)
<1> TAKE text \in Text
<1> DEFINE texts == [i \in 1 .. Len(text) |-> EscapedChar(text[i])]
<1>1. \A c \in Char : EscapedChar(c) \in Seq(Int) /\ ~Holds(EscapedChar(c), NonFiniteNumber)
  <2> TAKE c \in Char
  <2>0. EscapedChar(c) \in Seq(Int)
    BY CharReads
  <2>1. c \in Nat
    BY DEF Char
  <2>2. CASE c \in DOMAIN ShortEscapes
    <3>1. EscapedChar(c) = <<Backslash, ShortEscapes[c]>> /\ ShortEscapes[c] \in Nat
      BY <2>2, ShortEscapesIs DEF EscapedChar
    <3> QED BY <2>0, <3>1 DEF Holds, NonFiniteNumber, Backslash
  <2>3. CASE c \notin DOMAIN ShortEscapes /\ c < 32
    <3>1. EscapedChar(c) = <<Backslash, LetterU, Zero, Zero, Hex(c \div 16), Hex(c % 16)>>
      BY <2>3 DEF EscapedChar
    <3>2. c \div 16 \in Nat /\ c % 16 \in Nat
      BY <2>1
    <3>3. Hex(c \div 16) \in Nat /\ Hex(c % 16) \in Nat
      BY <3>2 DEF Hex, Zero
    <3> QED BY <2>0, <3>1, <3>3 DEF Holds, NonFiniteNumber, Backslash, LetterU, Zero
  <2>4. CASE c \notin DOMAIN ShortEscapes /\ ~(c < 32)
    <3>1. EscapedChar(c) = <<c>>
      BY <2>4 DEF EscapedChar
    <3> QED BY <2>0, <2>1, <3>1 DEF Holds, NonFiniteNumber
  <2> QED BY <2>2, <2>3, <2>4
<1>2. Len(text) \in Nat /\ \A i \in 1 .. Len(text) : text[i] \in Char
  BY DEF Text
<1>3. texts \in Seq(Seq(Int)) /\ \A i \in DOMAIN texts : ~Holds(texts[i], NonFiniteNumber)
  <2>1. \A i \in 1 .. Len(text) : EscapedChar(text[i]) \in Seq(Int) /\ ~Holds(EscapedChar(text[i]), NonFiniteNumber)
    BY <1>1, <1>2
  <2> QED BY <2>1, <1>2
<1>4. ~Holds(Escaped(text), NonFiniteNumber)
  <2>1. Escaped(text) = Joined(texts)
    BY DEF Escaped
  <2> HIDE DEF texts
  <2> QED BY <1>3, <2>1, JoinedFree
<1>5. <<Quote>> \in Seq(Int) /\ ~Holds(<<Quote>>, NonFiniteNumber)
  BY DEF Quote, NonFiniteNumber, Holds
<1>6. Escaped(text) \in Seq(Int) /\ Escaped(text) \o <<Quote>> \in Seq(Int)
      /\ Quoted(text) = <<Quote>> \o (Escaped(text) \o <<Quote>>)
  BY EscapedReads, QuotedReads, Zenon
<1> DEFINE e == Escaped(text)
           q == <<Quote>>
<1> HIDE DEF e, q
<1>7. ~Holds(e \o q, NonFiniteNumber)
  BY <1>4, <1>5, <1>6, ConcatHolds DEF e, q
<1>8. ~Holds(q \o (e \o q), NonFiniteNumber)
  BY <1>5, <1>6, <1>7, ConcatHolds DEF e, q
<1> QED BY <1>6, <1>8, Zenon DEF e, q

(* A number is no error.                                                   *)
LEMMA NumberPlain == \A t : NumberText(t) => ~Holds(t, NonFiniteNumber)
<1> SUFFICES ASSUME NEW t, t \in Seq(NumberChars) PROVE ~Holds(t, NonFiniteNumber)
  BY DEF NumberText
<1>1. NonFiniteNumber \notin NumberChars
  BY DEF NonFiniteNumber, NumberChars, Figure, Zero, Plus, Minus, Point, Exponent
<1> HIDE DEF NumberChars
<1> QED BY <1>1 DEF Holds

(* A string is plain.                                                      *)
LEMMA StringPlain == \A d \in 0 .. MaxDepth : \A text \in Text : String(text) \in Plain(d)
<1> TAKE d \in 0 .. MaxDepth
<1> TAKE text \in Text
<1> DEFINE v == String(text)
<1>1. v \in Scalars /\ v[1] = "string" /\ v[2] = text
  BY DEF Scalars, String
<1> HIDE DEF v
<1>2. WriteCanonical[v] = Quoted(text)
  <2>1. WriteCanonical[v] = WriteOf(WriteCanonical, v)
    BY <1>1, ScalarForms
  <2> QED BY <1>1, <2>1, WriteOfIs
<1>3. v \in Values[d]
  BY <1>1, ValuesAre, JcsAssumption
<1> QED BY <1>2, <1>3, QuotedPlain DEF Plain, v

(* An integer is plain.                                                    *)
LEMMA IntegerPlain ==
  \A d \in 0 .. MaxDepth : \A n \in -MaxInteger .. MaxInteger : Integer(n) \in Plain(d)
<1> TAKE d \in 0 .. MaxDepth
<1> TAKE n \in -MaxInteger .. MaxInteger
<1> DEFINE v == Integer(n)
<1>1. v \in Scalars /\ v[1] = "integer" /\ v[2] = n
  BY DEF Scalars, Integer
<1> HIDE DEF v
<1>2. WriteCanonical[v] = Signed(n)
  <2>1. WriteCanonical[v] = WriteOf(WriteCanonical, v)
    BY <1>1, ScalarForms
  <2> QED BY <1>1, <2>1, WriteOfIs
<1>3. v \in Values[d]
  BY <1>1, ValuesAre, JcsAssumption
<1> QED BY <1>2, <1>3, IntegerText, NumberPlain DEF Plain, v

(* What is plain is so at the next depth.                                  *)
LEMMA PlainGrows == \A d \in 1 .. MaxDepth : Plain(d - 1) \subseteq Plain(d)
BY ValuesGrow DEF Plain

(* An array of plain items is plain.                                       *)
LEMMA ArrayPlain ==
  \A d \in 1 .. MaxDepth : \A items \in Seq(Plain(d - 1)) : Array(items) \in Plain(d)
<1> TAKE d \in 1 .. MaxDepth
<1> TAKE items \in Seq(Plain(d - 1))
<1> DEFINE W == WriteCanonical
           texts == ItemTexts(W, items)
<1>1. Len(items) \in Nat /\ \A i \in 1 .. Len(items) : items[i] \in Plain(d - 1)
  OBVIOUS
<1>2. items \in Seq(Values[d - 1])
  BY DEF Plain
<1>3. Array(items) \in Values[d] /\ W[Array(items)] = WriteArray(W, items)
  BY <1>2, ArrayForms
<1>4. \A i \in 1 .. Len(items) : W[items[i]] \in Seq(Int) /\ ~Holds(W[items[i]], NonFiniteNumber)
  <2>1. d - 1 \in 0 .. MaxDepth
    BY JcsAssumption
  <2> QED BY <1>1, <2>1, AllReadable, ValuesIn DEF Readable, Plain
<1> HIDE DEF W
<1>5. texts \in Seq(Seq(Int)) /\ Len(texts) = Len(items) /\ \A i \in 1 .. Len(texts) : ~Holds(texts[i], NonFiniteNumber)
  BY <1>1, <1>4 DEF ItemTexts
<1> HIDE DEF texts
<1>6. NonFiniteNumber # Comma /\ NonFiniteNumber # OpenArray /\ NonFiniteNumber # CloseArray
  BY DEF NonFiniteNumber, Comma, OpenArray, CloseArray
<1>7. ~Holds(<<OpenArray>> \o Separated(texts) \o <<CloseArray>>, NonFiniteNumber)
  BY <1>5, <1>6, BracketsHold, CodesDiffer
<1>8. ~Holds(W[Array(items)], NonFiniteNumber)
  BY <1>3, <1>7, Zenon DEF WriteArray, texts
<1> QED BY <1>3, <1>8 DEF Plain, W

(* An object of plain values is plain.                                     *)
LEMMA ObjectPlain ==
  \A d \in 1 .. MaxDepth : \A ms \in Members(Plain(d - 1)) : Object(ms) \in Plain(d)
<1> TAKE d \in 1 .. MaxDepth
<1> TAKE ms \in Members(Plain(d - 1))
<1> DEFINE W == WriteCanonical
           V == Plain(d - 1)
           o == Ordered(ms)
           texts == MemberTexts(W, o)
<1>1. Plain(d - 1) \subseteq Values[d - 1]
  BY DEF Plain
<1>2. ms \in Members(Values[d - 1])
  BY <1>1, MembersGrow
<1>3. Object(ms) \in Values[d] /\ W[Object(ms)] = WriteObject(W, o)
  BY <1>2, ObjectForms
<1>4. \A x \in V : W[x] \in Seq(Int) /\ ~Holds(W[x], NonFiniteNumber)
  <2>1. d - 1 \in 0 .. MaxDepth
    BY JcsAssumption
  <2> QED BY <2>1, AllReadable, ValuesIn DEF Readable, Plain
<1>5. Len(ms) \in Nat /\ o \in Seq(Text \X V) /\ Len(o) = Len(ms)
  <2>0. ms \in Members(V)
    OBVIOUS
  <2> HIDE DEF V
  <2> QED BY <2>0, OrderedIs, MembersAre
<1> HIDE DEF W, V, o
<1>6. \A i \in 1 .. Len(ms) : o[i][1] \in Text /\ o[i][2] \in V
  BY <1>5
<1> DEFINE e(i) == Quoted(o[i][1]) \o <<Colon>> \o W[o[i][2]]
<1>7. \A i \in 1 .. Len(ms) : e(i) \in Seq(Int) /\ ~Holds(e(i), NonFiniteNumber)
  <2> TAKE i \in 1 .. Len(ms)
  <2> DEFINE q == Quoted(o[i][1])
             c == <<Colon>>
             w == W[o[i][2]]
  <2>1. q \in Seq(Int) /\ q \o c \in Seq(Int) /\ q \o c \o w \in Seq(Int) /\ w \in Seq(Int)
    BY <1>4, <1>6, MemberTextType, Zenon
  <2>2. ~Holds(q, NonFiniteNumber) /\ ~Holds(w, NonFiniteNumber)
    BY <1>4, <1>6, QuotedPlain
  <2>3. c \in Seq(Int) /\ ~Holds(c, NonFiniteNumber)
    BY DEF Holds, Colon, NonFiniteNumber
  <2> HIDE DEF q, c, w
  <2>4. ~Holds(q \o c, NonFiniteNumber)
    BY <2>1, <2>2, <2>3, ConcatHolds
  <2>5. ~Holds(q \o c \o w, NonFiniteNumber)
    BY <2>1, <2>2, <2>4, ConcatHolds
  <2> QED BY <2>1, <2>5, Zenon DEF q, c, w
<1>8. texts = [i \in 1 .. Len(ms) |-> e(i)]
  BY <1>5, Zenon DEF MemberTexts
<1> HIDE DEF e, texts
<1>9. texts \in Seq(Seq(Int)) /\ Len(texts) = Len(ms) /\ \A i \in 1 .. Len(texts) : ~Holds(texts[i], NonFiniteNumber)
  BY <1>5, <1>7, <1>8
<1>10. NonFiniteNumber # Comma /\ NonFiniteNumber # OpenObject /\ NonFiniteNumber # CloseObject
  BY DEF NonFiniteNumber, Comma, OpenObject, CloseObject
<1>11. ~Holds(<<OpenObject>> \o Separated(texts) \o <<CloseObject>>, NonFiniteNumber)
  BY <1>9, <1>10, BracketsHold, CodesDiffer
<1>12. ~Holds(W[Object(ms)], NonFiniteNumber)
  BY <1>3, <1>11, Zenon DEF WriteObject, texts
<1> QED BY <1>3, <1>12 DEF Plain, W

(* The words of the vocabulary are texts of one character, all different.  *)
LEMMA WordsAre ==
  /\ \A w \in Vocabulary : Word(w) \in Text /\ Word(w)[1] = CharOf[w]
  /\ \A w, u \in Vocabulary : Word(w) = Word(u) => w = u
<1>1. \A w \in Vocabulary : CharOf[w] \in Char
  BY ManifestAssumption
<1>2. \A w, u \in Vocabulary : CharOf[w] = CharOf[u] => w = u
  BY ManifestAssumption
<1>3. \A w : Word(w)[1] = CharOf[w]
  BY DEF Word
<1>4. \A w \in Vocabulary : Word(w) \in Text
  BY <1>1 DEF Word, Text
<1> QED BY <1>2, <1>3, <1>4

(* An object of members with different names is plain when its values      *)
(* are, and looking a name up gives the meaning of its value.              *)
ObjectFinds(ms) ==
  \A name : \A i \in 1 .. Len(ms) :
    ms[i][1] = Word(name) => MemberOf(Meaning[Object(ms)], name) = Meaning[ms[i][2]]

(* An object of plain values is plain, and a reader finds its members.     *)
LEMMA ObjectRight ==
  \A d \in 1 .. MaxDepth : \A ms \in Members(Plain(d - 1)) :
    Object(ms) \in Plain(d) /\ ObjectFinds(ms)
<1> TAKE d \in 1 .. MaxDepth
<1> TAKE ms \in Members(Plain(d - 1))
<1>1. Object(ms) \in Plain(d)
  BY ObjectPlain
<1>2. ms \in Members(Values[d - 1])
  <2>1. Plain(d - 1) \subseteq Values[d - 1]
    BY DEF Plain
  <2> QED BY <2>1, MembersGrow
<1> DEFINE M == Meaning
           all == MemberMeanings(M, ms)
<1>3. M[Object(ms)] = <<"object", all>>
  BY <1>2, ObjectForms
<1>4. \A i, j \in 1 .. Len(ms) : ms[i][1] = ms[j][1] => i = j
  BY <1>2, MembersAre
<1>5. all = {<<ms[i][1], M[ms[i][2]]>> : i \in 1 .. Len(ms)}
  BY Zenon DEF MemberMeanings
<1> HIDE DEF M, all
<1>6. ASSUME NEW name, NEW i \in 1 .. Len(ms), ms[i][1] = Word(name)
      PROVE  MemberOf(<<"object", all>>, name) = M[ms[i][2]]
  <2> DEFINE m == CHOOSE m \in all : m[1] = Word(name)
             k == <<ms[i][1], M[ms[i][2]]>>
  <2>1. k \in all /\ k[1] = Word(name)
    BY <1>5, <1>6
  <2>2. m \in all /\ m[1] = Word(name)
    BY <2>1
  <2>3. MemberOf(<<"object", all>>, name) = m[2]
    BY DEF MemberOf
  <2> HIDE DEF m, k
  <2>4. PICK j \in 1 .. Len(ms) : m = <<ms[j][1], M[ms[j][2]]>>
    BY <1>5, <2>2
  <2>5. ms[j][1] = ms[i][1]
    BY <2>2, <2>4, <1>6
  <2>6. j = i
    BY <2>5, <1>4
  <2> QED BY <2>3, <2>4, <2>6
<1>7. ObjectFinds(ms)
  BY <1>3, <1>6, Zenon DEF ObjectFinds, M
<1> QED BY <1>1, <1>7

(* The name and the value of a member.                                     *)
MemberIs == \A a, x : Member(a, x)[1] = Word(a) /\ Member(a, x)[2] = x /\ Member(a, x) = <<Word(a), x>>

(* They are what it was made of.                                           *)
LEMMA MemberHas == MemberIs
BY DEF MemberIs, Member

(* No members have different names.                                        *)
LEMMA NoMembers == \A V : << >> \in Members(V)
BY DEF Members

(* An object of one member, and what a reader finds in it.                 *)
LEMMA OneObject ==
  \A d \in 1 .. MaxDepth : \A a \in Vocabulary : \A x \in Plain(d - 1) :
    LET o == Object(<<Member(a, x)>>)
    IN  o \in Plain(d) /\ MemberOf(Meaning[o], a) = Meaning[x]
<1> TAKE d \in 1 .. MaxDepth
<1> TAKE a \in Vocabulary
<1> TAKE x \in Plain(d - 1)
<1> DEFINE V == Plain(d - 1)
           m == Member(a, x)
           ms == <<m>>
<1>0. x \in V
  OBVIOUS
<1> HIDE DEF V
<1>1. m[1] = Word(a) /\ m[2] = x /\ m \in Text \X V
  BY <1>0, WordsAre, MemberHas DEF MemberIs
<1> HIDE DEF m
<1>2. ms \in Seq(Text \X V) /\ Len(ms) = 1 /\ ms[1] = m /\ DOMAIN ms = 1 .. 1
  BY <1>1
<1>3. ms \in Members(V)
  BY <1>2 DEF Members
<1> HIDE DEF ms
<1>4. Object(ms) \in Plain(d) /\ ObjectFinds(ms)
  BY <1>3, ObjectRight DEF V
<1>5. MemberOf(Meaning[Object(ms)], a) = Meaning[x]
  <2>1. ms[1][1] = Word(a) /\ 1 \in 1 .. Len(ms) /\ ms[1][2] = x
    BY <1>1, <1>2
  <2> QED BY <1>4, <2>1 DEF ObjectFinds
<1> QED BY <1>4, <1>5 DEF ms, m

(* An object of two members, and what a reader finds in it.                *)
LEMMA TwoObject ==
  \A d \in 1 .. MaxDepth : \A a, b \in Vocabulary : \A x, y \in Plain(d - 1) :
    LET o == Object(<<Member(a, x), Member(b, y)>>)
    IN  a # b =>
          o \in Plain(d) /\ MemberOf(Meaning[o], a) = Meaning[x] /\ MemberOf(Meaning[o], b) = Meaning[y]
<1> TAKE d \in 1 .. MaxDepth
<1> TAKE a, b \in Vocabulary
<1> TAKE x, y \in Plain(d - 1)
<1> DEFINE V == Plain(d - 1)
           m == Member(a, x)
           k == Member(b, y)
           ms == <<m, k>>
<1>0. x \in V /\ y \in V
  OBVIOUS
<1> HIDE DEF V
<1>1. /\ m[1] = Word(a) /\ m[2] = x /\ m \in Text \X V
      /\ k[1] = Word(b) /\ k[2] = y /\ k \in Text \X V
  BY <1>0, WordsAre, MemberHas DEF MemberIs
<1> HIDE DEF m, k
<1>2. ms \in Seq(Text \X V) /\ Len(ms) = 2 /\ ms[1] = m /\ ms[2] = k /\ DOMAIN ms = 1 .. 2
  BY <1>1
<1> HIDE DEF ms
<1>3. ASSUME a # b PROVE ms \in Members(V)
  <2>1. m[1] # k[1]
    BY <1>1, <1>3, WordsAre
  <2> QED BY <1>2, <2>1 DEF Members
<1>4. ASSUME a # b PROVE Object(ms) \in Plain(d) /\ ObjectFinds(ms)
  BY <1>3, <1>4, ObjectRight DEF V
<1>5. /\ 1 \in 1 .. Len(ms) /\ ms[1][1] = Word(a) /\ ms[1][2] = x
      /\ 2 \in 1 .. Len(ms) /\ ms[2][1] = Word(b) /\ ms[2][2] = y
  BY <1>1, <1>2
<1>6. ASSUME a # b
      PROVE  MemberOf(Meaning[Object(ms)], a) = Meaning[x] /\ MemberOf(Meaning[Object(ms)], b) = Meaning[y]
  BY <1>4, <1>5, <1>6 DEF ObjectFinds
<1>7. ASSUME a # b
      PROVE  /\ Object(ms) \in Plain(d)
             /\ MemberOf(Meaning[Object(ms)], a) = Meaning[x] /\ MemberOf(Meaning[Object(ms)], b) = Meaning[y]
  BY <1>4, <1>6, <1>7
<1> QED BY <1>7, Zenon DEF ms, m, k

(* An object of three members, and what a reader finds in it.              *)
LEMMA ThreeObject ==
  \A d \in 1 .. MaxDepth : \A a, b, c \in Vocabulary : \A x, y, z \in Plain(d - 1) :
    LET o == Object(<<Member(a, x), Member(b, y), Member(c, z)>>)
    IN  a # b /\ a # c /\ b # c =>
          /\ o \in Plain(d)
          /\ MemberOf(Meaning[o], a) = Meaning[x] /\ MemberOf(Meaning[o], b) = Meaning[y]
          /\ MemberOf(Meaning[o], c) = Meaning[z]
<1> TAKE d \in 1 .. MaxDepth
<1> TAKE a, b, c \in Vocabulary
<1> TAKE x, y, z \in Plain(d - 1)
<1> DEFINE V == Plain(d - 1)
           m == Member(a, x)
           k == Member(b, y)
           l == Member(c, z)
           ms == <<m, k, l>>
           different == a # b /\ a # c /\ b # c
<1>0. x \in V /\ y \in V /\ z \in V
  OBVIOUS
<1> HIDE DEF V
<1>1. /\ m[1] = Word(a) /\ m[2] = x /\ m \in Text \X V
      /\ k[1] = Word(b) /\ k[2] = y /\ k \in Text \X V
      /\ l[1] = Word(c) /\ l[2] = z /\ l \in Text \X V
  BY <1>0, WordsAre, MemberHas DEF MemberIs
<1> HIDE DEF m, k, l
<1>2. ms \in Seq(Text \X V) /\ Len(ms) = 3 /\ ms[1] = m /\ ms[2] = k /\ ms[3] = l /\ DOMAIN ms = 1 .. 3
  BY <1>1
<1> HIDE DEF ms
<1>3. ASSUME different PROVE ms \in Members(V)
  <2>1. m[1] # k[1] /\ m[1] # l[1] /\ k[1] # l[1]
    BY <1>1, <1>3, WordsAre
  <2> QED BY <1>2, <2>1 DEF Members
<1>4. ASSUME different PROVE Object(ms) \in Plain(d) /\ ObjectFinds(ms)
  <2> HIDE DEF different
  <2> QED BY <1>3, <1>4, ObjectRight DEF V
<1>5. /\ 1 \in 1 .. Len(ms) /\ ms[1][1] = Word(a) /\ ms[1][2] = x
      /\ 2 \in 1 .. Len(ms) /\ ms[2][1] = Word(b) /\ ms[2][2] = y
      /\ 3 \in 1 .. Len(ms) /\ ms[3][1] = Word(c) /\ ms[3][2] = z
  BY <1>1, <1>2
<1> HIDE DEF different
<1>6. ASSUME different
      PROVE  /\ MemberOf(Meaning[Object(ms)], a) = Meaning[x] /\ MemberOf(Meaning[Object(ms)], b) = Meaning[y]
             /\ MemberOf(Meaning[Object(ms)], c) = Meaning[z]
  BY <1>4, <1>5, <1>6 DEF ObjectFinds
<1>7. ASSUME different
      PROVE  /\ Object(ms) \in Plain(d)
             /\ MemberOf(Meaning[Object(ms)], a) = Meaning[x] /\ MemberOf(Meaning[Object(ms)], b) = Meaning[y]
             /\ MemberOf(Meaning[Object(ms)], c) = Meaning[z]
  BY <1>4, <1>6, <1>7
<1> QED BY <1>7, Zenon DEF ms, m, k, l, different

(* An array of plain items is plain, and a reader finds its items.         *)
LEMMA ArrayRight ==
  \A d \in 1 .. MaxDepth : \A items \in Seq(Plain(d - 1)) :
    /\ Array(items) \in Plain(d)
    /\ Meaning[Array(items)][2] = [i \in 1 .. Len(items) |-> Meaning[items[i]]]
<1> TAKE d \in 1 .. MaxDepth
<1> TAKE items \in Seq(Plain(d - 1))
<1>1. Array(items) \in Plain(d)
  BY ArrayPlain
<1>2. items \in Seq(Values[d - 1])
  <2>1. Plain(d - 1) \subseteq Values[d - 1]
    BY DEF Plain
  <2> QED BY <2>1, SeqGrows
<1>3. Meaning[Array(items)] = Array(Meanings(Meaning, items))
  BY <1>2, ArrayForms
<1>4. Meaning[Array(items)][2] = Meanings(Meaning, items)
  BY <1>3 DEF Array
<1> QED BY <1>1, <1>4, Zenon DEF Meanings

(* The words a manifest uses are in the vocabulary.                        *)
LEMMA VocabularyHas ==
  /\ Semantic \subseteq Vocabulary /\ AxisKinds \subseteq Vocabulary
  /\ {"produces", "derived_from", "used", "generated", "process_record"} \subseteq Vocabulary
  /\ {"axes", "data_objects", "entity", "extent", "id", "kind", "metadata", "namespace", "observations",
      "process", "process_records", "products", "provenance_relations", "relationships", "source",
      "target", "value", "version"} \subseteq Vocabulary
<1>1. AxisKinds \subseteq {"x", "y", "band", "time", "polarization"}
  BY ManifestAssumption
<1>2. {"x", "y", "band", "time", "polarization"} \subseteq Vocabulary
  BY Zenon DEF Vocabulary
<1>3. Semantic \subseteq Vocabulary
  BY Zenon DEF Semantic, Vocabulary
<1>4. {"produces", "derived_from", "used", "generated", "process_record"} \subseteq Vocabulary
  BY Zenon DEF Vocabulary
<1>5. {"axes", "data_objects", "entity", "extent", "id", "kind", "metadata", "namespace", "observations",
      "process", "process_records", "products", "provenance_relations", "relationships", "source",
      "target", "value", "version"} \subseteq Vocabulary
  BY Zenon DEF Vocabulary
<1> QED BY <1>1, <1>2, <1>3, <1>4, <1>5

(* The depths of a manifest are within the bound.                          *)
LEMMA DepthIs == MaxDepth \in Nat /\ 1 \in 1 .. MaxDepth /\ 2 \in 1 .. MaxDepth /\ 3 \in 1 .. MaxDepth
                 /\ 4 \in 1 .. MaxDepth /\ 5 \in 1 .. MaxDepth /\ 0 \in 0 .. MaxDepth
                 /\ \A d \in 1 .. MaxDepth : d \in 0 .. MaxDepth
BY JcsAssumption, ManifestAssumption

(* A string means itself.                                                  *)
LEMMA StringMeaning == \A text \in Text : Meaning[String(text)] = String(text)
<1> TAKE text \in Text
<1> DEFINE v == String(text)
<1>1. v \in Scalars /\ v[1] = "string"
  BY DEF Scalars, String
<1> HIDE DEF v
<1>2. Meaning[v] = ScalarMeaning(v)
  BY <1>1, ScalarForms
<1>3. ScalarMeaning(v) = v
  BY <1>1 DEF ScalarMeaning
<1> QED BY <1>2, <1>3 DEF v

(* A word is read as the word.                                             *)
LEMMA TokenRight ==
  \A d \in 0 .. MaxDepth : \A w \in Vocabulary : Token(w) \in Plain(d) /\ WordOf(Meaning[Token(w)]) = w
<1> TAKE d \in 0 .. MaxDepth
<1> TAKE w \in Vocabulary
<1>1. Word(w) \in Text /\ Word(w)[1] = CharOf[w]
  BY WordsAre
<1>2. Token(w) \in Plain(d)
  BY <1>1, StringPlain DEF Token
<1>3. Meaning[Token(w)][2] = Word(w)
  <2>1. Meaning[String(Word(w))] = String(Word(w))
    BY <1>1, StringMeaning
  <2>2. String(Word(w))[2] = Word(w)
    BY DEF String
  <2> QED BY <2>1, <2>2 DEF Token
<1>4. \A u \in Vocabulary : CharOf[u] = CharOf[w] => u = w
  BY ManifestAssumption
<1> DEFINE x == Meaning[Token(w)]
<1>5. x[2][1] = CharOf[w]
  BY <1>1, <1>3
<1> HIDE DEF x
<1>6. WordOf(x) = w
  BY <1>4, <1>5 DEF WordOf
<1> QED BY <1>2, <1>6 DEF x

(* integer64_to_json: an integer is read as it was, beyond what a double   *)
(* holds too.                                                              *)
LEMMA IntegerRight ==
  \A d \in 0 .. MaxDepth : \A n \in 0 .. MaxInteger :
    Integer64ToJson(n) \in Plain(d) /\ Integer64Of(Meaning[Integer64ToJson(n)]) = n
<1> TAKE d \in 0 .. MaxDepth
<1> TAKE n \in 0 .. MaxInteger
<1>0. n \in Nat /\ n \in -MaxInteger .. MaxInteger
  BY JcsAssumption
<1>1. CASE n <= MaxExact
  <2> DEFINE v == Integer(n)
             M == NumberOf(Signed(n))
  <2>1. Integer64ToJson(n) = v
    BY <1>1 DEF Integer64ToJson
  <2>2. v \in Plain(d)
    BY <1>0, IntegerPlain
  <2>3. v \in Scalars /\ v[1] = "integer" /\ v[2] = n
    BY <1>0 DEF Scalars, Integer
  <2>4. Meaning[v] = M
    <3> HIDE DEF v
    <3>1. Meaning[v] = ScalarMeaning(v)
      BY <2>3, ScalarForms
    <3>2. ScalarMeaning(v) = M
      BY <2>3 DEF ScalarMeaning
    <3> QED BY <3>1, <3>2
  <2>5. M[1] = "number" /\ Parsed(M[3] \o Zeros(M[4] + 1 - Len(M[3]))) = n
    BY IntegerReads
  <2> HIDE DEF v, M
  <2>6. Integer64Of(M) = Rounded(n)
    BY <2>5 DEF Integer64Of
  <2>7. Rounded(n) = n
    BY <1>1 DEF Rounded
  <2> QED BY <2>1, <2>2, <2>4, <2>6, <2>7
<1>2. CASE ~(n <= MaxExact)
  <2> DEFINE t == Decimal[n]
  <2>1. Integer64ToJson(n) = String(t)
    BY <1>2 DEF Integer64ToJson
  <2>2. t \in Text
    <3>1. t \in Seq(Figure)
      BY DecimalIs DEF DecimalRight
    <3>2. Figure \subseteq Char
      BY DEF Figure, Char, Zero
    <3> QED BY <3>1, <3>2, SeqGrows DEF Text
  <2>3. Parsed(t) = n
    <3>1. Signed(n) = t
      BY <1>0 DEF Signed
    <3> QED BY <1>0, <3>1, SignedIs
  <2> HIDE DEF t
  <2>4. String(t) \in Plain(d) /\ Meaning[String(t)] = String(t)
    BY <2>2, StringPlain, StringMeaning
  <2>5. Integer64Of(String(t)) = n
    BY <2>3 DEF Integer64Of, String
  <2> QED BY <2>1, <2>4, <2>5
<1> QED BY <1>1, <1>2

(* Ids, extents and versions are integers that can be written.             *)
LEMMA IdsAre == Ids \subseteq 0 .. MaxInteger /\ Extents \subseteq 0 .. MaxInteger
                /\ Versions \subseteq 0 .. MaxInteger
BY ManifestAssumption, SceneAssumption, JcsAssumption DEF Ids

(* A reference is read as its family and id.                               *)
LEMMA RefRight ==
  \A family \in Semantic \union {"process_record"} : \A id \in Ids :
    /\ RefToJson(family, id) \in Plain(1)
    /\ RefOf(Meaning[RefToJson(family, id)]) = [family |-> family, id |-> id]
<1> TAKE family \in Semantic \union {"process_record"}
<1> TAKE id \in Ids
<1> DEFINE x == Token(family)
           y == Integer64ToJson(id)
           o == RefToJson(family, id)
<1>1. x \in Plain(0) /\ WordOf(Meaning[x]) = family
  <2>1. family \in Vocabulary
    BY VocabularyHas
  <2> QED BY <2>1, TokenRight, DepthIs
<1>2. y \in Plain(0) /\ Integer64Of(Meaning[y]) = id
  BY IdsAre, IntegerRight, DepthIs
<1>3. o = Object(<<Member("entity", x), Member("id", y)>>)
  BY DEF RefToJson
<1> HIDE DEF x, y, o
<1>4. o \in Plain(1) /\ MemberOf(Meaning[o], "entity") = Meaning[x] /\ MemberOf(Meaning[o], "id") = Meaning[y]
  <2>1. "entity" \in Vocabulary /\ "id" \in Vocabulary /\ "entity" # "id"
    BY VocabularyHas
  <2>2. 1 - 1 = 0
    OBVIOUS
  <2>3. x \in Plain(1 - 1) /\ y \in Plain(1 - 1)
    BY <1>1, <1>2, <2>2
  <2> QED BY <1>3, <2>1, <2>3, TwoObject, DepthIs
<1>5. RefOf(Meaning[o]) = [family |-> family, id |-> id]
  BY <1>1, <1>2, <1>4 DEF RefOf
<1> QED BY <1>4, <1>5 DEF o

(* An axis is read as its kind and extent.                                 *)
LEMMA AxisRight ==
  \A axis \in Axis :
    LET o == AxisToJson(axis)
    IN  /\ o \in Plain(1) /\ WordOf(MemberOf(Meaning[o], "kind")) = axis.kind
        /\ Integer64Of(MemberOf(Meaning[o], "extent")) = axis.extent
<1> TAKE axis \in Axis
<1> DEFINE x == Token(axis.kind)
           y == Integer64ToJson(axis.extent)
           o == AxisToJson(axis)
<1>0. axis.kind \in Vocabulary /\ axis.extent \in 0 .. MaxInteger
  BY VocabularyHas, IdsAre DEF Axis
<1>1. x \in Plain(0) /\ WordOf(Meaning[x]) = axis.kind
  BY <1>0, TokenRight, DepthIs
<1>2. y \in Plain(0) /\ Integer64Of(Meaning[y]) = axis.extent
  BY <1>0, IntegerRight, DepthIs
<1>3. o = Object(<<Member("kind", x), Member("extent", y)>>)
  BY DEF AxisToJson
<1> HIDE DEF x, y, o
<1>4. o \in Plain(1) /\ MemberOf(Meaning[o], "kind") = Meaning[x] /\ MemberOf(Meaning[o], "extent") = Meaning[y]
  <2>1. "kind" \in Vocabulary /\ "extent" \in Vocabulary /\ "kind" # "extent"
    BY VocabularyHas
  <2>2. 1 - 1 = 0
    OBVIOUS
  <2>3. x \in Plain(1 - 1) /\ y \in Plain(1 - 1)
    BY <1>1, <1>2, <2>2
  <2> QED BY <1>3, <2>1, <2>3, TwoObject, DepthIs
<1> QED BY <1>1, <1>2, <1>4 DEF o

(* A listing of plain items, seen by a reader.                             *)
LEMMA DataObjectRight ==
  \A e : axes[e.serial] \in Seq(Axis) =>
    LET o == DataObjectToJson(e)
    IN  o \in Plain(3) /\ AxesOf(Meaning[o]) = axes[e.serial]
<1> SUFFICES ASSUME NEW e, axes[e.serial] \in Seq(Axis)
             PROVE  LET o == DataObjectToJson(e)
                    IN  o \in Plain(3) /\ AxesOf(Meaning[o]) = axes[e.serial]
  OBVIOUS
<1> DEFINE list == axes[e.serial]
           items == [i \in DOMAIN list |-> AxisToJson(list[i])]
           a == Array(items)
           o == DataObjectToJson(e)
<1>1. list \in Seq(Axis) /\ DOMAIN list = 1 .. Len(list) /\ Len(list) \in Nat
  OBVIOUS
<1>2. o = Object(<<Member("axes", a)>>)
  BY DEF DataObjectToJson, Listing
<1> HIDE DEF list, o
<1>3. \A i \in 1 .. Len(list) : list[i] \in Axis
  BY <1>1
<1>4. \A i \in 1 .. Len(list) : AxisToJson(list[i]) \in Plain(1)
  BY <1>3, AxisRight
<1>5. items \in Seq(Plain(1)) /\ Len(items) = Len(list) /\ \A i \in 1 .. Len(list) : items[i] = AxisToJson(list[i])
  BY <1>1, <1>4
<1> HIDE DEF items
<1>6. a \in Plain(2) /\ Meaning[a][2] = [i \in 1 .. Len(list) |-> Meaning[items[i]]]
  <2>1. 2 - 1 = 1
    OBVIOUS
  <2>2. items \in Seq(Plain(2 - 1))
    BY <1>5, <2>1
  <2>3. Array(items) \in Plain(2) /\ Meaning[Array(items)][2] = [i \in 1 .. Len(items) |-> Meaning[items[i]]]
    BY <2>2, ArrayRight, DepthIs
  <2> QED BY <1>5, <2>3
<1> HIDE DEF a
<1>7. o \in Plain(3) /\ MemberOf(Meaning[o], "axes") = Meaning[a]
  <2>1. 3 - 1 = 2
    OBVIOUS
  <2>2. a \in Plain(3 - 1) /\ "axes" \in Vocabulary
    BY <1>6, <2>1, VocabularyHas
  <2> QED BY <1>2, <2>2, OneObject, DepthIs
<1> DEFINE found == ItemsOf(Meaning[o], "axes")
<1>8. found = [i \in 1 .. Len(list) |-> Meaning[items[i]]]
  BY <1>6, <1>7 DEF ItemsOf
<1> HIDE DEF found
<1>9. AxesOf(Meaning[o]) = [i \in DOMAIN found |->
        [kind |-> WordOf(MemberOf(found[i], "kind")), extent |-> Integer64Of(MemberOf(found[i], "extent"))]]
  BY Zenon DEF AxesOf, found
<1>10. DOMAIN found = 1 .. Len(list) /\ \A i \in 1 .. Len(list) : found[i] = Meaning[AxisToJson(list[i])]
  BY <1>5, <1>8
<1>11. \A i \in 1 .. Len(list) :
         [kind |-> WordOf(MemberOf(found[i], "kind")), extent |-> Integer64Of(MemberOf(found[i], "extent"))] = list[i]
  <2> TAKE i \in 1 .. Len(list)
  <2>1. /\ WordOf(MemberOf(found[i], "kind")) = list[i].kind
        /\ Integer64Of(MemberOf(found[i], "extent")) = list[i].extent
    BY <1>3, <1>10, AxisRight
  <2>2. list[i] = [kind |-> list[i].kind, extent |-> list[i].extent]
    BY <1>3 DEF Axis
  <2> QED BY <2>1, <2>2
<1>12. AxesOf(Meaning[o]) = list
  <2> DEFINE f(i) == [kind |-> WordOf(MemberOf(found[i], "kind")), extent |-> Integer64Of(MemberOf(found[i], "extent"))]
  <2>1. AxesOf(Meaning[o]) = [i \in 1 .. Len(list) |-> f(i)]
    BY <1>9, <1>10
  <2>2. \A i \in 1 .. Len(list) : f(i) = list[i]
    BY <1>11
  <2> HIDE DEF f
  <2> QED BY <1>1, <2>1, <2>2
<1> QED BY <1>7, <1>12 DEF list, o

(* What is plain at a small depth is so at a greater one.                  *)
LEMMA PlainUp == Plain(1) \subseteq Plain(4) /\ Plain(2) \subseteq Plain(4) /\ Plain(3) \subseteq Plain(4)
                 /\ Plain(1) \subseteq Plain(2) /\ Plain(0) \subseteq Plain(1)
<1>1. 1 - 1 = 0 /\ 2 - 1 = 1 /\ 3 - 1 = 2 /\ 4 - 1 = 3
  OBVIOUS
<1>2. Plain(1 - 1) \subseteq Plain(1) /\ Plain(2 - 1) \subseteq Plain(2) /\ Plain(3 - 1) \subseteq Plain(3)
      /\ Plain(4 - 1) \subseteq Plain(4)
  BY PlainGrows, DepthIs
<1> QED BY <1>1, <1>2

(* A relationship is read as its ends and kind.                            *)
LEMMA RelationshipRight ==
  \A r \in Relationship :
    LET o == RelationshipToJson(r)
    IN  /\ o \in Plain(2)
        /\ RefOf(MemberOf(Meaning[o], "source")) = r.source
        /\ WordOf(MemberOf(Meaning[o], "kind")) = r.kind
        /\ RefOf(MemberOf(Meaning[o], "target")) = r.target
<1> TAKE r \in Relationship
<1> DEFINE x == RefToJson(r.source.family, r.source.id)
           y == Token(r.kind)
           z == RefToJson(r.target.family, r.target.id)
           o == RelationshipToJson(r)
<1>0. /\ r.source \in Ref /\ r.target \in Ref /\ r.kind \in {"produces", "derived_from"}
      /\ r.source = [family |-> r.source.family, id |-> r.source.id]
      /\ r.target = [family |-> r.target.family, id |-> r.target.id]
      /\ r.source.family \in Semantic /\ r.target.family \in Semantic
      /\ r.source.id \in Ids /\ r.target.id \in Ids
  BY DEF Relationship, Ref
<1>1. x \in Plain(1) /\ RefOf(Meaning[x]) = r.source
  BY <1>0, RefRight
<1>2. z \in Plain(1) /\ RefOf(Meaning[z]) = r.target
  BY <1>0, RefRight
<1>3. y \in Plain(1) /\ WordOf(Meaning[y]) = r.kind
  <2>1. r.kind \in Vocabulary
    BY <1>0, VocabularyHas
  <2> QED BY <2>1, TokenRight, DepthIs
<1>4. o = Object(<<Member("source", x), Member("kind", y), Member("target", z)>>)
  BY DEF RelationshipToJson
<1> HIDE DEF x, y, z, o
<1>5. /\ o \in Plain(2)
      /\ MemberOf(Meaning[o], "source") = Meaning[x] /\ MemberOf(Meaning[o], "kind") = Meaning[y]
      /\ MemberOf(Meaning[o], "target") = Meaning[z]
  <2>1. /\ "source" \in Vocabulary /\ "kind" \in Vocabulary /\ "target" \in Vocabulary
        /\ "source" # "kind" /\ "source" # "target" /\ "kind" # "target"
    BY VocabularyHas
  <2>2. 2 - 1 = 1
    OBVIOUS
  <2>3. x \in Plain(2 - 1) /\ y \in Plain(2 - 1) /\ z \in Plain(2 - 1)
    BY <1>1, <1>2, <1>3, <2>2
  <2> QED BY <1>4, <2>1, <2>3, ThreeObject, DepthIs
<1> QED BY <1>1, <1>2, <1>3, <1>5 DEF o

(* A provenance relation is read as its process, kind and entity.          *)
LEMMA ProvenanceRight ==
  \A r \in ProvenanceRelation :
    LET o == ProvenanceToJson(r)
    IN  /\ o \in Plain(2)
        /\ RefOf(MemberOf(Meaning[o], "process")) = [family |-> "process_record", id |-> r.process]
        /\ WordOf(MemberOf(Meaning[o], "kind")) = r.kind
        /\ RefOf(MemberOf(Meaning[o], "entity")) = r.entity
<1> TAKE r \in ProvenanceRelation
<1> DEFINE x == RefToJson("process_record", r.process)
           y == Token(r.kind)
           z == RefToJson(r.entity.family, r.entity.id)
           o == ProvenanceToJson(r)
<1>0. /\ r.process \in Ids /\ r.entity \in Ref /\ r.kind \in {"used", "generated"}
      /\ r.entity = [family |-> r.entity.family, id |-> r.entity.id]
      /\ r.entity.family \in Semantic /\ r.entity.id \in Ids
  BY DEF ProvenanceRelation, Ref
<1>1. x \in Plain(1) /\ RefOf(Meaning[x]) = [family |-> "process_record", id |-> r.process]
  BY <1>0, RefRight
<1>2. z \in Plain(1) /\ RefOf(Meaning[z]) = r.entity
  BY <1>0, RefRight
<1>3. y \in Plain(1) /\ WordOf(Meaning[y]) = r.kind
  <2>1. r.kind \in Vocabulary
    BY <1>0, VocabularyHas
  <2> QED BY <2>1, TokenRight, DepthIs
<1>4. o = Object(<<Member("process", x), Member("kind", y), Member("entity", z)>>)
  BY DEF ProvenanceToJson
<1> HIDE DEF x, y, z, o
<1>5. /\ o \in Plain(2)
      /\ MemberOf(Meaning[o], "process") = Meaning[x] /\ MemberOf(Meaning[o], "kind") = Meaning[y]
      /\ MemberOf(Meaning[o], "entity") = Meaning[z]
  <2>1. /\ "process" \in Vocabulary /\ "kind" \in Vocabulary /\ "entity" \in Vocabulary
        /\ "process" # "kind" /\ "process" # "entity" /\ "kind" # "entity"
    BY VocabularyHas
  <2>2. 2 - 1 = 1
    OBVIOUS
  <2>3. x \in Plain(2 - 1) /\ y \in Plain(2 - 1) /\ z \in Plain(2 - 1)
    BY <1>1, <1>2, <1>3, <2>2
  <2> QED BY <1>4, <2>1, <2>3, ThreeObject, DepthIs
<1> QED BY <1>1, <1>2, <1>3, <1>5 DEF o

(* The items of a listing of plain values, and how many there are.         *)
LEMMA ListRight ==
  \A d \in 1 .. MaxDepth : \A items \in Seq(Plain(d - 1)) :
    /\ Array(items) \in Plain(d)
    /\ Len(Meaning[Array(items)][2]) = Len(items) /\ DOMAIN Meaning[Array(items)][2] = 1 .. Len(items)
    /\ \A i \in 1 .. Len(items) : Meaning[Array(items)][2][i] = Meaning[items[i]]
<1> TAKE d \in 1 .. MaxDepth
<1> TAKE items \in Seq(Plain(d - 1))
<1> DEFINE a == Meaning[Array(items)][2]
<1>1. Array(items) \in Plain(d) /\ a = [i \in 1 .. Len(items) |-> Meaning[items[i]]]
  BY ArrayRight
<1>2. Len(items) \in Nat
  OBVIOUS
<1> HIDE DEF a
<1>3. Len(a) = Len(items) /\ DOMAIN a = 1 .. Len(items) /\ \A i \in 1 .. Len(items) : a[i] = Meaning[items[i]]
  BY <1>1, <1>2
<1> QED BY <1>1, <1>3 DEF a

(* A family that a manifest only counts is read as its count.              *)
LEMMA MarkersRight ==
  \A family \in Families : stored[family] \in Seq(Entity) =>
    /\ Array(Markers(family)) \in Plain(4)
    /\ Len(Meaning[Array(Markers(family))][2]) = Len(stored[family])
<1> SUFFICES ASSUME NEW family \in Families, stored[family] \in Seq(Entity)
             PROVE  /\ Array(Markers(family)) \in Plain(4)
                    /\ Len(Meaning[Array(Markers(family))][2]) = Len(stored[family])
  OBVIOUS
<1> DEFINE items == Markers(family)
           empty == Object(<< >>)
           n == Len(stored[family])
<1>1. empty \in Plain(1)
  <2>1. << >> \in Members(Plain(1 - 1))
    BY NoMembers
  <2> QED BY <2>1, ObjectRight, DepthIs
<1>2. n \in Nat /\ DOMAIN stored[family] = 1 .. n
  OBVIOUS
<1>3. items = [i \in 1 .. n |-> empty]
  BY <1>2 DEF Markers
<1> HIDE DEF items, empty, n
<1>4. items \in Seq(Plain(1)) /\ Len(items) = n
  BY <1>1, <1>2, <1>3
<1>5. 2 - 1 = 1
  OBVIOUS
<1>6. Array(items) \in Plain(2) /\ Len(Meaning[Array(items)][2]) = n
  <2>1. items \in Seq(Plain(2 - 1))
    BY <1>4, <1>5
  <2> QED BY <1>4, <2>1, ListRight, DepthIs
<1> QED BY <1>6, PlainUp DEF items, n

(* The whole of it.                                                        *)
SevenMembers(a, b, c, d, e, f, g) ==
  <<Member("metadata", a), Member("observations", b), Member("data_objects", c), Member("products", d),
    Member("process_records", e), Member("relationships", f), Member("provenance_relations", g)>>

(* What a reader finds in an object of these members.                      *)
SevenFound(o, a, b, c, d, e, f, g) ==
  /\ MemberOf(Meaning[o], "metadata") = Meaning[a] /\ MemberOf(Meaning[o], "observations") = Meaning[b]
  /\ MemberOf(Meaning[o], "data_objects") = Meaning[c] /\ MemberOf(Meaning[o], "products") = Meaning[d]
  /\ MemberOf(Meaning[o], "process_records") = Meaning[e]
  /\ MemberOf(Meaning[o], "relationships") = Meaning[f]
  /\ MemberOf(Meaning[o], "provenance_relations") = Meaning[g]

(* An object of the seven members of a manifest, and what a reader finds   *)
(* in it.                                                                  *)
LEMMA SevenObject ==
  \A a, b, c, d, e, f, g \in Plain(4) :
    /\ Object(SevenMembers(a, b, c, d, e, f, g)) \in Plain(5)
    /\ SevenFound(Object(SevenMembers(a, b, c, d, e, f, g)), a, b, c, d, e, f, g)
<1> TAKE a, b, c, d, e, f, g \in Plain(4)
<1> DEFINE V == Plain(4)
           names == <<"metadata", "observations", "data_objects", "products", "process_records",
                      "relationships", "provenance_relations">>
           values == <<a, b, c, d, e, f, g>>
           ms == SevenMembers(a, b, c, d, e, f, g)
<1>0. \A i \in 1 .. 7 : values[i] \in V
  OBVIOUS
<1>1. (\A i \in 1 .. 7 : names[i] \in Vocabulary) /\ \A i, j \in 1 .. 7 : names[i] = names[j] => i = j
  <2>1. \A i \in 1 .. 7 : names[i] \in Vocabulary
    BY VocabularyHas
  <2>2. \A i, j \in 1 .. 7 : names[i] = names[j] => i = j
    OBVIOUS
  <2> QED BY <2>1, <2>2
<1>2. ms = [i \in 1 .. 7 |-> Member(names[i], values[i])]
  BY DEF SevenMembers
<1> HIDE DEF names, values, ms, V
<1>3. \A i \in 1 .. 7 : /\ ms[i] \in Text \X V /\ ms[i][1] = Word(names[i]) /\ ms[i][2] = values[i]
  BY <1>0, <1>1, <1>2, WordsAre, MemberHas DEF MemberIs
<1>4. ms \in Seq(Text \X V) /\ Len(ms) = 7 /\ DOMAIN ms = 1 .. 7
  BY <1>2, <1>3
<1>5. ms \in Members(V)
  <2>1. \A i, j \in 1 .. 7 : ms[i][1] = ms[j][1] => i = j
    BY <1>1, <1>3, WordsAre
  <2> QED BY <1>4, <2>1 DEF Members
<1>6. Object(ms) \in Plain(5) /\ ObjectFinds(ms)
  <2>1. 5 - 1 = 4
    OBVIOUS
  <2>2. ms \in Members(Plain(5 - 1))
    BY <1>5, <2>1 DEF V
  <2> QED BY <2>2, ObjectRight, DepthIs
<1>7. \A i \in 1 .. 7 : MemberOf(Meaning[Object(ms)], names[i]) = Meaning[values[i]]
  <2> TAKE i \in 1 .. 7
  <2>1. ms[i][1] = Word(names[i]) /\ i \in 1 .. Len(ms) /\ ms[i][2] = values[i]
    BY <1>3, <1>4
  <2> QED BY <1>6, <2>1, Zenon DEF ObjectFinds
<1> DEFINE M == Meaning[Object(ms)]
<1> HIDE DEF M
<1>8. \A i \in 1 .. 7 : MemberOf(M, names[i]) = Meaning[values[i]]
  BY <1>7 DEF M
<1>9. /\ MemberOf(M, names[1]) = Meaning[values[1]] /\ MemberOf(M, names[2]) = Meaning[values[2]]
      /\ MemberOf(M, names[3]) = Meaning[values[3]] /\ MemberOf(M, names[4]) = Meaning[values[4]]
      /\ MemberOf(M, names[5]) = Meaning[values[5]] /\ MemberOf(M, names[6]) = Meaning[values[6]]
      /\ MemberOf(M, names[7]) = Meaning[values[7]]
  BY <1>8
<1>10. /\ names[1] = "metadata" /\ names[2] = "observations" /\ names[3] = "data_objects"
       /\ names[4] = "products" /\ names[5] = "process_records" /\ names[6] = "relationships"
       /\ names[7] = "provenance_relations"
       /\ values[1] = a /\ values[2] = b /\ values[3] = c /\ values[4] = d /\ values[5] = e
       /\ values[6] = f /\ values[7] = g
  BY DEF names, values
<1>11. /\ MemberOf(M, "metadata") = Meaning[a] /\ MemberOf(M, "observations") = Meaning[b]
       /\ MemberOf(M, "data_objects") = Meaning[c] /\ MemberOf(M, "products") = Meaning[d]
       /\ MemberOf(M, "process_records") = Meaning[e]
       /\ MemberOf(M, "relationships") = Meaning[f]
       /\ MemberOf(M, "provenance_relations") = Meaning[g]
  BY <1>9, <1>10
<1> QED BY <1>6, <1>11 DEF M, ms, SevenFound

(* The data objects of the scene have axes, and axes are in range.         *)
Serials ==
  \A i \in DOMAIN stored["data_object"] : stored["data_object"][i].serial \in 0 .. MaxAdded - 1

(* Every data object has a list of axes.                                   *)
AxesTyped == axes \in [0 .. MaxAdded - 1 -> Seq(Axis)]

(* The data objects are read as their axes, in order.                      *)
LEMMA DataObjectsRight ==
  ASSUME stored["data_object"] \in Seq(Entity), Serials, AxesTyped
  PROVE  LET items == [i \in DOMAIN stored["data_object"] |-> DataObjectToJson(stored["data_object"][i])]
             found == Meaning[Array(items)][2]
         IN  /\ Array(items) \in Plain(4)
             /\ [i \in DOMAIN found |-> AxesOf(found[i])]
                  = [i \in DOMAIN stored["data_object"] |-> axes[stored["data_object"][i].serial]]
<1> DEFINE s == stored["data_object"]
           items == [i \in DOMAIN s |-> DataObjectToJson(s[i])]
           found == Meaning[Array(items)][2]
           n == Len(s)
<1>1. n \in Nat /\ DOMAIN s = 1 .. n
  OBVIOUS
<1>2. \A i \in 1 .. n : axes[s[i].serial] \in Seq(Axis)
  BY <1>1 DEF Serials, AxesTyped
<1> HIDE DEF s, n
<1>3. \A i \in 1 .. n : DataObjectToJson(s[i]) \in Plain(3) /\ AxesOf(Meaning[DataObjectToJson(s[i])]) = axes[s[i].serial]
  BY <1>2, DataObjectRight
<1>4. items \in Seq(Plain(3)) /\ Len(items) = n /\ \A i \in 1 .. n : items[i] = DataObjectToJson(s[i])
  BY <1>1, <1>3
<1> HIDE DEF items
<1>5. /\ Array(items) \in Plain(4) /\ DOMAIN found = 1 .. n
      /\ \A i \in 1 .. n : found[i] = Meaning[items[i]]
  <2>1. 4 - 1 = 3
    OBVIOUS
  <2>2. items \in Seq(Plain(4 - 1))
    BY <1>4, <2>1
  <2> QED BY <1>4, <2>2, ListRight, DepthIs
<1> HIDE DEF found
<1>6. \A i \in 1 .. n : AxesOf(found[i]) = axes[s[i].serial]
  BY <1>3, <1>4, <1>5
<1>7. [i \in DOMAIN found |-> AxesOf(found[i])] = [i \in DOMAIN s |-> axes[s[i].serial]]
  BY <1>1, <1>5, <1>6
<1> QED BY <1>5, <1>7 DEF found, items, s

(* The relationships are read in order.                                    *)
LEMMA RelationshipsRight ==
  ASSUME relationships \in Seq(Relationship)
  PROVE  LET items == [i \in DOMAIN relationships |-> RelationshipToJson(relationships[i])]
             found == Meaning[Array(items)][2]
         IN  /\ Array(items) \in Plain(4)
             /\ [i \in DOMAIN found |->
                   <<RefOf(MemberOf(found[i], "source")), WordOf(MemberOf(found[i], "kind")),
                     RefOf(MemberOf(found[i], "target"))>>]
                  = [i \in DOMAIN relationships |->
                       <<relationships[i].source, relationships[i].kind, relationships[i].target>>]
<1> DEFINE s == relationships
           items == [i \in DOMAIN s |-> RelationshipToJson(s[i])]
           found == Meaning[Array(items)][2]
           n == Len(s)
           f(x) == <<RefOf(MemberOf(x, "source")), WordOf(MemberOf(x, "kind")), RefOf(MemberOf(x, "target"))>>
           g(r) == <<r.source, r.kind, r.target>>
<1>1. n \in Nat /\ DOMAIN s = 1 .. n /\ \A i \in 1 .. n : s[i] \in Relationship
  OBVIOUS
<1> HIDE DEF s, n
<1>2. \A i \in 1 .. n : RelationshipToJson(s[i]) \in Plain(2) /\ f(Meaning[RelationshipToJson(s[i])]) = g(s[i])
  BY <1>1, RelationshipRight
<1> HIDE DEF f, g
<1>4. items \in Seq(Plain(2)) /\ Len(items) = n /\ \A i \in 1 .. n : items[i] = RelationshipToJson(s[i])
  BY <1>1, <1>2
<1> HIDE DEF items
<1>5. /\ Array(items) \in Plain(3) /\ DOMAIN found = 1 .. n
      /\ \A i \in 1 .. n : found[i] = Meaning[items[i]]
  <2>1. 3 - 1 = 2
    OBVIOUS
  <2>2. items \in Seq(Plain(3 - 1))
    BY <1>4, <2>1
  <2> QED BY <1>4, <2>2, ListRight, DepthIs
<1> HIDE DEF found
<1>6. \A i \in 1 .. n : f(found[i]) = g(s[i])
  BY <1>2, <1>4, <1>5
<1>7. [i \in DOMAIN found |-> f(found[i])] = [i \in DOMAIN s |-> g(s[i])]
  BY <1>1, <1>5, <1>6
<1>8. Array(items) \in Plain(4)
  BY <1>5, PlainUp
<1> QED BY <1>7, <1>8, Zenon DEF found, items, s, f, g

(* The provenance relations are read in order.                             *)
LEMMA ProvenancesRight ==
  ASSUME provenance_relations \in Seq(ProvenanceRelation)
  PROVE  LET items == [i \in DOMAIN provenance_relations |-> ProvenanceToJson(provenance_relations[i])]
             found == Meaning[Array(items)][2]
         IN  /\ Array(items) \in Plain(4)
             /\ [i \in DOMAIN found |->
                   <<RefOf(MemberOf(found[i], "process")), WordOf(MemberOf(found[i], "kind")),
                     RefOf(MemberOf(found[i], "entity"))>>]
                  = [i \in DOMAIN provenance_relations |->
                       <<[family |-> "process_record", id |-> provenance_relations[i].process],
                         provenance_relations[i].kind, provenance_relations[i].entity>>]
<1> DEFINE s == provenance_relations
           items == [i \in DOMAIN s |-> ProvenanceToJson(s[i])]
           found == Meaning[Array(items)][2]
           n == Len(s)
           f(x) == <<RefOf(MemberOf(x, "process")), WordOf(MemberOf(x, "kind")), RefOf(MemberOf(x, "entity"))>>
           g(r) == <<[family |-> "process_record", id |-> r.process], r.kind, r.entity>>
<1>1. n \in Nat /\ DOMAIN s = 1 .. n /\ \A i \in 1 .. n : s[i] \in ProvenanceRelation
  OBVIOUS
<1> HIDE DEF s, n
<1>2. \A i \in 1 .. n : ProvenanceToJson(s[i]) \in Plain(2) /\ f(Meaning[ProvenanceToJson(s[i])]) = g(s[i])
  BY <1>1, ProvenanceRight
<1> HIDE DEF f, g
<1>4. items \in Seq(Plain(2)) /\ Len(items) = n /\ \A i \in 1 .. n : items[i] = ProvenanceToJson(s[i])
  BY <1>1, <1>2
<1> HIDE DEF items
<1>5. /\ Array(items) \in Plain(3) /\ DOMAIN found = 1 .. n
      /\ \A i \in 1 .. n : found[i] = Meaning[items[i]]
  <2>1. 3 - 1 = 2
    OBVIOUS
  <2>2. items \in Seq(Plain(3 - 1))
    BY <1>4, <2>1
  <2> QED BY <1>4, <2>2, ListRight, DepthIs
<1> HIDE DEF found
<1>6. \A i \in 1 .. n : f(found[i]) = g(s[i])
  BY <1>2, <1>4, <1>5
<1>7. [i \in DOMAIN found |-> f(found[i])] = [i \in DOMAIN s |-> g(s[i])]
  BY <1>1, <1>5, <1>6
<1>8. Array(items) \in Plain(4)
  BY <1>5, PlainUp
<1> QED BY <1>7, <1>8, Zenon DEF found, items, s, f, g

(* The manifest is a value without numbers that are not finite, and what   *)
(* a reader makes of it is the graph of the scene.                         *)
LEMMA ManifestRight ==
  ASSUME TypeOK, Serials, AxesTyped, NEW version \in Versions
  PROVE  /\ ManifestToJson(version) \in Plain(5)
         /\ GraphOf(Meaning[ManifestToJson(version)]) = SceneGraph(version)
<1> DEFINE number == Integer64ToJson(version)
           metadata == Object(<<Member("version", number)>>)
           observations == Array(Markers("observation"))
           dataObjects == Array([i \in DOMAIN stored["data_object"] |-> DataObjectToJson(stored["data_object"][i])])
           products == Array(Markers("product"))
           processes == Array(Markers("process_record"))
           linked == Array([i \in DOMAIN relationships |-> RelationshipToJson(relationships[i])])
           related == Array([i \in DOMAIN provenance_relations |-> ProvenanceToJson(provenance_relations[i])])
           o == ManifestToJson(version)
           objects == Meaning[dataObjects][2]
           links == Meaning[linked][2]
           relations == Meaning[related][2]
<1>0. /\ \A family \in Families : stored[family] \in Seq(Entity)
      /\ relationships \in Seq(Relationship) /\ provenance_relations \in Seq(ProvenanceRelation)
      /\ {"observation", "data_object", "product", "process_record"} \subseteq Families
  BY DEF TypeOK, Families, Semantic
<1>1. o = Object(SevenMembers(metadata, observations, dataObjects, products, processes, linked, related))
  BY DEF ManifestToJson, SevenMembers, Listing
<1>2. metadata \in Plain(4) /\ Integer64Of(MemberOf(Meaning[metadata], "version")) = version
  <2>1. number \in Plain(0) /\ Integer64Of(Meaning[number]) = version
    BY IdsAre, IntegerRight, DepthIs
  <2> HIDE DEF number
  <2>2. 1 - 1 = 0 /\ "version" \in Vocabulary
    BY VocabularyHas
  <2>3. metadata \in Plain(1) /\ MemberOf(Meaning[metadata], "version") = Meaning[number]
    <3>1. number \in Plain(1 - 1)
      BY <2>1, <2>2
    <3> QED BY <2>2, <3>1, OneObject, DepthIs
  <2> QED BY <2>1, <2>3, PlainUp
<1>3. /\ observations \in Plain(4) /\ Len(Meaning[observations][2]) = Len(stored["observation"])
      /\ products \in Plain(4) /\ Len(Meaning[products][2]) = Len(stored["product"])
      /\ processes \in Plain(4) /\ Len(Meaning[processes][2]) = Len(stored["process_record"])
  BY <1>0, MarkersRight
<1>4. /\ dataObjects \in Plain(4)
      /\ [i \in DOMAIN objects |-> AxesOf(objects[i])]
           = [i \in DOMAIN stored["data_object"] |-> axes[stored["data_object"][i].serial]]
  BY <1>0, DataObjectsRight
<1>5. /\ linked \in Plain(4)
      /\ [i \in DOMAIN links |->
            <<RefOf(MemberOf(links[i], "source")), WordOf(MemberOf(links[i], "kind")),
              RefOf(MemberOf(links[i], "target"))>>]
           = [i \in DOMAIN relationships |->
                <<relationships[i].source, relationships[i].kind, relationships[i].target>>]
  BY <1>0, RelationshipsRight, Zenon
<1>6. /\ related \in Plain(4)
      /\ [i \in DOMAIN relations |->
            <<RefOf(MemberOf(relations[i], "process")), WordOf(MemberOf(relations[i], "kind")),
              RefOf(MemberOf(relations[i], "entity"))>>]
           = [i \in DOMAIN provenance_relations |->
                <<[family |-> "process_record", id |-> provenance_relations[i].process],
                  provenance_relations[i].kind, provenance_relations[i].entity>>]
  BY <1>0, ProvenancesRight, Zenon
<1> HIDE DEF metadata, observations, dataObjects, products, processes, linked, related, o
<1>7. /\ o \in Plain(5)
      /\ MemberOf(Meaning[o], "metadata") = Meaning[metadata] /\ MemberOf(Meaning[o], "observations") = Meaning[observations]
      /\ MemberOf(Meaning[o], "data_objects") = Meaning[dataObjects] /\ MemberOf(Meaning[o], "products") = Meaning[products]
      /\ MemberOf(Meaning[o], "process_records") = Meaning[processes]
      /\ MemberOf(Meaning[o], "relationships") = Meaning[linked]
      /\ MemberOf(Meaning[o], "provenance_relations") = Meaning[related]
  <2>1. metadata \in Plain(4) /\ observations \in Plain(4) /\ dataObjects \in Plain(4) /\ products \in Plain(4)
    BY <1>2, <1>3, <1>4, Zenon
  <2>2. processes \in Plain(4) /\ linked \in Plain(4) /\ related \in Plain(4)
    BY <1>3, <1>5, <1>6, Zenon
  <2>3. o \in Plain(5) /\ SevenFound(o, metadata, observations, dataObjects, products, processes, linked, related)
    BY <1>1, <2>1, <2>2, SevenObject, Zenon
  <2> QED BY <2>3 DEF SevenFound
<1> DEFINE M == Meaning[o]
<1> HIDE DEF M
<1>8. /\ ItemsOf(M, "relationships") = links /\ ItemsOf(M, "provenance_relations") = relations
      /\ ItemsOf(M, "data_objects") = objects
      /\ Integer64Of(MemberOf(MemberOf(M, "metadata"), "version")) = version
      /\ Len(ItemsOf(M, "observations")) = Len(stored["observation"])
      /\ Len(ItemsOf(M, "products")) = Len(stored["product"])
      /\ Len(ItemsOf(M, "process_records")) = Len(stored["process_record"])
  BY <1>2, <1>3, <1>7 DEF ItemsOf, M
<1> HIDE DEF links, relations, objects
<1> DEFINE A == [i \in DOMAIN objects |-> AxesOf(objects[i])]
           B == [i \in DOMAIN links |->
            <<RefOf(MemberOf(links[i], "source")), WordOf(MemberOf(links[i], "kind")),
              RefOf(MemberOf(links[i], "target"))>>]
           C == [i \in DOMAIN relations |->
            <<RefOf(MemberOf(relations[i], "process")), WordOf(MemberOf(relations[i], "kind")),
              RefOf(MemberOf(relations[i], "entity"))>>]
<1>9. GraphOf(M) = [version |-> version, observations |-> Len(stored["observation"]),
                    data_objects |-> A, products |-> Len(stored["product"]),
                    process_records |-> Len(stored["process_record"]),
                    relationships |-> B, provenance_relations |-> C]
  <2>1. GraphOf(M) =
         [version |-> Integer64Of(MemberOf(MemberOf(M, "metadata"), "version")),
          observations |-> Len(ItemsOf(M, "observations")),
          data_objects |-> [i \in DOMAIN ItemsOf(M, "data_objects") |-> AxesOf(ItemsOf(M, "data_objects")[i])],
          products |-> Len(ItemsOf(M, "products")),
          process_records |-> Len(ItemsOf(M, "process_records")),
          relationships |->
            [i \in DOMAIN ItemsOf(M, "relationships") |->
               <<RefOf(MemberOf(ItemsOf(M, "relationships")[i], "source")),
                 WordOf(MemberOf(ItemsOf(M, "relationships")[i], "kind")),
                 RefOf(MemberOf(ItemsOf(M, "relationships")[i], "target"))>>],
          provenance_relations |->
            [i \in DOMAIN ItemsOf(M, "provenance_relations") |->
               <<RefOf(MemberOf(ItemsOf(M, "provenance_relations")[i], "process")),
                 WordOf(MemberOf(ItemsOf(M, "provenance_relations")[i], "kind")),
                 RefOf(MemberOf(ItemsOf(M, "provenance_relations")[i], "entity"))>>]]
    BY Zenon DEF GraphOf
  <2> QED BY <1>8, <2>1, Zenon
<1>10. SceneGraph(version) = [version |-> version, observations |-> Len(stored["observation"]),
                    data_objects |-> [i \in DOMAIN stored["data_object"] |-> axes[stored["data_object"][i].serial]],
                    products |-> Len(stored["product"]),
                    process_records |-> Len(stored["process_record"]),
                    relationships |-> [i \in DOMAIN relationships |->
                      <<relationships[i].source, relationships[i].kind, relationships[i].target>>],
                    provenance_relations |-> [i \in DOMAIN provenance_relations |->
                      <<[family |-> "process_record", id |-> provenance_relations[i].process],
                        provenance_relations[i].kind, provenance_relations[i].entity>>]]
  BY Zenon DEF SceneGraph
<1>11. GraphOf(M) = SceneGraph(version)
  BY <1>4, <1>5, <1>6, <1>9, <1>10, Zenon
<1> QED BY <1>7, <1>11 DEF M, o

------------------------------------------------------------------------------
(* External ids, and the values of a manifest.                             *)

(* An external id is a value without numbers.                              *)
LEMMA ExternalIdPlain == \A x \in ExternalIds : ExternalIdToJson(x) \in Plain(1)
<1> TAKE x \in ExternalIds
<1>1. x.namespace \in Text /\ x.value \in Text /\ x.version \in Text
  BY ManifestAssumption
<1> DEFINE n == String(x.namespace)
           u == String(x.value)
           w == String(x.version)
<1>2. n \in Plain(0) /\ u \in Plain(0) /\ w \in Plain(0)
  BY <1>1, StringPlain, DepthIs
<1>3. ExternalIdToJson(x) =
        Object(<<Member("namespace", n), Member("value", u)>>
                 \o (IF x.version = << >> THEN << >> ELSE <<Member("version", w)>>))
  BY DEF ExternalIdToJson
<1> HIDE DEF n, u, w
<1>4. 1 - 1 = 0 /\ "namespace" \in Vocabulary /\ "value" \in Vocabulary /\ "version" \in Vocabulary
  BY VocabularyHas
<1>5. n \in Plain(1 - 1) /\ u \in Plain(1 - 1) /\ w \in Plain(1 - 1)
  BY <1>2, <1>4
<1> DEFINE k == Member("namespace", n)
           l == Member("value", u)
           m == Member("version", w)
<1>6. Object(<<k, l>>) \in Plain(1)
  BY <1>4, <1>5, TwoObject, DepthIs
<1>7. Object(<<k, l, m>>) \in Plain(1)
  BY <1>4, <1>5, ThreeObject, DepthIs
<1> HIDE DEF k, l, m
<1>8. <<k, l>> \o << >> = <<k, l>> /\ <<k, l>> \o <<m>> = <<k, l, m>>
  <2> DEFINE S == {k, l, m}
             p == <<k, l>>
             q == <<m>>
             r == <<k, l, m>>
  <2>1. /\ p \in Seq(S) /\ q \in Seq(S) /\ r \in Seq(S) /\ Len(p) = 2 /\ Len(q) = 1 /\ Len(r) = 3
        /\ p[1] = k /\ p[2] = l /\ q[1] = m /\ r[1] = k /\ r[2] = l /\ r[3] = m
    OBVIOUS
  <2> HIDE DEF S, p, q, r
  <2>2. p \o << >> = p
    BY <2>1, ConcatEmpty
  <2>3. /\ p \o q \in Seq(S) /\ Len(p \o q) = Len(p) + Len(q)
        /\ \A i \in 1 .. Len(p) : (p \o q)[i] = p[i]
        /\ \A i \in 1 .. Len(q) : (p \o q)[Len(p) + i] = q[i]
    <3>1. p \in Seq(S) /\ q \in Seq(S)
      BY <2>1
    <3> QED BY <3>1, Concat
  <2> DEFINE c == p \o q
  <2> HIDE DEF c
  <2>4. c \in Seq(S) /\ Len(c) = 3 /\ c[1] = k /\ c[2] = l /\ c[3] = m
    <3>1. 2 + 1 = 3 /\ 1 \in 1 .. 2 /\ 2 \in 1 .. 2 /\ 1 \in 1 .. 1
      OBVIOUS
    <3> QED BY <2>1, <2>3, <3>1 DEF c
  <2>5. \A i \in 1 .. Len(c) : c[i] = r[i]
    BY <2>1, <2>4
  <2>6. c = r
    BY <2>1, <2>4, <2>5, SameSequence
  <2> QED BY <2>2, <2>6 DEF c, p, q, r
<1>9. CASE x.version = << >>
  <2>1. ExternalIdToJson(x) = Object(<<k, l>>)
    BY <1>3, <1>8, <1>9 DEF k, l, m
  <2> QED BY <1>6, <2>1
<1>10. CASE x.version # << >>
  <2>1. ExternalIdToJson(x) = Object(<<k, l, m>>)
    BY <1>3, <1>8, <1>10 DEF k, l, m
  <2> QED BY <1>7, <2>1
<1> QED BY <1>9, <1>10

(* A value of any depth is a value.                                        *)
LEMMA ValuesWithin == Values[1] \subseteq Value /\ Values[5] \subseteq Value
BY ValuesIn, DepthIs

------------------------------------------------------------------------------
(* The invariant of the manifest.                                          *)

(* No two axes of a data object are of a kind.                             *)
Distinct(list) == \A i, j \in DOMAIN list : list[i].kind = list[j].kind => i = j

(* The axes that are declared are well formed, in the draft and in the     *)
(* scene.                                                                  *)
Drafts ==
  /\ draft \in Seq(Axis) /\ Distinct(draft)
  /\ AxesTyped /\ \A serial \in 0 .. MaxAdded - 1 : Distinct(axes[serial])
  /\ declared \in 0 .. MaxAxes

(* The document is the text of a value; that of a manifest is of the       *)
(* scene as it is; and only a sample holds what cannot be encoded.         *)
DocumentRight ==
  \/ document = NoDocument
  \/ /\ document.of \in {"manifest", "external_id", "sample"}
     /\ document.value \in Value
     /\ document.text = EncodeValue(document.value)
     /\ document.of = "manifest" =>
          \E version \in Versions :
            document.version = version /\ document.value = ManifestToJson(version)
     /\ document.of # "sample" => ~Holds(WriteCanonical[document.value], NonFiniteNumber)

(* The invariant of the manifest and its scene.                            *)
ManifestInv == Inv /\ LinksCoherent /\ Serials /\ Drafts /\ DocumentRight

(* At first there is nothing.                                              *)
LEMMA InitManifest == ManifestInit => ManifestInv
<1> SUFFICES ASSUME ManifestInit PROVE ManifestInv
  OBVIOUS
<1>1. Init /\ Inv /\ LinksCoherent
  BY InitInv, InitLinks DEF ManifestInit
<1>2. stored["data_object"] = << >>
  BY <1>1 DEF Init, Empty, Families, Semantic
<1>3. Serials
  BY <1>2 DEF Serials
<1>4. draft = << >> /\ axes = [serial \in 0 .. MaxAdded - 1 |-> << >>] /\ declared = 0
  BY DEF ManifestInit
<1>5. Drafts
  BY <1>4, ManifestAssumption DEF Drafts, AxesTyped, Distinct
<1>6. DocumentRight
  BY DEF ManifestInit, DocumentRight
<1> QED BY <1>1, <1>3, <1>5, <1>6 DEF ManifestInv

(* Every step is a step of the scene or leaves it alone.                   *)
LEMMA SceneStep == [ManifestNext]_manifest_vars => [Next]_vars
<1> SUFFICES ASSUME [ManifestNext]_manifest_vars PROVE [Next]_vars
  OBVIOUS
<1>1. "data_object" \in Families \ {"image"}
      /\ \A f \in {"observation", "product", "process_record"} : f \in Families \ {"image"}
  BY DEF Families, Semantic, InModel
<1>2. CASE AddDataObject
  BY <1>1, <1>2, Zenon DEF AddDataObject, Next, AddOther
<1>3. CASE SceneCall
  <2>1. ASSUME NEW f \in {"observation", "product", "process_record"}, Add(f, TRUE)
        PROVE  Next
    BY <1>1, <2>1, Zenon DEF Next, AddOther
  <2> QED BY <1>3, <2>1, Zenon DEF SceneCall, Next
<1>4. CASE \E kind \in AxisKinds, extent \in Extents : AddAxis(kind, extent)
  BY <1>4 DEF AddAxis
<1>5. CASE \E version \in Versions : EncodeManifest(version)
  BY <1>5 DEF EncodeManifest
<1>6. CASE \E x \in ExternalIds : EncodeExternalId(x)
  BY <1>6 DEF EncodeExternalId
<1>7. CASE \E v \in Samples : EncodeSample(v)
  BY <1>7 DEF EncodeSample
<1>8. CASE UNCHANGED manifest_vars
  BY <1>8 DEF manifest_vars
<1> QED BY <1>2, <1>3, <1>4, <1>5, <1>6, <1>7, <1>8 DEF ManifestNext

(* An entity that is added has the next serial.                            *)
LEMMA AddSerials ==
  ASSUME Inv, Serials, NEW f \in Families, Add(f, TRUE)
  PROVE  Serials'
<1> DEFINE e == [serial |-> added, storable |-> TRUE]
<1>1. stored \in [Families -> Seq(Entity)] /\ added \in Nat /\ added < MaxAdded /\ MaxAdded \in Nat
  BY SceneAssumption DEF Inv, TypeOK, Add
<1>2. e \in Entity /\ e.serial \in 0 .. MaxAdded - 1
  BY <1>1 DEF Entity
<1>3. stored' = [stored EXCEPT ![f] = Append(@, e)]
  BY DEF Add
<1> HIDE DEF e
<1>4. "data_object" \in Families
  BY DEF Families, Semantic
<1>5. CASE f # "data_object"
  <2>1. stored'["data_object"] = stored["data_object"]
    BY <1>1, <1>3, <1>4, <1>5
  <2> QED BY <2>1 DEF Serials
<1>6. CASE f = "data_object"
  <2> DEFINE s == stored["data_object"]
  <2>1. s \in Seq(Entity) /\ stored'["data_object"] = Append(s, e)
    BY <1>1, <1>3, <1>4, <1>6
  <2>2. \A i \in DOMAIN s : s[i].serial \in 0 .. MaxAdded - 1
    BY DEF Serials
  <2> HIDE DEF s
  <2>3. \A i \in DOMAIN Append(s, e) : Append(s, e)[i] = e \/ (i \in DOMAIN s /\ Append(s, e)[i] = s[i])
    BY <1>2, <2>1
  <2>4. \A i \in DOMAIN Append(s, e) : Append(s, e)[i].serial \in 0 .. MaxAdded - 1
    BY <1>2, <2>2, <2>3
  <2> QED BY <2>1, <2>4 DEF Serials
<1> QED BY <1>5, <1>6

(* Data objects have the serials they were added with.                     *)
LEMMA SerialsStep == Inv /\ Serials /\ [ManifestNext]_manifest_vars => Serials'
<1> SUFFICES ASSUME Inv, Serials, [ManifestNext]_manifest_vars PROVE Serials'
  OBVIOUS
<1>1. "data_object" \in Families /\ \A f \in {"observation", "product", "process_record"} : f \in Families
  BY DEF Families, Semantic
<1>2. CASE AddDataObject
  BY <1>1, <1>2, AddSerials DEF AddDataObject
<1>3. CASE \E f \in {"observation", "product", "process_record"} : Add(f, TRUE)
  BY <1>1, <1>3, AddSerials
<1>4. CASE SerdeRoundTrip
  <2>1. stored'["data_object"] = << >>
    BY <1>1, <1>4 DEF SerdeRoundTrip, Empty
  <2> QED BY <2>1 DEF Serials
<1>5. CASE UNCHANGED stored
  BY <1>5 DEF Serials
<1>6. CASE SceneCall
  <2>1. CASE \E source, target \in Ref, kind \in {"produces", "derived_from"} :
               AddRelationship(source, kind, target)
    BY <1>5, <2>1 DEF AddRelationship
  <2>2. CASE \E process \in Ids, entity \in Ref, kind \in {"used", "generated"} :
               AddProvenance(process, kind, entity)
    BY <1>5, <2>2 DEF AddProvenance
  <2> QED BY <1>3, <1>4, <1>6, <2>1, <2>2 DEF SceneCall
<1>7. CASE \E kind \in AxisKinds, extent \in Extents : AddAxis(kind, extent)
  BY <1>5, <1>7 DEF AddAxis, vars, content
<1>8. CASE \E version \in Versions : EncodeManifest(version)
  BY <1>5, <1>8 DEF EncodeManifest, vars, content
<1>9. CASE \E x \in ExternalIds : EncodeExternalId(x)
  BY <1>5, <1>9 DEF EncodeExternalId, vars, content
<1>10. CASE \E v \in Samples : EncodeSample(v)
  BY <1>5, <1>10 DEF EncodeSample, vars, content
<1>11. CASE UNCHANGED manifest_vars
  BY <1>5, <1>11 DEF manifest_vars, vars, content
<1> QED BY <1>2, <1>6, <1>7, <1>8, <1>9, <1>10, <1>11 DEF ManifestNext

(* A new axis is of a kind there was none of.                              *)
LEMMA AxisAdded ==
  ASSUME Drafts, NEW kind \in AxisKinds, NEW extent \in Extents, AddAxis(kind, extent)
  PROVE  Drafts'
<1> DEFINE axis == [kind |-> kind, extent |-> extent]
           t == Append(draft, axis)
<1>1. /\ draft \in Seq(Axis) /\ Distinct(draft) /\ AxesTyped
      /\ \A serial \in 0 .. MaxAdded - 1 : Distinct(axes[serial])
      /\ declared \in 0 .. MaxAxes /\ declared < MaxAxes /\ MaxAxes \in Nat
      /\ extent > 0 /\ ~Declared(kind)
      /\ draft' = t /\ declared' = declared + 1 /\ axes' = axes
  BY ManifestAssumption DEF Drafts, AddAxis, Accepts
<1>2. axis \in Axis /\ axis.kind = kind
  BY <1>1 DEF Axis
<1>3. \A i \in DOMAIN draft : draft[i].kind # kind
  BY <1>1 DEF Declared
<1> HIDE DEF axis
<1>4. t \in Seq(Axis) /\ Len(t) = Len(draft) + 1 /\ t[Len(draft) + 1] = axis
      /\ \A i \in DOMAIN draft : t[i] = draft[i]
  BY <1>1, <1>2
<1>5. \A i \in DOMAIN t : i = Len(draft) + 1 \/ i \in DOMAIN draft
  BY <1>1, <1>4
<1>6. Distinct(t)
  BY <1>1, <1>2, <1>3, <1>4, <1>5 DEF Distinct
<1>7. declared' \in 0 .. MaxAxes
  BY <1>1
<1>8. AxesTyped' /\ \A serial \in 0 .. MaxAdded - 1 : Distinct(axes'[serial])
  BY <1>1 DEF AxesTyped
<1> QED BY <1>1, <1>4, <1>6, <1>7, <1>8 DEF Drafts

(* A data object keeps the axes it was built with.                         *)
LEMMA DraftMoved ==
  ASSUME Inv, Drafts, AddDataObject
  PROVE  Drafts'
<1>1. added \in 0 .. MaxAdded - 1
  BY SceneAssumption DEF Inv, TypeOK, AddDataObject, Add
<1>2. /\ draft \in Seq(Axis) /\ Distinct(draft) /\ axes \in [0 .. MaxAdded - 1 -> Seq(Axis)]
      /\ \A serial \in 0 .. MaxAdded - 1 : Distinct(axes[serial])
      /\ axes' = [axes EXCEPT ![added] = draft] /\ draft' = << >>
      /\ declared' = declared /\ declared \in 0 .. MaxAxes
  BY DEF Drafts, AxesTyped, AddDataObject
<1>3. axes' \in [0 .. MaxAdded - 1 -> Seq(Axis)]
  BY <1>1, <1>2
<1>4. \A serial \in 0 .. MaxAdded - 1 : axes'[serial] = draft \/ axes'[serial] = axes[serial]
  BY <1>1, <1>2
<1>5. \A serial \in 0 .. MaxAdded - 1 : Distinct(axes'[serial])
  BY <1>2, <1>4
<1>6. draft' \in Seq(Axis) /\ Distinct(draft')
  BY <1>2 DEF Distinct
<1> QED BY <1>2, <1>3, <1>5, <1>6 DEF Drafts, AxesTyped

(* Axes stay well formed.                                                  *)
LEMMA DraftsStep == Inv /\ Drafts /\ [ManifestNext]_manifest_vars => Drafts'
<1> SUFFICES ASSUME Inv, Drafts, [ManifestNext]_manifest_vars PROVE Drafts'
  OBVIOUS
<1>1. CASE \E kind \in AxisKinds, extent \in Extents : AddAxis(kind, extent)
  BY <1>1, AxisAdded
<1>2. CASE AddDataObject
  BY <1>2, DraftMoved
<1>3. CASE UNCHANGED <<draft, axes, declared>>
  BY <1>3 DEF Drafts, AxesTyped, Distinct
<1>4. CASE SceneCall
  BY <1>3, <1>4 DEF SceneCall
<1>5. CASE \E version \in Versions : EncodeManifest(version)
  BY <1>3, <1>5 DEF EncodeManifest
<1>6. CASE \E x \in ExternalIds : EncodeExternalId(x)
  BY <1>3, <1>6 DEF EncodeExternalId
<1>7. CASE \E v \in Samples : EncodeSample(v)
  BY <1>3, <1>7 DEF EncodeSample
<1>8. CASE UNCHANGED manifest_vars
  BY <1>3, <1>8 DEF manifest_vars
<1> QED BY <1>1, <1>2, <1>4, <1>5, <1>6, <1>7, <1>8 DEF ManifestNext

(* A manifest is the same as long as the scene is.                         *)
LEMMA SameManifest ==
  ASSUME NEW version, UNCHANGED <<stored, axes, relationships, provenance_relations>>
  PROVE  ManifestToJson(version)' = ManifestToJson(version)
BY DEF ManifestToJson, Listing, Markers, DataObjectToJson

(* What is encoded is right.                                               *)
LEMMA EncodedRight ==
  ASSUME NEW of \in {"manifest", "external_id", "sample"}, NEW version, NEW value \in Value,
         Encoded(of, version, value),
         of = "manifest" => version \in Versions /\ value = ManifestToJson(version)',
         of # "sample" => ~Holds(WriteCanonical[value], NonFiniteNumber)
  PROVE  DocumentRight'
<1>1. /\ document'.of = of /\ document'.version = version /\ document'.value = value
      /\ document'.text = EncodeValue(value)
  BY DEF Encoded
<1>2. \/ document' = NoDocument
      \/ /\ document'.of \in {"manifest", "external_id", "sample"}
         /\ document'.value \in Value
         /\ document'.text = EncodeValue(document'.value)
         /\ document'.of = "manifest" =>
              \E u \in Versions : document'.version = u /\ document'.value = ManifestToJson(u)'
         /\ document'.of # "sample" => ~Holds(WriteCanonical[document'.value], NonFiniteNumber)
  BY <1>1
<1> QED BY <1>2 DEF DocumentRight

(* A document of the scene as it is stays right as long as the scene       *)
(* does.                                                                   *)
LEMMA DocumentKept == DocumentRight /\ UNCHANGED manifest_vars => DocumentRight'
<1> SUFFICES ASSUME DocumentRight, UNCHANGED manifest_vars PROVE DocumentRight'
  OBVIOUS
<1>1. UNCHANGED <<stored, axes, relationships, provenance_relations>> /\ document' = document
  BY DEF manifest_vars, vars, content
<1>2. \A version \in Versions : ManifestToJson(version)' = ManifestToJson(version)
  BY <1>1, SameManifest
<1>3. CASE document = NoDocument
  BY <1>1, <1>3 DEF DocumentRight
<1>4. CASE document # NoDocument
  <2>1. /\ document'.of \in {"manifest", "external_id", "sample"}
        /\ document'.value \in Value /\ document'.text = EncodeValue(document'.value)
        /\ document'.of # "sample" => ~Holds(WriteCanonical[document'.value], NonFiniteNumber)
    BY <1>1, <1>4 DEF DocumentRight
  <2>2. document'.of = "manifest" =>
          \E version \in Versions :
            document'.version = version /\ document'.value = ManifestToJson(version)'
    BY <1>1, <1>2, <1>4 DEF DocumentRight
  <2> QED BY <2>1, <2>2 DEF DocumentRight
<1> QED BY <1>3, <1>4

(* The document is right after every step: a new one is of the scene as    *)
(* it is, and a step that changes the scene leaves none.                   *)
LEMMA DocumentStep ==
  TypeOK /\ Serials /\ Drafts /\ DocumentRight /\ [ManifestNext]_manifest_vars => DocumentRight'
<1> SUFFICES ASSUME TypeOK, Serials, Drafts, DocumentRight, [ManifestNext]_manifest_vars
             PROVE  DocumentRight'
  OBVIOUS
<1>1. CASE document' = NoDocument
  BY <1>1 DEF DocumentRight
<1>2. CASE \E kind \in AxisKinds, extent \in Extents : AddAxis(kind, extent)
  BY <1>1, <1>2 DEF AddAxis
<1>3. CASE AddDataObject
  BY <1>1, <1>3 DEF AddDataObject
<1>4. CASE SceneCall
  BY <1>1, <1>4 DEF SceneCall
<1>5. ASSUME NEW version \in Versions, EncodeManifest(version)
      PROVE  DocumentRight'
  <2> DEFINE value == ManifestToJson(version)
  <2>1. Encoded("manifest", version, value)
    BY <1>5 DEF EncodeManifest
  <2>2. value' = value
    BY <1>5, SameManifest DEF EncodeManifest, vars, content
  <2>3. value \in Plain(5)
    BY ManifestRight DEF Drafts
  <2> HIDE DEF value
  <2>4. value \in Value /\ ~Holds(WriteCanonical[value], NonFiniteNumber)
    BY <2>3, ValuesWithin DEF Plain
  <2>5. value = ManifestToJson(version)'
    BY <2>2 DEF value
  <2> QED BY <2>1, <2>4, <2>5, EncodedRight
<1>6. ASSUME NEW x \in ExternalIds, EncodeExternalId(x)
      PROVE  DocumentRight'
  <2> DEFINE value == ExternalIdToJson(x)
  <2>1. Encoded("external_id", 0, value)
    BY <1>6 DEF EncodeExternalId
  <2>2. value \in Plain(1)
    BY ExternalIdPlain
  <2> HIDE DEF value
  <2>3. value \in Value /\ ~Holds(WriteCanonical[value], NonFiniteNumber)
    BY <2>2, ValuesWithin DEF Plain
  <2> QED BY <2>1, <2>3, EncodedRight
<1>7. ASSUME NEW v \in Samples, EncodeSample(v)
      PROVE  DocumentRight'
  <2>1. Encoded("sample", 0, v) /\ v \in Value
    BY <1>7, ManifestAssumption DEF EncodeSample
  <2> QED BY <2>1, EncodedRight
<1>8. CASE UNCHANGED manifest_vars
  BY <1>8, DocumentKept
<1> QED BY <1>2, <1>3, <1>4, <1>5, <1>6, <1>7, <1>8 DEF ManifestNext

(* Every step preserves the invariant of the manifest.                     *)
LEMMA ManifestStep == ManifestInv /\ [ManifestNext]_manifest_vars => ManifestInv'
<1> SUFFICES ASSUME ManifestInv, [ManifestNext]_manifest_vars PROVE ManifestInv'
  OBVIOUS
<1>1. [Next]_vars
  BY SceneStep
<1>2. Inv' /\ LinksCoherent'
  BY <1>1, StepInv, LinksStep DEF ManifestInv
<1>3. Serials' /\ Drafts'
  BY SerialsStep, DraftsStep DEF ManifestInv
<1>4. DocumentRight'
  BY DocumentStep DEF ManifestInv, Inv
<1> QED BY <1>2, <1>3, <1>4 DEF ManifestInv

(* What the invariant says of a document there is: its text is that of a   *)
(* value, and reads as what the value means unless it is an error.         *)
LEMMA DocumentReads ==
  ASSUME DocumentRight, document # NoDocument
  PROVE  /\ document.value \in Value /\ document.text = EncodeValue(document.value)
         /\ document.text # <<NonFiniteNumber>> => Read(document.text) = Meaning[document.value]
         /\ document.of # "sample" =>
              /\ ~Holds(document.text, NonFiniteNumber)
              /\ Read(document.text) = Meaning[document.value]
<1> DEFINE v == document.value
           text == document.text
<1>1. /\ v \in Value /\ text = EncodeValue(v)
      /\ document.of # "sample" => ~Holds(WriteCanonical[v], NonFiniteNumber)
  BY DEF DocumentRight
<1> HIDE DEF v, text
<1>2. text # <<NonFiniteNumber>> => Read(text) = Meaning[v]
  BY <1>1, ValuesReadBack
<1>3. ~Holds(WriteCanonical[v], NonFiniteNumber) => ~Holds(text, NonFiniteNumber)
  BY <1>1 DEF EncodeValue
<1>4. Holds(<<NonFiniteNumber>>, NonFiniteNumber)
  BY DEF Holds
<1>5. ~Holds(text, NonFiniteNumber) => text # <<NonFiniteNumber>>
  BY <1>4
<1> QED BY <1>1, <1>2, <1>3, <1>5 DEF v, text

------------------------------------------------------------------------------
(* What holds of manifests.                                                *)

(* Every state of the manifest satisfies its invariant.                    *)
LEMMA ManifestInvariant == ManifestSpec => []ManifestInv
BY InitManifest, ManifestStep, PTL DEF ManifestSpec

(* The scene, the axes and the document stay well formed: a data object    *)
(* has no two axes of a kind and none of extent 0, and no manifest and no  *)
(* external id fails to be encoded.                                        *)
THEOREM ManifestTypeCorrect == ManifestSpec => []ManifestTypeOK
<1>1. ManifestInv => ManifestTypeOK
  <2> SUFFICES ASSUME ManifestInv PROVE ManifestTypeOK
    OBVIOUS
  <2>1. TypeOK /\ Drafts /\ DocumentRight
    BY DEF ManifestInv, Inv
  <2>2. \A list \in {draft} \union {axes[serial] : serial \in DOMAIN axes} :
          list \in Seq(Axis) /\ Distinct(list)
    BY <2>1 DEF Drafts, AxesTyped
  <2>3. document.of \in {"none", "manifest", "external_id", "sample"}
    BY <2>1 DEF DocumentRight, NoDocument
  <2>4. document.of \in {"manifest", "external_id"} => ~Holds(document.text, NonFiniteNumber)
    <3>1. NoDocument.of = "none"
      BY DEF NoDocument
    <3> QED BY <2>1, <3>1, DocumentReads
  <2>5. declared \in 0 .. MaxAxes
    BY <2>1 DEF Drafts
  <2> QED BY <2>1, <2>2, <2>3, <2>4, <2>5 DEF ManifestTypeOK, Distinct
<1> QED BY ManifestInvariant, <1>1, PTL

(* encode_value: every text is JSON that reads as the value it was         *)
(* written from, whatever characters its strings hold and however deep it  *)
(* nests.                                                                  *)
THEOREM TextsReadBack == ManifestSpec => []TextReadsBack
<1>1. ManifestInv => TextReadsBack
  <2> SUFFICES ASSUME ManifestInv PROVE TextReadsBack
    OBVIOUS
  <2>1. CASE document = NoDocument
    BY <2>1 DEF TextReadsBack, NoDocument
  <2>2. CASE document # NoDocument
    BY <2>2, DocumentReads DEF ManifestInv, TextReadsBack
  <2> QED BY <2>1, <2>2
<1> QED BY ManifestInvariant, <1>1, PTL

(* sort_by and compare_utf16: the members of each object come out in the   *)
(* order of RFC 8785, whatever the order they were put in.                 *)
THEOREM OrderIrrelevant == ManifestSpec => []OrderFree
<1>1. ManifestInv => OrderFree
  <2> SUFFICES ASSUME ManifestInv PROVE OrderFree
    OBVIOUS
  <2> DEFINE v == document.value
  <2>1. v \in Value
    <3>1. CASE document = NoDocument
      <4>1. v = Null
        BY <3>1 DEF NoDocument
      <4>2. Null \in Scalars
        BY DEF Scalars
      <4> QED BY <4>1, <4>2, ValuesAre, JcsAssumption DEF Value
    <3>2. CASE document # NoDocument
      BY <3>2, DocumentReads DEF ManifestInv
    <3> QED BY <3>1, <3>2
  <2>2. document.of # "none" => document.text = EncodeValue(v)
    BY DocumentReads DEF ManifestInv, NoDocument
  <2> HIDE DEF v
  <2>3. WriteCanonical[Turned[v]] = WriteCanonical[v] /\ MembersInOrder[v]
    BY <2>1, AllCanonical DEF Canonical
  <2>4. EncodeValue(Turned[v]) = EncodeValue(v)
    BY <2>3 DEF EncodeValue
  <2> QED BY <2>2, <2>3, <2>4 DEF OrderFree, v
<1> QED BY ManifestInvariant, <1>1, PTL

(* What a graph of the scene counts of a family.                           *)
LEMMA CountIs ==
  ASSUME TypeOK, NEW version
  PROVE  \A family \in Semantic \union {"process_record"} :
           CountOf(SceneGraph(version), family) = Len(stored[family])
<1> DEFINE graph == SceneGraph(version)
           s == stored["data_object"]
           items == [i \in DOMAIN s |-> axes[s[i].serial]]
<1>1. /\ graph.observations = Len(stored["observation"]) /\ graph.products = Len(stored["product"])
      /\ graph.process_records = Len(stored["process_record"])
      /\ graph.data_objects = items
  BY DEF SceneGraph
<1>2. s \in Seq(Entity)
  BY DEF TypeOK, Families, Semantic
<1> HIDE DEF s
<1>3. Len(items) = Len(s)
  BY <1>2
<1> HIDE DEF graph, items
<1>4. /\ CountOf(graph, "observation") = Len(stored["observation"])
      /\ CountOf(graph, "product") = Len(stored["product"])
      /\ CountOf(graph, "process_record") = Len(stored["process_record"])
      /\ CountOf(graph, "data_object") = Len(stored["data_object"])
  BY <1>1, <1>3 DEF CountOf, s
<1> QED BY <1>4 DEF graph, Semantic

(* Both ends of every link are of a family that a manifest shows, and are  *)
(* counted in it.                                                          *)
LEMMA RefsCounted ==
  ASSUME TypeOK, LinksCoherent, NEW version
  PROVE  LET graph == SceneGraph(version)
         IN  \A ref \in RefsOf(graph.relationships) \union RefsOf(graph.provenance_relations) :
               ref.id < CountOf(graph, ref.family)
<1> DEFINE graph == SceneGraph(version)
           links == [i \in DOMAIN relationships |->
                       <<relationships[i].source, relationships[i].kind, relationships[i].target>>]
           relations == [i \in DOMAIN provenance_relations |->
                          <<[family |-> "process_record", id |-> provenance_relations[i].process],
                            provenance_relations[i].kind, provenance_relations[i].entity>>]
           InGraph(ref) == ref.id < CountOf(graph, ref.family)
<1>1. graph.relationships = links /\ graph.provenance_relations = relations
  BY DEF SceneGraph
<1>2. \A family \in Semantic \union {"process_record"} : CountOf(graph, family) = Len(stored[family])
  BY CountIs
<1> HIDE DEF graph
<1>3. ASSUME NEW i \in DOMAIN relationships
      PROVE  InGraph(relationships[i].source) /\ InGraph(relationships[i].target)
  <2>1. relationships[i] \in Relationship
    BY DEF TypeOK
  <2>2. relationships[i].source.family \in Semantic /\ relationships[i].target.family \in Semantic
    BY <2>1 DEF Relationship, Ref
  <2> QED BY <1>2, <2>2 DEF LinksCoherent, Valid
<1>4. ASSUME NEW i \in DOMAIN provenance_relations
      PROVE  /\ InGraph([family |-> "process_record", id |-> provenance_relations[i].process])
             /\ InGraph(provenance_relations[i].entity)
  <2>1. provenance_relations[i] \in ProvenanceRelation
    BY DEF TypeOK
  <2>2. provenance_relations[i].entity.family \in Semantic
    BY <2>1 DEF ProvenanceRelation, Ref
  <2> QED BY <1>2, <2>2 DEF LinksCoherent, Valid
<1> HIDE DEF InGraph
<1>5. \A ref \in RefsOf(links) : InGraph(ref)
  BY <1>3 DEF RefsOf
<1>6. \A ref \in RefsOf(relations) : InGraph(ref)
  <2> DEFINE process(i) == [family |-> "process_record", id |-> provenance_relations[i].process]
  <2>1. /\ DOMAIN relations = DOMAIN provenance_relations
        /\ \A i \in DOMAIN relations :
             relations[i][1] = process(i) /\ relations[i][3] = provenance_relations[i].entity
    OBVIOUS
  <2>2. \A i \in DOMAIN provenance_relations : InGraph(process(i)) /\ InGraph(provenance_relations[i].entity)
    BY <1>4
  <2> HIDE DEF process, relations
  <2> QED BY <2>1, <2>2 DEF RefsOf
<1> QED BY <1>1, <1>5, <1>6 DEF graph, InGraph

(* from_scene, from_manifest and manifest_to_json lose nothing: what a     *)
(* reader makes of the text of a manifest is the graph of the scene, and   *)
(* both ends of every link are entities of the document.                   *)
THEOREM ManifestLossless == ManifestSpec => []DocumentLossless
<1>1. ManifestInv => DocumentLossless
  <2> SUFFICES ASSUME ManifestInv, document.of = "manifest"
               PROVE  LET graph == GraphOf(Read(document.text))
                      IN  /\ graph = SceneGraph(document.version)
                          /\ \A ref \in RefsOf(graph.relationships) \union RefsOf(graph.provenance_relations) :
                               ref.id < CountOf(graph, ref.family)
    BY Zenon DEF DocumentLossless
  <2>1. document # NoDocument
    BY DEF NoDocument
  <2>2. TypeOK /\ LinksCoherent /\ Serials /\ AxesTyped /\ DocumentRight
    BY DEF ManifestInv, Inv, Drafts
  <2>3. PICK version \in Versions : document.version = version /\ document.value = ManifestToJson(version)
    BY <2>1, <2>2 DEF DocumentRight
  <2>4. Read(document.text) = Meaning[document.value]
    BY <2>1, <2>2, DocumentReads
  <2>5. GraphOf(Read(document.text)) = SceneGraph(version)
    BY <2>2, <2>3, <2>4, ManifestRight
  <2>6. LET graph == SceneGraph(version)
        IN  \A ref \in RefsOf(graph.relationships) \union RefsOf(graph.provenance_relations) :
              ref.id < CountOf(graph, ref.family)
    BY <2>2, RefsCounted
  <2> QED BY <2>3, <2>5, <2>6
<1> QED BY ManifestInvariant, <1>1, PTL
=============================================================================
