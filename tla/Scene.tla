------------------------------- MODULE Scene --------------------------------
(***************************************************************************)
(* Scene: a container of seven families of entities, each with its own     *)
(* Vec and its own id counter, and of the links between them. An id is the *)
(* value of the counter when the entity was added; a lookup indexes the    *)
(* Vec with it. A scene is saved and loaded in three ways: through its     *)
(* serde derives, through the format-neutral storage model, and as a TIFF. *)
(* A call that returns an error changes nothing and is left out, except    *)
(* for the TIFF write, whose outcome is kept. An entity is reduced to what *)
(* tells it apart, and an image to whether the canonical schema can hold   *)
(* it.                                                                     *)
(***************************************************************************)
EXTENDS Integers, Sequences

CONSTANTS
  Namespaces,  \* of external ids
  MaxAdded,    \* bound: how many entities are ever added
  MaxLinks     \* bound: how many links of each kind a scene has

ASSUME SceneAssumption == MaxAdded \in Nat /\ MaxLinks \in Nat

VARIABLES
  stored,                \* the Vec of each family
  next,                  \* the next_*_id counter of each family
  external_ids,
  relationships,
  provenance_relations,
  added,                 \* how many entities were added so far
  given,                 \* the ids the caller was given, with their entities
  dropped,               \* families that lost entities in a serde round trip
  saved                  \* "ok" or "refused" after a TIFF write, else "none"

content == <<stored, next, external_ids, relationships, provenance_relations>>
vars == <<content, added, given, dropped, saved>>

Semantic == {"observation", "data_object", "product"}
InModel == {"image", "camera", "geometry"}
Families == Semantic \union InModel \union {"process_record"}

Entity == [serial: Nat, storable: BOOLEAN]

(* Ids of a family; a caller may also use one that was never given out.    *)
Ids == 0 .. MaxAdded
Ref == [family: Semantic, id: Ids]

Empty == [f \in Families |-> << >>]
Positions(s) == {<<i - 1, s[i]>> : i \in DOMAIN s}

Init ==
  /\ stored = Empty
  /\ next = [f \in Families |-> 0]
  /\ external_ids = << >> /\ relationships = << >> /\ provenance_relations = << >>
  /\ added = 0 /\ given = [f \in Families |-> {}] /\ dropped = {} /\ saved = "none"

------------------------------------------------------------------------------
(* add_image, add_camera, ...: the counter gives the id.                   *)
Add(f, storable) ==
  LET e == [serial |-> added, storable |-> storable]
  IN  /\ added < MaxAdded /\ added' = added + 1
      /\ stored' = [stored EXCEPT ![f] = Append(@, e)]
      /\ next' = [next EXCEPT ![f] = @ + 1]
      /\ given' = [given EXCEPT ![f] = @ \union {<<next[f], e>>}]
      /\ saved' = "none"
      /\ UNCHANGED <<external_ids, relationships, provenance_relations, dropped>>

AddImage == \E storable \in BOOLEAN : Add("image", storable)
AddOther == \E f \in Families \ {"image"} : Add(f, TRUE)

(* validate_image_id, validate_entity_ref, validate_process_record.        *)
Valid(f, id) == id < Len(stored[f])

(* attach_external_id: at most one external id per image and namespace.    *)
Conflicts(image, namespace) ==
  \E i \in DOMAIN external_ids : external_ids[i] = <<image, namespace>>
AttachExternalId(image, namespace) ==
  /\ Len(external_ids) < MaxLinks
  /\ Valid("image", image) /\ ~Conflicts(image, namespace)
  /\ external_ids' = Append(external_ids, <<image, namespace>>)
  /\ saved' = "none"
  /\ UNCHANGED <<stored, next, relationships, provenance_relations, added, given, dropped>>

(* RelationshipKind::permits *)
Permits(kind, source, target) ==
  \/ kind = "produces" /\ source = "observation" /\ target = "data_object"
  \/ kind = "derived_from" /\ source \in {"data_object", "product"} /\ target = "product"

Listed(link, list) == \E i \in DOMAIN list : list[i] = link

AddRelationship(source, kind, target) ==
  LET link == [source |-> source, kind |-> kind, target |-> target]
  IN  /\ Len(relationships) < MaxLinks
      /\ Valid(source.family, source.id) /\ Valid(target.family, target.id)
      /\ Permits(kind, source.family, target.family)
      /\ ~Listed(link, relationships)
      /\ relationships' = Append(relationships, link)
      /\ saved' = "none"
      /\ UNCHANGED <<stored, next, external_ids, provenance_relations, added, given, dropped>>

AddProvenance(process, kind, entity) ==
  LET link == [process |-> process, kind |-> kind, entity |-> entity]
  IN  /\ Len(provenance_relations) < MaxLinks
      /\ Valid("process_record", process) /\ Valid(entity.family, entity.id)
      /\ ~Listed(link, provenance_relations)
      /\ provenance_relations' = Append(provenance_relations, link)
      /\ saved' = "none"
      /\ UNCHANGED <<stored, next, external_ids, relationships, added, given, dropped>>

------------------------------------------------------------------------------
(* Saving and loading.                                                     *)

NoLinks == external_ids' = << >> /\ relationships' = << >> /\ provenance_relations' = << >>

(* The derived Serialize and Deserialize: the images and every counter are *)
(* kept, all other fields are skipped and come back empty. A derive with a *)
(* bug forgets to skip the relationships.                                  *)
SerdeLinksKept == UNCHANGED <<external_ids, relationships, provenance_relations>>
SerdeLinks == NoLinks
SerdeRoundTrip ==
  /\ stored' = [Empty EXCEPT !["image"] = stored["image"]]
  /\ saved' = "none" /\ UNCHANGED <<next, added>>
  /\ SerdeLinks
  /\ given' = [f \in Families |-> IF f = "image" THEN given[f] ELSE {}]
  /\ dropped' = dropped \union {f \in Families \ {"image"} : next[f] > 0}

(* SceneSerializer::serialize: one child per image, camera and geometry,   *)
(* in order, unless an image does not fit the schema.                      *)
Serializable == \A i \in DOMAIN stored["image"] : stored["image"][i].storable

(* SceneDeserializer::deserialize adds what it finds to a new scene, whose *)
(* counters start over. The caller's ids of what is in the model carry     *)
(* over, for a geometry refers to its source image by id. Deserializers    *)
(* with a bug: one keeps counting where the old scene was, one fills the   *)
(* Vecs and leaves the counters at their default.                          *)
CountersKept(loaded) == next
CountersReset(loaded) == [f \in Families |-> 0]
CountersOf(loaded) == [f \in Families |-> Len(loaded[f])]

StorageRoundTrip ==
  LET loaded == [f \in Families |-> IF f \in InModel THEN stored[f] ELSE << >>]
  IN  /\ Serializable
      /\ stored' = loaded
      /\ next' = CountersOf(loaded)
      /\ NoLinks
      /\ given' = [f \in Families |->
                     IF f \notin InModel THEN {}
                     ELSE IF f \in dropped THEN Positions(loaded[f])
                     ELSE given[f]]
      /\ dropped' = {}
      /\ saved' = "none" /\ UNCHANGED added

(* Tiff::to_bytes, and opening the result: every child of the model is     *)
(* planned as an image, which the child of a camera or geometry is not,    *)
(* and there must be one. What the planner refuses of the layout of images *)
(* is left to TiffWriter.                                                  *)
ToBytes ==
  LET fits == /\ Serializable
              /\ stored["image"] # << >>
              /\ stored["camera"] = << >> /\ stored["geometry"] = << >>
  IN  IF fits
      THEN /\ stored' = [Empty EXCEPT !["image"] = stored["image"]]
           /\ next' = CountersOf(stored')
           /\ NoLinks
           /\ given' = [f \in Families |-> IF f = "image" THEN given[f] ELSE {}]
           /\ dropped' = {} /\ saved' = "ok"
           /\ UNCHANGED added
      ELSE saved' = "refused" /\ UNCHANGED <<content, added, given, dropped>>

Next ==
  \/ AddImage
  \/ AddOther
  \/ \E image \in Ids, namespace \in Namespaces : AttachExternalId(image, namespace)
  \/ \E source, target \in Ref, kind \in {"produces", "derived_from"} :
       AddRelationship(source, kind, target)
  \/ \E process \in Ids, entity \in Ref, kind \in {"used", "generated"} :
       AddProvenance(process, kind, entity)
  \/ SerdeRoundTrip
  \/ StorageRoundTrip
  \/ ToBytes

Spec == Init /\ [][Next]_vars

------------------------------------------------------------------------------
(* Properties.                                                             *)

Attached == Ids \X Namespaces
Relationship == [source: Ref, kind: {"produces", "derived_from"}, target: Ref]
ProvenanceRelation == [process: Ids, kind: {"used", "generated"}, entity: Ref]

(* Every field stays in its range, and no counter runs behind its Vec.     *)
TypeOK ==
  /\ stored \in [Families -> Seq(Entity)]
  /\ next \in [Families -> 0 .. MaxAdded]
  /\ \A f \in Families : Len(stored[f]) <= next[f]
  /\ external_ids \in Seq(Attached)
  /\ relationships \in Seq(Relationship)
  /\ provenance_relations \in Seq(ProvenanceRelation)
  /\ added \in 0 .. MaxAdded
  /\ given \in [Families -> SUBSET (Ids \X Entity)]
  /\ dropped \subseteq Families \ {"image"}
  /\ saved \in {"none", "ok", "refused"}

(* Looking an id up gives the entity it was given out for, and every other *)
(* id is NotFound.                                                         *)
IdsExact(f) == Positions(stored[f]) = given[f]

(* The ids of a family are exact through any calls, saves and loads, as    *)
(* long as no serde round trip skipped entities of that family: those of   *)
(* images always.                                                          *)
KeptIdsExact == \A f \in Families \ dropped : IdsExact(f)

Duplicate(list) == \E i, j \in DOMAIN list : i # j /\ list[i] = list[j]

(* Links stay coherent: both ends of every link of the scene are entities  *)
(* it has, of kinds that may be linked so, no link is listed twice and no  *)
(* image has two external ids of one namespace.                            *)
LinksCoherent ==
  /\ \A i \in DOMAIN external_ids : Valid("image", external_ids[i][1])
  /\ \A i \in DOMAIN relationships :
       LET r == relationships[i]
       IN  /\ Valid(r.source.family, r.source.id) /\ Valid(r.target.family, r.target.id)
           /\ Permits(r.kind, r.source.family, r.target.family)
  /\ \A i \in DOMAIN provenance_relations :
       LET r == provenance_relations[i]
       IN  Valid("process_record", r.process) /\ Valid(r.entity.family, r.entity.id)
  /\ ~Duplicate(external_ids) /\ ~Duplicate(relationships)
  /\ ~Duplicate(provenance_relations)
=============================================================================
