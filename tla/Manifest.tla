------------------------------- MODULE Manifest -------------------------------
(***************************************************************************)
(* The manifest of a scene: the projection of its semantic entities and    *)
(* links (mf02), its typed serialization (mf03a) and their canonical JSON  *)
(* (mf03b). The entities have no ids of their own there; a reference names *)
(* a family and an id, and a reader finds the entity by counting. The      *)
(* scene goes on changing by the calls of Scene that concern these. A word *)
(* of the vocabulary is one character.                                     *)
(***************************************************************************)
EXTENDS Scene, Jcs

CONSTANTS
  CharOf,      \* the character each word of the vocabulary is
  AxisKinds,   \* roles of axes: some of "x", "y", "band", "time", "polarization"
  Extents,     \* what a caller gives as the extent of an axis
  MaxAxes,     \* bound: axes ever declared
  MaxExact,    \* the largest integer a double holds exactly, 2^53
  Versions,    \* of manifests
  ExternalIds, \* records of namespace, value and version, << >> for none
  Samples      \* JSON values as the unit tests of the writer give it

Vocabulary ==
  {"axes", "band", "data_object", "data_objects", "derived_from", "entity", "extent",
   "generated", "id", "kind", "metadata", "namespace", "observation", "observations",
   "polarization", "process", "process_record", "process_records", "produces", "product",
   "products", "provenance_relations", "relationships", "source", "target", "time", "used",
   "value", "version", "x", "y"}

(* A manifest nests to a depth of 5.                                       *)
ASSUME ManifestAssumption ==
  /\ AxisKinds \subseteq {"x", "y", "band", "time", "polarization"}
  /\ Extents \subseteq 0 .. MaxInteger /\ Versions \subseteq 0 .. MaxInteger
  /\ MaxAdded <= MaxInteger
  /\ MaxExact \in Nat \ {0} /\ MaxAxes \in Nat
  /\ CharOf \in [Vocabulary -> Char]
  /\ \A a, b \in Vocabulary : CharOf[a] = CharOf[b] => a = b
  /\ MaxDepth >= 5
  /\ ExternalIds \subseteq [namespace: Text, value: Text, version: Text]
  /\ Samples \subseteq Value

VARIABLES
  draft,      \* axes of the DataObject that is being built
  axes,       \* axes of the data objects of the scene, by serial
  declared,   \* how many axes were declared so far
  document    \* the last text: what it is of, the JSON value and the text

manifest_vars == <<vars, draft, axes, declared, document>>

NoDocument == [of |-> "none", version |-> 0, value |-> Null, text |-> << >>]

ManifestInit ==
  /\ Init
  /\ draft = << >> /\ axes = [serial \in 0 .. MaxAdded - 1 |-> << >>] /\ declared = 0
  /\ document = NoDocument

------------------------------------------------------------------------------
(* Building the scene.                                                     *)

(* AxisDescriptor::new and DataObject::add_axis: an extent of 0 is refused *)
(* and so is a second axis of a kind. An add_axis with a bug takes it.     *)
Declared(kind) == \E i \in DOMAIN draft : draft[i].kind = kind
AcceptsAgain(kind, extent) == extent > 0
Accepts(kind, extent) == extent > 0 /\ ~Declared(kind)
AddAxis(kind, extent) ==
  /\ declared < MaxAxes /\ added < MaxAdded
  /\ Accepts(kind, extent)
  /\ draft' = Append(draft, [kind |-> kind, extent |-> extent])
  /\ declared' = declared + 1 /\ document' = NoDocument
  /\ UNCHANGED <<vars, axes>>

(* Scene::add_data_object moves the object in; it is never changed after.  *)
AddDataObject ==
  /\ Add("data_object", TRUE)
  /\ axes' = [axes EXCEPT ![added] = draft] /\ draft' = << >>
  /\ document' = NoDocument
  /\ UNCHANGED declared

(* The other calls on what a manifest shows of a scene. Images, cameras and *)
(* geometries are not in it, and are left to the run of Scene.             *)
SceneCall ==
  /\ \/ \E f \in {"observation", "product", "process_record"} : Add(f, TRUE)
     \/ \E source, target \in Ref, kind \in {"produces", "derived_from"} :
          AddRelationship(source, kind, target)
     \/ \E process \in Ids, entity \in Ref, kind \in {"used", "generated"} :
          AddProvenance(process, kind, entity)
     \/ SerdeRoundTrip
  /\ document' = NoDocument
  /\ UNCHANGED <<draft, axes, declared>>

------------------------------------------------------------------------------
(* The vocabulary, the JSON of each part and of the whole.                 *)

Word(word) == <<CharOf[word]>>

Member(name, value) == <<Word(name), value>>
Listing(name, items) == Member(name, Array(items))
Token(word) == String(Word(word))

(* integer64_to_json: a string beyond what a double holds. One with a bug  *)
(* always gives a number.                                                  *)
IntegerAlways(n) == Integer(n)
Integer64ToJson(n) == IF n <= MaxExact THEN Integer(n) ELSE String(Decimal[n])

RefToJson(family, id) ==
  Object(<<Member("entity", Token(family)), Member("id", Integer64ToJson(id))>>)
AxisToJson(axis) ==
  Object(<<Member("kind", Token(axis.kind)), Member("extent", Integer64ToJson(axis.extent))>>)
DataObjectToJson(e) ==
  Object(<<Listing("axes", [i \in DOMAIN axes[e.serial] |-> AxisToJson(axes[e.serial][i])])>>)
RelationshipToJson(r) ==
  Object(<<Member("source", RefToJson(r.source.family, r.source.id)),
           Member("kind", Token(r.kind)),
           Member("target", RefToJson(r.target.family, r.target.id))>>)
ProvenanceToJson(r) ==
  Object(<<Member("process", RefToJson("process_record", r.process)),
           Member("kind", Token(r.kind)),
           Member("entity", RefToJson(r.entity.family, r.entity.id))>>)

Markers(family) == [i \in DOMAIN stored[family] |-> Object(<< >>)]

(* Manifest::from_scene, SerializationManifest::from_manifest and          *)
(* manifest_to_json.                                                       *)
ManifestToJson(version) ==
  Object(<<
    Member("metadata", Object(<<Member("version", Integer64ToJson(version))>>)),
    Listing("observations", Markers("observation")),
    Listing("data_objects",
      [i \in DOMAIN stored["data_object"] |-> DataObjectToJson(stored["data_object"][i])]),
    Listing("products", Markers("product")),
    Listing("process_records", Markers("process_record")),
    Listing("relationships",
      [i \in DOMAIN relationships |-> RelationshipToJson(relationships[i])]),
    Listing("provenance_relations",
      [i \in DOMAIN provenance_relations |-> ProvenanceToJson(provenance_relations[i])])>>)

(* SerializedExternalId and external_id_to_json: no version, no member.    *)
ExternalIdToJson(x) ==
  Object(<<Member("namespace", String(x.namespace)), Member("value", String(x.value))>>
           \o (IF x.version = << >> THEN << >> ELSE <<Member("version", String(x.version))>>))

------------------------------------------------------------------------------
(* Encoding.                                                               *)

Encoded(of, version, value) ==
  document' = [of |-> of, version |-> version, value |-> value, text |-> EncodeValue(value)]

EncodeManifest(version) ==
  /\ Encoded("manifest", version, ManifestToJson(version))
  /\ UNCHANGED <<vars, draft, axes, declared>>

(* ExternalId::new refuses an empty namespace or value; with_version an     *)
(* empty version, so that << >> is free to mean that there is none.        *)
ValidExternalId(x) == x.namespace # << >> /\ x.value # << >>

(* What does not depend on the scene is encoded once, next to a new one.   *)
NewScene == added = 0 /\ draft = << >> /\ document = NoDocument
EncodeExternalId(x) ==
  /\ NewScene /\ ValidExternalId(x)
  /\ Encoded("external_id", 0, ExternalIdToJson(x))
  /\ UNCHANGED <<vars, draft, axes, declared>>

EncodeSample(v) ==
  /\ NewScene
  /\ Encoded("sample", 0, v)
  /\ UNCHANGED <<vars, draft, axes, declared>>

ManifestNext ==
  \/ \E kind \in AxisKinds, extent \in Extents : AddAxis(kind, extent)
  \/ AddDataObject
  \/ SceneCall
  \/ \E version \in Versions : EncodeManifest(version)
  \/ \E x \in ExternalIds : EncodeExternalId(x)
  \/ \E v \in Samples : EncodeSample(v)

ManifestSpec == ManifestInit /\ [][ManifestNext]_manifest_vars

------------------------------------------------------------------------------
(* A reader of manifests, whose JSON numbers are doubles.                  *)

MemberOf(object, name) ==
  (CHOOSE m \in object[2] : m[1] = Word(name))[2]
ItemsOf(object, name) == MemberOf(object, name)[2]

(* Beyond MaxExact a double has room for the even integers only, and ties  *)
(* go to the multiples of 4.                                               *)
Rounded(n) ==
  IF n <= MaxExact \/ n % 2 = 0 THEN n ELSE IF n % 4 = 1 THEN n - 1 ELSE n + 1
Integer64Of(value) ==
  IF value[1] = "string" THEN Parsed(value[2])
  ELSE Rounded(Parsed(value[3] \o Zeros(value[4] + 1 - Len(value[3]))))

WordOf(value) == CHOOSE word \in Vocabulary : CharOf[word] = value[2][1]
RefOf(object) ==
  [family |-> WordOf(MemberOf(object, "entity")), id |-> Integer64Of(MemberOf(object, "id"))]
AxesOf(object) ==
  LET items == ItemsOf(object, "axes")
  IN  [i \in DOMAIN items |-> [kind |-> WordOf(MemberOf(items[i], "kind")),
                               extent |-> Integer64Of(MemberOf(items[i], "extent"))]]
GraphOf(object) ==
  LET links == ItemsOf(object, "relationships")
      relations == ItemsOf(object, "provenance_relations")
      objects == ItemsOf(object, "data_objects")
  IN  [version |-> Integer64Of(MemberOf(MemberOf(object, "metadata"), "version")),
       observations |-> Len(ItemsOf(object, "observations")),
       data_objects |-> [i \in DOMAIN objects |-> AxesOf(objects[i])],
       products |-> Len(ItemsOf(object, "products")),
       process_records |-> Len(ItemsOf(object, "process_records")),
       relationships |->
         [i \in DOMAIN links |->
            <<RefOf(MemberOf(links[i], "source")), WordOf(MemberOf(links[i], "kind")),
              RefOf(MemberOf(links[i], "target"))>>],
       provenance_relations |->
         [i \in DOMAIN relations |->
            <<RefOf(MemberOf(relations[i], "process")), WordOf(MemberOf(relations[i], "kind")),
              RefOf(MemberOf(relations[i], "entity"))>>]]

(* What the scene itself says, every reference looked up in it.            *)
SceneGraph(version) ==
  [version |-> version,
   observations |-> Len(stored["observation"]),
   data_objects |->
     [i \in DOMAIN stored["data_object"] |-> axes[stored["data_object"][i].serial]],
   products |-> Len(stored["product"]),
   process_records |-> Len(stored["process_record"]),
   relationships |->
     [i \in DOMAIN relationships |->
        <<relationships[i].source,
          relationships[i].kind, relationships[i].target>>],
   provenance_relations |->
     [i \in DOMAIN provenance_relations |->
        <<[family |-> "process_record", id |-> provenance_relations[i].process],
          provenance_relations[i].kind, provenance_relations[i].entity>>]]

CountOf(graph, family) ==
  CASE family = "observation" -> graph.observations
    [] family = "data_object" -> Len(graph.data_objects)
    [] family = "product" -> graph.products
    [] family = "process_record" -> graph.process_records
RefsOf(links) ==
  UNION {{links[i][1], links[i][3]} : i \in DOMAIN links}

------------------------------------------------------------------------------
(* Properties.                                                             *)

(* The scene is one that Scene allows, no data object has two axes of a    *)
(* kind or an axis of extent 0, and only a number that is not finite, as   *)
(* no manifest and no external id has one, is not encoded.                 *)
Axis == [kind: AxisKinds, extent: Extents \ {0}]
ManifestTypeOK ==
  /\ TypeOK
  /\ \A list \in {draft} \union {axes[serial] : serial \in DOMAIN axes} :
       /\ list \in Seq(Axis)
       /\ \A i, j \in DOMAIN list : list[i].kind = list[j].kind => i = j
  /\ declared \in 0 .. MaxAxes
  /\ document.of \in {"none", "manifest", "external_id", "sample"}
  /\ document.of \in {"manifest", "external_id"} => ~Holds(document.text, NonFiniteNumber)

(* from_scene and from_manifest promise to lose nothing: a reader of the   *)
(* text, who has doubles for numbers, finds every entity in its place,     *)
(* every axis and link in order with its 64-bit integers intact, and both  *)
(* ends of each link are entities of the document itself.                  *)
DocumentLossless ==
  document.of = "manifest" =>
    LET graph == GraphOf(Read(document.text))
    IN  /\ graph = SceneGraph(document.version)
        /\ \A ref \in RefsOf(graph.relationships) \union RefsOf(graph.provenance_relations) :
             ref.id < CountOf(graph, ref.family)

(* Whatever characters its strings hold, and whatever its size, each text  *)
(* is JSON that reads as the value it was written from and as no other.    *)
TextReadsBack ==
  document.text \notin {<< >>, <<NonFiniteNumber>>} =>
    Read(document.text) = Meaning[document.value]

(* Equal values have one text: the order in which members were put in does *)
(* not show in it, and they come out in the order of RFC 8785.             *)
OrderFree ==
  /\ MembersInOrder[document.value]
  /\ document.of # "none" => EncodeValue(Turned[document.value]) = document.text
=============================================================================
