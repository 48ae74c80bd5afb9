---------------------------- MODULE PtiffFields -----------------------------
(***************************************************************************)
(* The PTIFF extension fields of an image: the ptiff.<domain>.<name> fields*)
(* of the storage model, the private tags 65001-65005 that carry them in a *)
(* TIFF (io/backend/tiff/ptiff_metadata.rs), and the typed camera and      *)
(* reference system that geometry/marshal.rs makes of two of the domains.  *)
(* A field's key is <<domain, name>>. Groups of fields that are read alike *)
(* are one field here: "focal" and "principal" stand for two numbers each, *)
(* "rotation" for four, "position" for three, "planet_axes" for two.       *)
(***************************************************************************)
EXTENDS Integers, FiniteSets

CONSTANTS
  Numbers,      \* the values that parse as a number
  Identity,     \* the pose of a camera that was given none
  KnownFrames,  \* the frame ids that have a constant: J2000, IAU_MOON, ...
  Projections,  \* the canonical names of the projection kinds
  LensKinds,    \* the canonical names of the lens kinds
  Absent,       \* no such domain, or not enough of it
  Malformed     \* a number that is none, an unknown projection

ASSUME ValuesAssumption ==
  Identity \in Numbers /\ Absent \notin KnownFrames /\ Absent # Malformed

(* The domains that have a tag, in the order append_ptiff_tags writes them.*)
TagDomains == {"spice", "camera", "crs", "layers", "provenance"}
Version == 1

(* StorageModel::set_field, for every field of g.                          *)
Over(f, g) ==
  [k \in DOMAIN f \cup DOMAIN g |-> IF k \in DOMAIN g THEN g[k] ELSE f[k]]
NoFields == [k \in {} |-> Absent]

Only(f, K) == [k \in DOMAIN f \cap K |-> f[k]]

(* The fields ptiff.<domain>.<name> of a record r of names.                *)
Under(domain, r) == [k \in {<<domain, n>> : n \in DOMAIN r} |-> r[k[2]]]
(* The names a node has under a domain, and their values.                  *)
Names(f, domain) == {k[2] : k \in {j \in DOMAIN f : j[1] = domain}}
DomainPresent(f, domain) == Names(f, domain) # {}
IsParam(name) == name \in {"lens.k1", "lens.k2"}

------------------------------------------------------------------------------
(* Cameras.                                                                *)

CameraFields(c) ==
  Under("camera",
    Over(Over([model |-> c.model, focal |-> c.focal, principal |-> c.principal,
               rotation |-> c.rotation, position |-> c.position, lens_kind |-> c.lens_kind],
              IF c.timestamp = "" THEN NoFields ELSE [timestamp |-> c.timestamp]),
         c.params))

(* An unknown lens kind is a pinhole.                                      *)
LensKindFromStr(s) == IF s \in LensKinds THEN s ELSE "pinhole"

CameraFromModel(f) ==
  LET has(n) == n \in Names(f, "camera")
      at(n, default) == IF has(n) THEN f[<<"camera", n>>] ELSE default
      wrong(n) == has(n) /\ at(n, Absent) \notin Numbers
      posed == has("rotation") /\ has("position")
      params == {n \in Names(f, "camera") : IsParam(n) /\ ~wrong(n)} IN
  IF ~has("model") THEN Absent
  ELSE IF wrong("focal") \/ wrong("principal") THEN Malformed
  ELSE IF ~has("focal") \/ ~has("principal") THEN Absent
  ELSE IF posed /\ (wrong("rotation") \/ wrong("position")) THEN Malformed
  ELSE [model |-> at("model", Absent), timestamp |-> at("timestamp", ""),
        focal |-> at("focal", Absent), principal |-> at("principal", Absent),
        rotation |-> IF posed THEN at("rotation", Absent) ELSE Identity,
        position |-> IF posed THEN at("position", Absent) ELSE Identity,
        lens_kind |-> LensKindFromStr(at("lens_kind", "pinhole")),
        params |-> [n \in params |-> at(n, Absent)]]

------------------------------------------------------------------------------
(* Coordinate reference systems. The planet's name and axes and the        *)
(* parameters of the projection are not written back and are left out.     *)

FrameFromId(id) == IF id \in KnownFrames THEN id ELSE Absent
FrameOr(id, default) == IF FrameFromId(id) = Absent THEN default ELSE id

(* CoordinateReferenceSystem::frame: the override, else the planet's.      *)
EffectiveFrame(s) == IF s.override = Absent THEN s.reference_frame ELSE s.override

(* Mutant: the frame is written under the name of the legacy schema.       *)
CrsFieldsLegacyFrame(s) ==
  Under("crs", [body |-> s.body, projection |-> s.projection, frame |-> EffectiveFrame(s)])

CrsFields(s) ==
  Under("crs", [body |-> s.body, projection |-> s.projection,
                reference_frame |-> EffectiveFrame(s)])

CrsFromRegisteredSchema(f) ==
  LET at(n, default) ==
        IF n \in Names(f, "crs") THEN f[<<"crs", n>>] ELSE default
      body == at("body", Absent)
      frame == FrameFromId(at("reference_frame", Absent)) IN
  IF at("projection", "equirectangular") \notin Projections THEN Malformed
  ELSE [body |-> body, projection |-> at("projection", "equirectangular"),
        reference_frame |-> IF frame # Absent THEN frame ELSE FrameOr(body, "UNSPECIFIED"),
        override |-> frame]

CrsFromModel(f) ==
  LET has(n) == n \in Names(f, "crs")
      at(n) == f[<<"crs", n>>] IN
  IF has("body") THEN CrsFromRegisteredSchema(f)
  ELSE IF ~has("planet_name") \/ ~has("planet_iau_id") THEN Absent
  ELSE IF has("planet_axes") /\ at("planet_axes") \notin Numbers THEN Malformed
  ELSE IF ~has("planet_axes") \/ ~has("projection") THEN Absent
  ELSE IF at("projection") \notin Projections THEN Malformed
  ELSE [body |-> at("planet_iau_id"), projection |-> at("projection"),
        reference_frame |-> FrameOr(at("planet_iau_id"), "UNSPECIFIED"),
        override |-> IF has("frame") THEN FrameFromId(at("frame")) ELSE Absent]

------------------------------------------------------------------------------
(* The tags. A payload that was cut, has no magic or is of a later version *)
(* is skipped, and so is its domain.                                       *)

Decodes(payload) == payload.whole /\ payload.version <= Version

FieldsOfTags(tags) ==
  LET read == {d \in DOMAIN tags : Decodes(tags[d])} IN
  [k \in UNION {{<<d, n>> : n \in DOMAIN tags[d].records} : d \in read} |->
     tags[k[1]].records[k[2]]]

(* append_ptiff_tags: one payload per domain that has a field.             *)
TagsOfFields(f) ==
  [d \in {x \in TagDomains : DomainPresent(f, x)} |->
     [whole |-> TRUE, version |-> Version, records |-> [n \in Names(f, d) |-> f[<<d, n>>]]]]

------------------------------------------------------------------------------
(* The descriptor of an image, between SceneDeserializer and               *)
(* SceneSerializer.                                                        *)

(* The fields no typed domain owns.                                        *)
MetadataOf(f, camera, crs) ==
  Only(f, {k \in DOMAIN f : /\ k[1] = "camera" => camera = Absent
                            /\ k[1] = "crs" => crs = Absent})

Readable(tags) ==
  LET f == FieldsOfTags(tags) IN CameraFromModel(f) # Malformed /\ CrsFromModel(f) # Malformed

ReadExtensions(tags) ==
  LET f == FieldsOfTags(tags)
      camera == CameraFromModel(f)
      crs == CrsFromModel(f) IN
  [camera |-> camera, crs |-> crs, metadata |-> MetadataOf(f, camera, crs)]

WriteExtensions(d) ==
  TagsOfFields(
    Over(Over(IF d.camera = Absent THEN NoFields ELSE CameraFields(d.camera),
              IF d.crs = Absent THEN NoFields ELSE CrsFields(d.crs)),
         d.metadata))
=============================================================================
