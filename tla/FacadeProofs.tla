----------------------------- MODULE FacadeProofs -----------------------------
(***************************************************************************)
(* What Facade promises, for any paths, files, handles and faults. The     *)
(* extension fields come first: a payload is what was put in it, and a     *)
(* camera or reference system that was read once is written and read the   *)
(* same from then on. Then the tiles' places in a file, and an inductive   *)
(* invariant that ties disk, handles, heap and promises together.          *)
(***************************************************************************)
EXTENDS Facade, FiniteSetTheorems, TLAPS

(* The values that stand for "none" are no records and no field maps.      *)
Apart == \A f : f = [x \in DOMAIN f |-> f[x]] => f \notin {Absent, Malformed, NoFile, Null, Unknown}

------------------------------------------------------------------------------
(* Fields and tags.                                                        *)

IsFields(f) ==
  /\ f = [k \in DOMAIN f |-> f[k]]
  /\ \A k \in DOMAIN f : k[1] \in TagDomains /\ k = <<k[1], k[2]>>

IsRecord(r) == r = [n \in DOMAIN r |-> r[n]]

LEMMA TagsKeep ==
  ASSUME NEW f, IsFields(f)
  PROVE  FieldsOfTags(TagsOfFields(f)) = f
<1> DEFINE tags == TagsOfFields(f)
           D == {x \in TagDomains : DomainPresent(f, x)}
           read == {d \in DOMAIN tags : Decodes(tags[d])}
<1>1. /\ DOMAIN tags = D
      /\ \A d \in D : /\ tags[d].whole = TRUE /\ tags[d].version = Version
                      /\ tags[d].records = [n \in Names(f, d) |-> f[<<d, n>>]]
  BY DEF TagsOfFields
<1>2. read = D
  <2> HIDE DEF tags, D
  <2>1. ASSUME NEW d \in D PROVE Decodes(tags[d])
    <3>1. tags[d].whole = TRUE /\ tags[d].version = Version
      BY <1>1
    <3>2. Version <= Version
      BY DEF Version
    <3> QED BY <3>1, <3>2, Zenon DEF Decodes
  <2> QED BY <1>1, <2>1
<1>3. \A d \in D : DOMAIN tags[d].records = Names(f, d)
  BY <1>1
<1> DEFINE K == UNION {{<<d, n>> : n \in DOMAIN tags[d].records} : d \in read}
<1>4. \A k \in DOMAIN f : k[1] \in D /\ k[2] \in Names(f, k[1])
  BY DEF IsFields, Names, DomainPresent
<1>5. K = DOMAIN f
  <2>1. \A k \in DOMAIN f : k \in K
    BY <1>2, <1>3, <1>4 DEF IsFields
  <2>2. ASSUME NEW k \in K PROVE k \in DOMAIN f
    <3>0. PICK d \in D : \E n \in Names(f, d) : k = <<d, n>>
      BY <1>2, <1>3
    <3>1. PICK n \in Names(f, d) : k = <<d, n>>
      BY <3>0
    <3>2. PICK j \in DOMAIN f : j[1] = d /\ n = j[2]
      BY <3>1 DEF Names
    <3> QED BY <3>1, <3>2 DEF IsFields
  <2> QED BY <2>1, <2>2
<1>6. FieldsOfTags(tags) = [k \in K |-> tags[k[1]].records[k[2]]]
  BY DEF FieldsOfTags
<1>7. ASSUME NEW k \in DOMAIN f PROVE tags[k[1]].records[k[2]] = f[k]
  <2>1. k[1] \in D /\ k[2] \in Names(f, k[1])
    BY <1>4
  <2>2. tags[k[1]].records = [n \in Names(f, k[1]) |-> f[<<k[1], n>>]]
    BY <1>1, <2>1, Zenon
  <2> HIDE DEF tags
  <2>3. tags[k[1]].records[k[2]] = f[<<k[1], k[2]>>]
    BY <2>1, <2>2
  <2> QED BY <2>3 DEF IsFields
<1>8. FieldsOfTags(tags) = [k \in DOMAIN f |-> f[k]]
  BY <1>5, <1>6, <1>7, Zenon
<1> QED BY <1>8 DEF IsFields

(* What is under a domain: the record's names and values.                  *)
LEMMA UnderIsFields ==
  ASSUME NEW r, NEW d \in TagDomains
  PROVE  /\ IsFields(Under(d, r))
         /\ \A n \in DOMAIN r : <<d, n>> \in DOMAIN Under(d, r) /\ Under(d, r)[<<d, n>>] = r[n]
         /\ \A k \in DOMAIN Under(d, r) : k[1] = d /\ k[2] \in DOMAIN r
<1>1. DOMAIN Under(d, r) = {<<d, n>> : n \in DOMAIN r}
  BY DEF Under
<1>2. \A n \in DOMAIN r : <<d, n>>[1] = d /\ <<d, n>>[2] = n
  OBVIOUS
<1>3. Under(d, r) = [k \in {<<d, n>> : n \in DOMAIN r} |-> r[k[2]]]
  BY DEF Under
<1> QED BY <1>1, <1>2, <1>3 DEF IsFields

LEMMA OverIsFields ==
  ASSUME NEW f, NEW g
  PROVE  /\ DOMAIN Over(f, g) = DOMAIN f \cup DOMAIN g
         /\ IsRecord(Over(f, g))
         /\ IsFields(f) /\ IsFields(g) => IsFields(Over(f, g))
         /\ \A k \in DOMAIN g : Over(f, g)[k] = g[k]
         /\ \A k \in DOMAIN f \ DOMAIN g : Over(f, g)[k] = f[k]
BY DEF Over, IsFields, IsRecord

LEMMA NoFieldsIsFields == IsFields(NoFields) /\ DOMAIN NoFields = {}
BY DEF NoFields, IsFields

------------------------------------------------------------------------------
(* Cameras.                                                                *)

IsCamera(c) ==
  /\ c = [model |-> c.model, timestamp |-> c.timestamp, focal |-> c.focal,
          principal |-> c.principal, rotation |-> c.rotation, position |-> c.position,
          lens_kind |-> c.lens_kind, params |-> c.params]
  /\ {c.focal, c.principal, c.rotation, c.position} \subseteq Numbers
  /\ LensKindFromStr(c.lens_kind) = c.lens_kind
  /\ IsRecord(c.params)
  /\ \A n \in DOMAIN c.params : IsParam(n) /\ c.params[n] \in Numbers

(* The names and values under "camera" that a camera is written as.        *)
Always(c) == [model |-> c.model, focal |-> c.focal, principal |-> c.principal,
              rotation |-> c.rotation, position |-> c.position, lens_kind |-> c.lens_kind]
Stamp(c) == IF c.timestamp = "" THEN NoFields ELSE [timestamp |-> c.timestamp]
CameraRecord(c) == Over(Over(Always(c), Stamp(c)), c.params)

LEMMA CameraRecordNames ==
  ASSUME NEW c, IsCamera(c)
  PROVE  /\ DOMAIN CameraRecord(c) =
              {"model", "focal", "principal", "rotation", "position", "lens_kind"}
                \cup (IF c.timestamp = "" THEN {} ELSE {"timestamp"}) \cup DOMAIN c.params
         /\ CameraRecord(c)["model"] = c.model /\ CameraRecord(c)["focal"] = c.focal
         /\ CameraRecord(c)["principal"] = c.principal
         /\ CameraRecord(c)["rotation"] = c.rotation
         /\ CameraRecord(c)["position"] = c.position
         /\ CameraRecord(c)["lens_kind"] = c.lens_kind
         /\ c.timestamp # "" => CameraRecord(c)["timestamp"] = c.timestamp
         /\ \A n \in DOMAIN c.params : CameraRecord(c)[n] = c.params[n]
<1> DEFINE both == Over(Always(c), Stamp(c))
           A == {"model", "focal", "principal", "rotation", "position", "lens_kind"}
           T == IF c.timestamp = "" THEN {} ELSE {"timestamp"}
<1>1. /\ DOMAIN Always(c) = A
      /\ Always(c)["model"] = c.model /\ Always(c)["focal"] = c.focal
      /\ Always(c)["principal"] = c.principal /\ Always(c)["rotation"] = c.rotation
      /\ Always(c)["position"] = c.position /\ Always(c)["lens_kind"] = c.lens_kind
  BY DEF Always
<1>2. DOMAIN Stamp(c) = T /\ (c.timestamp # "" => Stamp(c)["timestamp"] = c.timestamp)
  BY NoFieldsIsFields DEF Stamp
<1>3. /\ DOMAIN both = A \cup T
      /\ \A n \in T : both[n] = Stamp(c)[n]
      /\ \A n \in A \ T : both[n] = Always(c)[n]
  <2>1. /\ DOMAIN both = DOMAIN Always(c) \cup DOMAIN Stamp(c)
        /\ \A n \in DOMAIN Stamp(c) : both[n] = Stamp(c)[n]
        /\ \A n \in DOMAIN Always(c) \ DOMAIN Stamp(c) : both[n] = Always(c)[n]
    BY OverIsFields
  <2> HIDE DEF A, T, both
  <2> QED BY <1>1, <1>2, <2>1
<1>4. \A n \in DOMAIN c.params : n \in {"lens.k1", "lens.k2"}
  BY DEF IsCamera, IsParam
<1>5. /\ DOMAIN CameraRecord(c) = DOMAIN both \cup DOMAIN c.params
      /\ \A n \in DOMAIN c.params : CameraRecord(c)[n] = c.params[n]
      /\ \A n \in DOMAIN both \ DOMAIN c.params : CameraRecord(c)[n] = both[n]
  <2>1. CameraRecord(c) = Over(both, c.params)
    BY DEF CameraRecord
  <2> HIDE DEF both
  <2>2. /\ DOMAIN Over(both, c.params) = DOMAIN both \cup DOMAIN c.params
        /\ \A n \in DOMAIN c.params : Over(both, c.params)[n] = c.params[n]
        /\ \A n \in DOMAIN both \ DOMAIN c.params : Over(both, c.params)[n] = both[n]
    BY DEF Over
  <2> QED BY ONLY <2>1, <2>2
<1> HIDE DEF both
<1>6. \A n \in A : n \notin T /\ n \notin DOMAIN c.params
  BY <1>4
<1>7. \A n \in A : CameraRecord(c)[n] = Always(c)[n]
  <2> HIDE DEF A, T
  <2> QED BY <1>3, <1>5, <1>6
<1>8. c.timestamp # "" => CameraRecord(c)["timestamp"] = c.timestamp
  <2> SUFFICES ASSUME c.timestamp # "" PROVE CameraRecord(c)["timestamp"] = c.timestamp
    OBVIOUS
  <2>1. "timestamp" \in T /\ "timestamp" \notin DOMAIN c.params
    BY <1>4
  <2>2. "timestamp" \in DOMAIN both /\ both["timestamp"] = Stamp(c)["timestamp"]
    BY <1>3, <2>1
  <2> QED BY <1>2, <1>5, <2>1, <2>2
<1> QED BY <1>1, <1>3, <1>5, <1>7, <1>8

LEMMA CameraBack ==
  ASSUME NEW c, IsCamera(c), NEW f,
         Names(f, "camera") = DOMAIN CameraRecord(c),
         \A n \in DOMAIN CameraRecord(c) : f[<<"camera", n>>] = CameraRecord(c)[n]
  PROVE  CameraFromModel(f) = c
<1> DEFINE N == Names(f, "camera")
           at(n, default) == IF n \in N THEN f[<<"camera", n>>] ELSE default
           wrong(n) == n \in N /\ at(n, Absent) \notin Numbers
           posed == "rotation" \in N /\ "position" \in N
           params == {n \in N : IsParam(n) /\ ~wrong(n)}
<1>1. /\ {"model", "focal", "principal", "rotation", "position", "lens_kind"} \subseteq N
      /\ at("model", Absent) = c.model /\ at("focal", Absent) = c.focal
      /\ at("principal", Absent) = c.principal /\ at("rotation", Absent) = c.rotation
      /\ at("position", Absent) = c.position /\ at("lens_kind", "pinhole") = c.lens_kind
      /\ \A n \in DOMAIN c.params : n \in N /\ at(n, Absent) = c.params[n]
  BY CameraRecordNames
<1>2. at("timestamp", "") = c.timestamp
  <2>1. CASE c.timestamp = ""
    <3>1. "timestamp" \notin DOMAIN c.params
      BY DEF IsCamera, IsParam
    <3>2. "timestamp" \notin N
      BY <2>1, <3>1, CameraRecordNames
    <3> QED BY <2>1, <3>2
  <2>2. CASE c.timestamp # ""
    <3>1. "timestamp" \in N /\ f[<<"camera", "timestamp">>] = c.timestamp
      BY <2>2, CameraRecordNames
    <3> QED BY <3>1
  <2> QED BY <2>1, <2>2
<1>3. params = DOMAIN c.params
  <2>1. \A n \in N : IsParam(n) => n \in DOMAIN c.params
    BY CameraRecordNames DEF IsParam
  <2>2. \A n \in DOMAIN c.params : IsParam(n) /\ ~wrong(n) /\ n \in N
    BY <1>1 DEF IsCamera
  <2> QED BY <2>1, <2>2
<1>4. [n \in params |-> at(n, Absent)] = c.params
  <2>1. [n \in params |-> at(n, Absent)] = [n \in DOMAIN c.params |-> c.params[n]]
    <3> HIDE DEF params, at
    <3> QED BY <1>1, <1>3
  <2> QED BY <2>1 DEF IsCamera, IsRecord
<1>5. ~wrong("focal") /\ ~wrong("principal") /\ ~wrong("rotation") /\ ~wrong("position") /\ posed
  BY <1>1 DEF IsCamera
<1>6. CameraFromModel(f) =
        [model |-> at("model", Absent), timestamp |-> at("timestamp", ""),
         focal |-> at("focal", Absent), principal |-> at("principal", Absent),
         rotation |-> at("rotation", Absent), position |-> at("position", Absent),
         lens_kind |-> LensKindFromStr(at("lens_kind", "pinhole")),
         params |-> [n \in params |-> at(n, Absent)]]
  BY <1>1, <1>5 DEF CameraFromModel
<1> QED BY <1>1, <1>2, <1>4, <1>6 DEF IsCamera

(* Whatever the fields, a camera made of them is one that can be written.  *)
LEMMA CameraShape ==
  ASSUME NEW f, CameraFromModel(f) \notin {Absent, Malformed}
  PROVE  IsCamera(CameraFromModel(f))
<1> DEFINE N == Names(f, "camera")
           at(n, default) == IF n \in N THEN f[<<"camera", n>>] ELSE default
           wrong(n) == n \in N /\ at(n, Absent) \notin Numbers
           posed == "rotation" \in N /\ "position" \in N
           params == {n \in N : IsParam(n) /\ ~wrong(n)}
           rotation == IF posed THEN at("rotation", Absent) ELSE Identity
           position == IF posed THEN at("position", Absent) ELSE Identity
           lens_kind == LensKindFromStr(at("lens_kind", "pinhole"))
           c == CameraFromModel(f)
<1>1. /\ c = [model |-> at("model", Absent), timestamp |-> at("timestamp", ""),
             focal |-> at("focal", Absent), principal |-> at("principal", Absent),
             rotation |-> rotation, position |-> position, lens_kind |-> lens_kind,
             params |-> [n \in params |-> at(n, Absent)]]
      /\ {"focal", "principal"} \subseteq N
      /\ ~wrong("focal") /\ ~wrong("principal")
      /\ posed => ~wrong("rotation") /\ ~wrong("position")
  BY DEF CameraFromModel
<1>2. {at("focal", Absent), at("principal", Absent), rotation, position} \subseteq Numbers
  BY <1>1, ValuesAssumption
<1>3. LensKindFromStr(lens_kind) = lens_kind
  BY DEF LensKindFromStr
<1>4. \A n \in params : IsParam(n) /\ at(n, Absent) \in Numbers
  OBVIOUS
<1> HIDE DEF at, rotation, position, lens_kind, params, c
<1>5. /\ c.model = at("model", Absent) /\ c.timestamp = at("timestamp", "")
      /\ c.focal = at("focal", Absent) /\ c.principal = at("principal", Absent)
      /\ c.rotation = rotation /\ c.position = position /\ c.lens_kind = lens_kind
      /\ c.params = [n \in params |-> at(n, Absent)]
  BY <1>1
<1>6. IsRecord(c.params) /\ (\A n \in DOMAIN c.params : IsParam(n) /\ c.params[n] \in Numbers)
  BY <1>4, <1>5 DEF IsRecord
<1>7. IsCamera(c)
  BY <1>1, <1>2, <1>3, <1>5, <1>6 DEF IsCamera
<1> QED BY <1>7 DEF c

------------------------------------------------------------------------------
(* Reference systems. Their frame is a known one, or follows from the body.*)

IsCrs(s) ==
  /\ s.projection \in Projections
  /\ EffectiveFrame(s) \in KnownFrames \/ EffectiveFrame(s) = FrameOr(s.body, "UNSPECIFIED")

CrsNames == {"body", "projection", "reference_frame"}

LEMMA CrsShape ==
  ASSUME NEW f, CrsFromModel(f) \notin {Absent, Malformed}
  PROVE  IsCrs(CrsFromModel(f))
<1> DEFINE N == Names(f, "crs")
           at(n, default) == IF n \in N THEN f[<<"crs", n>>] ELSE default
           body == at("body", Absent)
           frame == FrameFromId(at("reference_frame", Absent))
           s == CrsFromModel(f)
<1>1. \A id : FrameFromId(id) \in KnownFrames \cup {Absent}
  BY DEF FrameFromId
<1>2. CASE "body" \in N
  <2>1. s = [body |-> body, projection |-> at("projection", "equirectangular"),
             reference_frame |-> IF frame # Absent THEN frame ELSE FrameOr(body, "UNSPECIFIED"),
             override |-> frame]
        /\ at("projection", "equirectangular") \in Projections
    BY <1>2 DEF CrsFromModel, CrsFromRegisteredSchema
  <2> HIDE DEF s, frame, body, at
  <2>2. /\ s.body = body /\ s.projection = at("projection", "equirectangular")
        /\ s.override = frame
        /\ frame = Absent => s.reference_frame = FrameOr(body, "UNSPECIFIED")
    BY <2>1
  <2>3. frame \in KnownFrames \cup {Absent}
    BY <1>1 DEF frame
  <2>4. IsCrs(s)
    BY <2>1, <2>2, <2>3 DEF IsCrs, EffectiveFrame
  <2> QED BY <2>4 DEF s
<1>3. CASE "body" \notin N
  <2> DEFINE other == IF "frame" \in N THEN FrameFromId(f[<<"crs", "frame">>]) ELSE Absent
             id == f[<<"crs", "planet_iau_id">>]
  <2>1. s = [body |-> id, projection |-> f[<<"crs", "projection">>],
             reference_frame |-> FrameOr(id, "UNSPECIFIED"), override |-> other]
        /\ f[<<"crs", "projection">>] \in Projections
    BY <1>3 DEF CrsFromModel
  <2>2. other \in KnownFrames \cup {Absent}
    BY <1>1
  <2> HIDE DEF s, other, id
  <2>3. /\ s.body = id /\ s.projection = f[<<"crs", "projection">>]
        /\ s.override = other /\ s.reference_frame = FrameOr(id, "UNSPECIFIED")
    BY <2>1
  <2>4. IsCrs(s)
    BY <2>1, <2>2, <2>3 DEF IsCrs, EffectiveFrame
  <2> QED BY <2>4 DEF s
<1> QED BY <1>2, <1>3

(* Written and read again a reference system has the same body, projection *)
(* and frame, so it is written the same.                                   *)
LEMMA CrsBack ==
  ASSUME Apart, NEW s, IsCrs(s), NEW f, Names(f, "crs") = CrsNames,
         f[<<"crs", "body">>] = s.body, f[<<"crs", "projection">>] = s.projection,
         f[<<"crs", "reference_frame">>] = EffectiveFrame(s)
  PROVE  /\ CrsFromModel(f) \notin {Absent, Malformed}
         /\ CrsFields(CrsFromModel(f)) = CrsFields(s)
<1> DEFINE frame == FrameFromId(EffectiveFrame(s))
           held_frame == IF frame # Absent THEN frame ELSE FrameOr(s.body, "UNSPECIFIED")
           back == CrsFromModel(f)
<1>1. back = [body |-> s.body, projection |-> s.projection,
              reference_frame |-> held_frame, override |-> frame]
  BY DEF CrsFromModel, CrsFromRegisteredSchema, CrsNames, IsCrs
<1>2. held_frame = EffectiveFrame(s) /\ (frame = Absent \/ frame = EffectiveFrame(s))
  BY ValuesAssumption DEF IsCrs, FrameFromId, FrameOr
<1> HIDE DEF frame, held_frame, back
<1>3. back \notin {Absent, Malformed}
  BY <1>1 DEF Apart
<1>4. /\ back.body = s.body /\ back.projection = s.projection
      /\ back.reference_frame = held_frame /\ back.override = frame
  BY <1>1
<1>5. EffectiveFrame(back) = EffectiveFrame(s)
  BY <1>2, <1>4 DEF EffectiveFrame
<1>6. CrsFields(back) = CrsFields(s)
  BY <1>4, <1>5 DEF CrsFields
<1> QED BY <1>3, <1>6 DEF back

------------------------------------------------------------------------------
(* What is written of a camera and a reference system.                     *)

CameraPart(c) == IF c = Absent THEN NoFields ELSE CameraFields(c)
CrsPart(s) == IF s = Absent THEN NoFields ELSE CrsFields(s)
WrittenFields(c, s) == Over(Over(CameraPart(c), CrsPart(s)), NoFields)
Extensions(c, s) == [camera |-> c, crs |-> s, metadata |-> NoFields]

LEMMA InNames ==
  ASSUME NEW f, NEW d, NEW n, <<d, n>> \in DOMAIN f
  PROVE  n \in Names(f, d)
<1>1. PICK k : k = <<d, n>>
  OBVIOUS
<1>2. k \in {j \in DOMAIN f : j[1] = d} /\ n = k[2]
  BY <1>1
<1> QED BY <1>2 DEF Names

LEMMA WrittenNames ==
  ASSUME NEW c, NEW s
  PROVE  /\ IsFields(WrittenFields(c, s))
         /\ Names(WrittenFields(c, s), "camera") =
              IF c = Absent THEN {} ELSE DOMAIN CameraRecord(c)
         /\ Names(WrittenFields(c, s), "crs") = IF s = Absent THEN {} ELSE CrsNames
         /\ c # Absent => \A n \in DOMAIN CameraRecord(c) :
              WrittenFields(c, s)[<<"camera", n>>] = CameraRecord(c)[n]
         /\ s # Absent =>
              /\ WrittenFields(c, s)[<<"crs", "body">>] = s.body
              /\ WrittenFields(c, s)[<<"crs", "projection">>] = s.projection
              /\ WrittenFields(c, s)[<<"crs", "reference_frame">>] = EffectiveFrame(s)
<1> DEFINE A == CameraPart(c)
           Z == CrsPart(s)
           f == WrittenFields(c, s)
           r == [body |-> s.body, projection |-> s.projection,
                 reference_frame |-> EffectiveFrame(s)]
<1>1. CameraFields(c) = Under("camera", CameraRecord(c)) /\ CrsFields(s) = Under("crs", r)
  BY DEF CameraFields, CrsFields, CameraRecord, Always, Stamp
<1>2. /\ DOMAIN r = CrsNames /\ r["body"] = s.body /\ r["projection"] = s.projection
      /\ r["reference_frame"] = EffectiveFrame(s)
  BY DEF CrsNames
<1> HIDE DEF r
<1>3. "camera" \in TagDomains /\ "crs" \in TagDomains
  BY DEF TagDomains
<1>4. /\ IsFields(A)
      /\ \A k \in DOMAIN A : c # Absent /\ k[1] = "camera" /\ k[2] \in DOMAIN CameraRecord(c)
      /\ c # Absent => \A n \in DOMAIN CameraRecord(c) :
           <<"camera", n>> \in DOMAIN A /\ A[<<"camera", n>>] = CameraRecord(c)[n]
  BY <1>1, <1>3, UnderIsFields, NoFieldsIsFields DEF CameraPart
<1>5. /\ IsFields(Z)
      /\ \A k \in DOMAIN Z : s # Absent /\ k[1] = "crs" /\ k[2] \in CrsNames
      /\ s # Absent => \A n \in CrsNames : <<"crs", n>> \in DOMAIN Z /\ Z[<<"crs", n>>] = r[n]
  BY <1>1, <1>2, <1>3, UnderIsFields, NoFieldsIsFields DEF CrsPart
<1>6. f = Over(Over(A, Z), NoFields)
  BY DEF WrittenFields
<1> HIDE DEF A, Z, f
<1>7. /\ IsFields(f) /\ DOMAIN f = DOMAIN A \cup DOMAIN Z
      /\ \A k \in DOMAIN Z : f[k] = Z[k]
      /\ \A k \in DOMAIN A \ DOMAIN Z : f[k] = A[k]
  BY <1>4, <1>5, <1>6, NoFieldsIsFields DEF Over, IsFields
<1>8. \A k \in DOMAIN A : k \notin DOMAIN Z
  BY <1>4, <1>5
<1>9. Names(f, "camera") = IF c = Absent THEN {} ELSE DOMAIN CameraRecord(c)
  <2>1. \A n \in Names(f, "camera") : c # Absent /\ n \in DOMAIN CameraRecord(c)
    BY <1>4, <1>5, <1>7 DEF Names
  <2>2. ASSUME c # Absent, NEW n \in DOMAIN CameraRecord(c) PROVE n \in Names(f, "camera")
    BY <1>4, <1>7, <2>2, InNames
  <2> QED BY <2>1, <2>2
<1>10. Names(f, "crs") = IF s = Absent THEN {} ELSE CrsNames
  <2>1. \A n \in Names(f, "crs") : s # Absent /\ n \in CrsNames
    BY <1>4, <1>5, <1>7 DEF Names
  <2>2. ASSUME s # Absent, NEW n \in CrsNames PROVE n \in Names(f, "crs")
    BY <1>5, <1>7, <2>2, InNames
  <2> QED BY <2>1, <2>2
<1>11. c # Absent => \A n \in DOMAIN CameraRecord(c) : f[<<"camera", n>>] = CameraRecord(c)[n]
  BY <1>4, <1>7, <1>8
<1>12. s # Absent => \A n \in CrsNames : f[<<"crs", n>>] = r[n]
  BY <1>5, <1>7
<1>13. {"body", "projection", "reference_frame"} \subseteq CrsNames
  BY DEF CrsNames
<1> QED BY <1>2, <1>7, <1>9, <1>10, <1>11, <1>12, <1>13 DEF f

(* What was written of a camera and a reference system is read, and is     *)
(* written the same again.                                                 *)
LEMMA ExtensionsKept ==
  ASSUME Apart, NEW c, c = Absent \/ IsCamera(c), NEW s, s = Absent \/ IsCrs(s),
         NEW tags, tags = WriteExtensions(Extensions(c, s))
  PROVE  /\ Readable(tags)
         /\ ReadExtensions(tags).camera = c
         /\ WriteExtensions(ExtensionsOf(tags)) = tags
         /\ DOMAIN tags \subseteq TagDomains
<1> DEFINE f == WrittenFields(c, s)
           back == CrsFromModel(f)
<1>1. tags = TagsOfFields(f)
  BY DEF WriteExtensions, Extensions, WrittenFields, CameraPart, CrsPart
<1>2. FieldsOfTags(tags) = f
  BY <1>1, TagsKeep, WrittenNames
<1>3. CameraFromModel(f) = c
  <2>1. CASE c = Absent
    <3>1. Names(f, "camera") = {}
      BY <2>1, WrittenNames
    <3> QED BY <2>1, <3>1 DEF CameraFromModel
  <2>2. CASE c # Absent
    BY <2>2, WrittenNames, CameraBack
  <2> QED BY <2>1, <2>2
<1>4. c # Malformed
  BY ValuesAssumption DEF Apart, IsCamera
<1>5. /\ back # Malformed
      /\ s = Absent => back = Absent
      /\ s # Absent => back # Absent /\ CrsFields(back) = CrsFields(s)
  <2>1. CASE s = Absent
    <3>1. Names(f, "crs") = {}
      BY <2>1, WrittenNames
    <3>2. back = Absent
      BY <3>1 DEF CrsFromModel
    <3> QED BY <2>1, <3>2, ValuesAssumption
  <2>2. CASE s # Absent
    <3>1. back \notin {Absent, Malformed} /\ CrsFields(back) = CrsFields(s)
      <4> HIDE DEF f, back
      <4>1. /\ Names(f, "crs") = CrsNames
            /\ f[<<"crs", "body">>] = s.body /\ f[<<"crs", "projection">>] = s.projection
            /\ f[<<"crs", "reference_frame">>] = EffectiveFrame(s)
        BY <2>2, WrittenNames DEF f
      <4> QED BY <2>2, <4>1, CrsBack DEF back
    <3> QED BY <2>2, <3>1
  <2> QED BY <2>1, <2>2
<1>6. Readable(tags)
  BY <1>2, <1>3, <1>4, <1>5 DEF Readable
<1>7. ReadExtensions(tags) = [camera |-> c, crs |-> back, metadata |-> MetadataOf(f, c, back)]
  BY <1>2, <1>3 DEF ReadExtensions
<1> HIDE DEF f, back
<1>8. ExtensionsOf(tags) = Extensions(c, back)
  BY <1>7 DEF ExtensionsOf, Extensions
<1>9. WriteExtensions(Extensions(c, back)) = TagsOfFields(WrittenFields(c, back))
  BY DEF WriteExtensions, Extensions, WrittenFields, CameraPart, CrsPart
<1>10. WrittenFields(c, back) = WrittenFields(c, s)
  BY <1>5 DEF WrittenFields, CrsPart
<1>11. DOMAIN tags \subseteq TagDomains
  BY <1>1 DEF TagsOfFields
<1> QED BY <1>1, <1>6, <1>7, <1>8, <1>9, <1>10, <1>11 DEF f

(* What any readable tags hold of a camera and a reference system can be   *)
(* written: the tags of a copy.                                            *)
LEMMA ExtensionsRead ==
  ASSUME NEW tags, Readable(tags),
         NEW c, c = ReadExtensions(tags).camera, NEW s, s = ReadExtensions(tags).crs
  PROVE  /\ c = Absent \/ IsCamera(c)
         /\ s = Absent \/ IsCrs(s)
         /\ ExtensionsOf(tags) = Extensions(c, s)
<1> DEFINE f == FieldsOfTags(tags)
<1>1. ReadExtensions(tags) = [camera |-> CameraFromModel(f), crs |-> CrsFromModel(f),
                              metadata |-> MetadataOf(f, CameraFromModel(f), CrsFromModel(f))]
  BY DEF ReadExtensions
<1>2. c = CameraFromModel(f) /\ s = CrsFromModel(f) /\ c # Malformed /\ s # Malformed
  BY <1>1 DEF Readable
<1> HIDE DEF f
<1>3. ExtensionsOf(tags) = Extensions(c, s)
  BY <1>1, <1>2 DEF ExtensionsOf, Extensions
<1> QED BY <1>2, <1>3, CameraShape, CrsShape

(* Every job a caller gives can be written.                                *)
Writable == \A j \in Jobs : CanWrite(j.desc)

(* Every camera a caller gives has intrinsics, has a pose other than the   *)
(* identity exactly when it says so, and a known kind of lens if any.      *)
Outspoken ==
  \A j \in Jobs : j.camera # Absent =>
    /\ j.camera.has_intrinsics = TRUE /\ j.camera.has_lens \in BOOLEAN
    /\ j.camera.has_extrinsics =
         ~(j.camera.rotation = Identity /\ j.camera.position = Identity)
    /\ j.camera.has_lens => LensKindFromStr(j.camera.lens_kind) = j.camera.lens_kind

(* Every file of another program is of a codec in this build.              *)
AllBuilt == \A f \in ForeignFiles : f.desc.compression \in Built

LEMMA JobCamera ==
  ASSUME NEW j \in Jobs, j.camera # Absent
  PROVE  IsCamera(CameraFromC(j.camera))
<1> DEFINE g == j.camera
           c == CameraFromC(g)
           lens_kind == IF g.has_lens THEN LensKindFromStr(g.lens_kind) ELSE "pinhole"
<1>1. c = [model |-> "pinhole", timestamp |-> g.timestamp, focal |-> g.focal,
           principal |-> g.principal, rotation |-> g.rotation, position |-> g.position,
           lens_kind |-> lens_kind, params |-> g.params]
  BY DEF CameraFromC
<1>2. LensKindFromStr(lens_kind) = lens_kind
  BY DEF LensKindFromStr
<1>3. /\ {g.focal, g.principal, g.rotation, g.position} \subseteq Numbers
      /\ IsRecord(g.params) /\ \A n \in DOMAIN g.params : IsParam(n) /\ g.params[n] \in Numbers
  BY JobsAssumption DEF IsRecord, IsParam
<1> HIDE DEF g, c, lens_kind
<1>4. IsCamera(c)
  BY <1>1, <1>2, <1>3 DEF IsCamera
<1> QED BY <1>4 DEF c, g

(* C sees of the camera that was made the one that was given.              *)
LEMMA JobCalibration ==
  ASSUME Apart, Outspoken, NEW j \in Jobs, j.camera # Absent
  PROVE  Calibration(CameraView(CameraFromC(j.camera))) = Calibration(j.camera)
<1> DEFINE g == j.camera
           c == CameraFromC(g)
           v == CameraToC(c)
           lens_kind == IF g.has_lens THEN LensKindFromStr(g.lens_kind) ELSE "pinhole"
<1>1. /\ c = [model |-> "pinhole", timestamp |-> g.timestamp, focal |-> g.focal,
              principal |-> g.principal, rotation |-> g.rotation, position |-> g.position,
              lens_kind |-> lens_kind, params |-> g.params]
      /\ c # Absent
  BY DEF CameraFromC, Apart
<1>2. /\ g.has_intrinsics = TRUE /\ g.has_lens \in BOOLEAN
      /\ g.has_extrinsics = ~(g.rotation = Identity /\ g.position = Identity)
      /\ lens_kind = IF g.has_lens THEN g.lens_kind ELSE "pinhole"
  BY DEF Outspoken
<1>3. v = [has_intrinsics |-> TRUE,
           has_extrinsics |-> ~(c.rotation = Identity /\ c.position = Identity),
           has_lens |-> TRUE, timestamp |-> c.timestamp, focal |-> c.focal,
           principal |-> c.principal, rotation |-> c.rotation, position |-> c.position,
           lens_kind |-> c.lens_kind, params |-> c.params]
  BY DEF CameraToC
<1> HIDE DEF c, v, lens_kind
<1>4. /\ c.timestamp = g.timestamp /\ c.focal = g.focal /\ c.principal = g.principal
      /\ c.rotation = g.rotation /\ c.position = g.position
      /\ c.lens_kind = lens_kind /\ c.params = g.params
  BY <1>1
<1>5. /\ v.has_intrinsics = TRUE /\ v.has_lens = TRUE
      /\ v.has_extrinsics = ~(c.rotation = Identity /\ c.position = Identity)
      /\ v.timestamp = c.timestamp /\ v.focal = c.focal /\ v.principal = c.principal
      /\ v.rotation = c.rotation /\ v.position = c.position
      /\ v.lens_kind = c.lens_kind /\ v.params = c.params
      /\ v # Absent
  BY <1>3 DEF Apart
<1>6. v.has_extrinsics = g.has_extrinsics
  BY <1>2, <1>4, <1>5
<1>7. Calibration(v) = Calibration(g)
  <2>1. /\ (IF v.has_intrinsics THEN <<v.focal, v.principal>> ELSE Absent)
             = (IF g.has_intrinsics THEN <<g.focal, g.principal>> ELSE Absent)
        /\ (IF v.has_extrinsics THEN <<v.rotation, v.position>> ELSE Absent)
             = (IF g.has_extrinsics THEN <<g.rotation, g.position>> ELSE Absent)
        /\ (IF v.has_lens THEN v.lens_kind ELSE "pinhole")
             = (IF g.has_lens THEN g.lens_kind ELSE "pinhole")
        /\ v.params = g.params /\ v.timestamp = g.timestamp
    <3> HIDE DEF g
    <3> QED BY <1>2, <1>4, <1>5, <1>6
  <2> HIDE DEF g
  <2> QED BY <1>5, <2>1 DEF Calibration, g
<1> QED BY <1>1, <1>7 DEF CameraView, c, v, g

------------------------------------------------------------------------------
(* Places of tiles.                                                        *)

IsDesc(d) ==
  /\ {"columns", "rows", "compression"} \subseteq DOMAIN d
  /\ d.columns \in Nat /\ d.rows \in Nat

LEMMA RowsFollow ==
  ASSUME NEW c \in Nat, NEW a \in Nat, NEW b \in Nat, a < b
  PROVE  a * c + c <= b * c
<1>1. PICK k \in Nat : b = (a + 1) + k
  <2>1. b - (a + 1) \in Nat /\ b = (a + 1) + (b - (a + 1))
    OBVIOUS
  <2> QED BY <2>1
<1>2. b * c = a * c + c + k * c
  BY <1>1
<1>3. k * c \in Nat /\ a * c \in Nat
  OBVIOUS
<1> QED BY <1>2, <1>3

LEMMA PlaceInGrid ==
  ASSUME NEW d, IsDesc(d), NEW t \in Cells(d)
  PROVE  Place(d, t) \in 1 .. Size(d)
<1>1. /\ d.columns \in Nat /\ d.rows \in Nat /\ t[1] \in Nat /\ t[2] \in Nat
      /\ t[1] < d.columns /\ t[2] < d.rows
  BY DEF IsDesc, Cells
<1>2. t[2] * d.columns + d.columns <= d.rows * d.columns /\ t[2] * d.columns \in Nat
  BY <1>1, RowsFollow
<1>3. d.rows * d.columns = d.columns * d.rows
  BY <1>1
<1> QED BY <1>1, <1>2, <1>3 DEF Place, Size

LEMMA PlacesApart ==
  ASSUME NEW d, IsDesc(d), NEW t \in Cells(d), NEW u \in Cells(d), Place(d, t) = Place(d, u)
  PROVE  t = u
<1>1. /\ d.columns \in Nat /\ t[1] \in Nat /\ t[2] \in Nat /\ u[1] \in Nat /\ u[2] \in Nat
      /\ t[1] < d.columns /\ u[1] < d.columns /\ t = <<t[1], t[2]>> /\ u = <<u[1], u[2]>>
  BY DEF IsDesc, Cells
<1>2. t[2] * d.columns \in Nat /\ u[2] * d.columns \in Nat
  BY <1>1
<1>3. t[2] * d.columns + t[1] = u[2] * d.columns + u[1]
  BY <1>1, <1>2 DEF Place
<1>4. ~(t[2] < u[2])
  <2> SUFFICES ASSUME t[2] < u[2] PROVE FALSE
    OBVIOUS
  <2>1. t[2] * d.columns + d.columns <= u[2] * d.columns
    BY <1>1, RowsFollow
  <2> QED BY <1>1, <1>2, <1>3, <2>1
<1>5. ~(u[2] < t[2])
  <2> SUFFICES ASSUME u[2] < t[2] PROVE FALSE
    OBVIOUS
  <2>1. u[2] * d.columns + d.columns <= t[2] * d.columns
    BY <1>1, RowsFollow
  <2> QED BY <1>1, <1>2, <1>3, <2>1
<1>6. t[2] = u[2]
  BY <1>1, <1>4, <1>5
<1>7. t[1] = u[1]
  <2>1. t[2] * d.columns = u[2] * d.columns
    BY <1>6
  <2> QED BY ONLY <1>1, <1>2, <1>3, <2>1
<1> QED BY <1>1, <1>6, <1>7

------------------------------------------------------------------------------
(* The inductive invariant.                                                *)

GoodFile(f) ==
  /\ IsDesc(f.desc)
  /\ f.tiles \in Seq(Contents) /\ f.have \in Int /\ f.have <= Len(f.tiles)
  /\ DOMAIN f.tags \subseteq TagDomains
  /\ AllBuilt => f.desc.compression \in Built

(* What is promised of a file is found in it.                              *)
Fulfilled(f, promise) ==
  promise # Unknown =>
    /\ Found(f, promise)
    /\ DOMAIN promise.tiles = Cells(f.desc)
    /\ Outspoken /\ OpenError(f) = "None" =>
         Calibration(CameraOf(f)) = Calibration(promise.camera)

(* A copy has the tags that a copy of it would have.                       *)
Steady(f, promise) ==
  promise # Unknown /\ promise.copied => WriteExtensions(ExtensionsOf(f.tags)) = f.tags

Kept(f, promise) == Steady(f, promise) /\ (Writable => Fulfilled(f, promise))

(* A sink's raster holds at each place what was accepted for its cell.     *)
GoodSink(k) ==
  /\ k = [path |-> k.path, desc |-> k.desc, camera |-> k.camera, given |-> k.given,
          raster |-> k.raster, accepted |-> k.accepted, written |-> k.written]
  /\ k.path \in Paths /\ IsDesc(k.desc) /\ (Writable => CanWrite(k.desc))
  /\ k.camera = Absent \/ IsCamera(k.camera)
  /\ Outspoken => Calibration(CameraView(k.camera)) = Calibration(k.given)
  /\ k.raster \in [1 .. Size(k.desc) -> Contents]
  /\ k.accepted \in [Cells(k.desc) -> Contents]
  /\ \A t \in Cells(k.desc) : k.raster[Place(k.desc, t)] = k.accepted[t]

DiskInv ==
  /\ disk = [p \in Paths |-> disk[p]] /\ expected = [p \in Paths |-> expected[p]]
  /\ \A p \in Paths : disk[p] # NoFile => GoodFile(disk[p])
  /\ \A p \in Paths : Kept(disk[p], expected[p])

SinksInv ==
  /\ sinks = [s \in Sinks |-> sinks[s]]
  /\ \A s \in Sinks : sinks[s] # Null => GoodSink(sinks[s])

SourceInv ==
  source # Null =>
    /\ GoodFile(source.file) /\ OpenError(source.file) = "None"
    /\ Writable => Fulfilled(source.file, source.promised)

(* What the last read returned is what its source has for the cell.        *)
GotInv ==
  got # Unknown =>
    /\ source # Null
    /\ AllBuilt => (got.rc = 0 <=> got.tile # Unknown)
    /\ Writable /\ source.promised # Unknown =>
         /\ got.tile # Unknown => got.tile = source.promised.tiles[got.cell]
         /\ source.promised.whole /\ got.fits /\ got.cell \in DOMAIN source.promised.tiles =>
              got.tile # Unknown

HeldInv ==
  /\ held = [names |-> held.names, fields |-> held.fields] /\ held.names \in BOOLEAN
  /\ held.fields # Null => \A k \in DOMAIN held.fields : k[1] \in TagDomains

CountInv == files \in 0 .. MaxFiles /\ faults \in 0 .. MaxFaults /\ Holds <= MaxHeld

Inv == DiskInv /\ SinksInv /\ SourceInv /\ GotInv /\ HeldInv /\ CountInv /\ HeapOwned

------------------------------------------------------------------------------
(* What a caller holds, counted and in memory.                             *)

HeldSinks == {s \in Sinks : sinks[s] # Null}
HeldThings ==
  {x \in {"source", "names", "fields"} :
      \/ x = "source" /\ source # Null
      \/ x = "names" /\ held.names
      \/ x = "fields" /\ held.fields # Null}

LEMMA ThreeThings == IsFiniteSet({"source", "names", "fields"})
<1>1. IsFiniteSet({"source"})
  BY FS_Singleton
<1>2. IsFiniteSet({"source"} \cup {"names"})
  BY <1>1, FS_AddElement
<1>3. IsFiniteSet(({"source"} \cup {"names"}) \cup {"fields"})
  BY <1>2, FS_AddElement
<1>4. ({"source"} \cup {"names"}) \cup {"fields"} = {"source", "names", "fields"}
  OBVIOUS
<1> QED BY <1>3, <1>4

LEMMA Counted ==
  /\ Holds = Cardinality(HeldSinks) + Cardinality(HeldThings)
  /\ IsFiniteSet(HeldSinks) /\ Cardinality(HeldSinks) \in Nat
  /\ IsFiniteSet(HeldThings) /\ Cardinality(HeldThings) \in Nat
<1>1. HeldSinks \subseteq Sinks /\ HeldThings \subseteq {"source", "names", "fields"}
  BY DEF HeldSinks, HeldThings
<1>2. IsFiniteSet(HeldSinks) /\ IsFiniteSet(HeldThings)
  BY <1>1, ThreeThings, HandleAssumption, FS_Subset
<1> QED BY <1>2, FS_CardinalityType DEF Holds, HeldSinks, HeldThings

LEMMA CountedNext ==
  /\ Holds' = Cardinality(HeldSinks') + Cardinality(HeldThings')
  /\ IsFiniteSet(HeldSinks') /\ Cardinality(HeldSinks') \in Nat
  /\ IsFiniteSet(HeldThings') /\ Cardinality(HeldThings') \in Nat
<1>1. HeldSinks' \subseteq Sinks /\ HeldThings' \subseteq {"source", "names", "fields"}
  BY DEF HeldSinks, HeldThings
<1>2. IsFiniteSet(HeldSinks') /\ IsFiniteSet(HeldThings')
  BY <1>1, ThreeThings, HandleAssumption, FS_Subset
<1> QED BY <1>2, FS_CardinalityType DEF Holds, HeldSinks, HeldThings

LEMMA NoMore ==
  ASSUME HeldSinks' \subseteq HeldSinks, HeldThings' \subseteq HeldThings
  PROVE  Holds' <= Holds
<1>1. Cardinality(HeldSinks') <= Cardinality(HeldSinks)
      /\ Cardinality(HeldThings') <= Cardinality(HeldThings)
  BY Counted, FS_Subset
<1> QED BY <1>1, Counted, CountedNext

LEMMA AddOne ==
  ASSUME NEW S, IsFiniteSet(S), NEW x
  PROVE  /\ IsFiniteSet(S \cup {x}) /\ Cardinality(S \cup {x}) <= Cardinality(S) + 1
         /\ Cardinality(S \cup {x}) \in Nat
<1>1. IsFiniteSet(S \cup {x}) /\ Cardinality(S) \in Nat
  BY FS_AddElement, FS_CardinalityType
<1>2. Cardinality(S \cup {x}) = Cardinality(S) \/ Cardinality(S \cup {x}) = Cardinality(S) + 1
  BY FS_AddElement
<1> QED BY <1>1, <1>2

LEMMA OneSinkMore ==
  ASSUME NEW s, HeldSinks' \subseteq HeldSinks \cup {s}, HeldThings' \subseteq HeldThings,
         CountInv, Holds < MaxHeld
  PROVE  Holds' <= MaxHeld
<1>1. IsFiniteSet(HeldSinks \cup {s}) /\ Cardinality(HeldSinks \cup {s}) <= Cardinality(HeldSinks) + 1
      /\ Cardinality(HeldSinks \cup {s}) \in Nat
  BY Counted, AddOne
<1>2. Cardinality(HeldSinks') <= Cardinality(HeldSinks \cup {s})
      /\ Cardinality(HeldThings') <= Cardinality(HeldThings)
  BY <1>1, Counted, FS_Subset
<1> QED BY <1>1, <1>2, Counted, CountedNext, HandleAssumption

LEMMA OneThingMore ==
  ASSUME NEW x, HeldSinks' \subseteq HeldSinks, HeldThings' \subseteq HeldThings \cup {x},
         CountInv, Holds < MaxHeld
  PROVE  Holds' <= MaxHeld
<1>1. IsFiniteSet(HeldThings \cup {x}) /\ Cardinality(HeldThings \cup {x}) <= Cardinality(HeldThings) + 1
      /\ Cardinality(HeldThings \cup {x}) \in Nat
  BY Counted, AddOne
<1>2. Cardinality(HeldThings') <= Cardinality(HeldThings \cup {x})
      /\ Cardinality(HeldSinks') <= Cardinality(HeldSinks)
  BY <1>1, Counted, FS_Subset
<1> QED BY <1>1, <1>2, Counted, CountedNext, HandleAssumption

(* The blocks of one kind are never those of another.                      *)
LEMMA BlocksApart ==
  /\ \A s, r : SinkBlock(s) = SinkBlock(r) => s = r
  /\ \A s : SinkBlock(s)[1] = "sink"
  /\ SourceBlock[1] = "source" /\ NamesBlock[1] = "names"
  /\ \A f : \A b \in Allocated(f) : b[1] \in {"key", "value", "array"}
BY DEF SinkBlock, SourceBlock, NamesBlock, Allocated, FieldStrings, FieldArray

SinkPart == {SinkBlock(s) : s \in HeldSinks}
SourcePart == IF source = Null THEN {} ELSE {SourceBlock}
NamesPart == IF held.names THEN {NamesBlock} ELSE {}
FieldsPart == IF held.fields = Null THEN {} ELSE Allocated(held.fields)

LEMMA OwnedParts ==
  /\ Owned = SinkPart \cup SourcePart \cup NamesPart \cup FieldsPart
  /\ Owned' = SinkPart' \cup SourcePart' \cup NamesPart' \cup FieldsPart'
BY DEF Owned, SinkPart, SourcePart, NamesPart, FieldsPart, HeldSinks

LEMMA PartsApart ==
  /\ \A b \in SinkPart : b[1] = "sink"
  /\ \A b \in SourcePart : b[1] = "source"
  /\ \A b \in NamesPart : b[1] = "names"
  /\ \A b \in FieldsPart : b[1] \in {"key", "value", "array"}
BY BlocksApart DEF SinkPart, SourcePart, NamesPart, FieldsPart

(* What is handed out is owned, and what is freed was.                     *)
LEMMA HandedOut ==
  ASSUME HeapOwned, NEW B, heap' = heap \cup B, Owned' = Owned \cup B
  PROVE  HeapOwned'
BY DEF HeapOwned

LEMMA HandedBack ==
  ASSUME HeapOwned, NEW B, heap' = heap \ B, Owned' = Owned \ B
  PROVE  HeapOwned'
BY DEF HeapOwned

(* Freeing fields frees no other block, and leaves strings with a NUL.     *)
LEMMA ReleasedStrings ==
  ASSUME NEW f
  PROVE  /\ Released(f) \subseteq Allocated(f)
         /\ \A b \in Allocated(f) \ Released(f) : b[3] \in WithNul
BY DEF Released, Allocated

LEMMA Start ==
  ASSUME Apart, Init
  PROVE  Inv
<1>1. DiskInv
  <2>1. PICK q \in Paths, f \in ForeignFiles :
          disk = [x \in Paths |-> IF x = q THEN f ELSE NoFile]
    BY DEF Init
  <2>2. GoodFile(f)
    BY ForeignAssumption DEF GoodFile, IsDesc, AllBuilt
  <2>3. \A g : Kept(g, Unknown)
    BY DEF Kept, Steady, Fulfilled
  <2>4. expected = [p \in Paths |-> Unknown]
    BY DEF Init
  <2>5. disk = [p \in Paths |-> disk[p]] /\ \A p \in Paths : disk[p] \in {f, NoFile}
    BY <2>1
  <2> QED BY <2>2, <2>3, <2>4, <2>5 DEF DiskInv
<1>2. SinksInv /\ SourceInv /\ GotInv /\ HeldInv
  BY DEF Init, SinksInv, SourceInv, GotInv, HeldInv
<1>3. CountInv
  <2>1. HeldSinks = {} /\ HeldThings = {}
    BY DEF Init, HeldSinks, HeldThings
  <2>2. Holds = 0
    BY <2>1, Counted, FS_EmptySet
  <2> QED BY <2>2, HandleAssumption DEF Init, CountInv
<1>4. HeapOwned
  BY DEF Init, HeapOwned, Owned
<1> QED BY <1>1, <1>2, <1>3, <1>4 DEF Inv

------------------------------------------------------------------------------
(* Reading through a source handle.                                        *)

LEMMA SourceOpenStep ==
  ASSUME Apart, Inv, NEW p \in Paths, SourceOpen(p)
  PROVE  Inv'
<1> USE DEF SourceOpen, storage
<1>1. DiskInv' /\ SinksInv' /\ HeldInv' /\ GotInv'
  BY DEF Inv, DiskInv, SinksInv, HeldInv, GotInv
<1>2. disk[p] # NoFile
  BY DEF OpenError
<1>3. SourceInv'
  <2>1. source'.file = disk[p] /\ source'.promised = expected[p]
    OBVIOUS
  <2> QED BY <1>2, <2>1 DEF Inv, DiskInv, SourceInv, Kept
<1>4. CountInv'
  <2>1. HeldSinks' \subseteq HeldSinks /\ HeldThings' \subseteq HeldThings \cup {"source"}
    BY DEF HeldSinks, HeldThings
  <2>2. Holds' <= MaxHeld
    BY <2>1, OneThingMore DEF Inv
  <2> QED BY <2>2 DEF Inv, CountInv
<1>5. HeapOwned'
  <2>1. source' # Null
    BY DEF Apart
  <2>2. Owned' = Owned \cup {SourceBlock}
    BY <2>1 DEF Owned
  <2> QED BY <2>2, HandedOut DEF Inv
<1> QED BY <1>1, <1>3, <1>4, <1>5 DEF Inv

LEMMA SourceCloseStep ==
  ASSUME Inv, SourceClose
  PROVE  Inv'
<1> USE DEF SourceClose, storage
<1>1. DiskInv' /\ SinksInv' /\ HeldInv' /\ GotInv' /\ SourceInv'
  BY DEF Inv, DiskInv, SinksInv, HeldInv, GotInv, SourceInv
<1>2. CountInv'
  <2>1. HeldSinks' \subseteq HeldSinks /\ HeldThings' \subseteq HeldThings
    BY DEF HeldSinks, HeldThings
  <2>2. Holds' <= Holds /\ Holds \in Nat /\ Holds' \in Nat
    BY <2>1, NoMore, Counted, CountedNext
  <2> QED BY <2>2, HandleAssumption DEF Inv, CountInv
<1>3. HeapOwned'
  <2>1. SourcePart = {SourceBlock} /\ SourcePart' = {}
    BY DEF SourcePart
  <2>2. SinkPart' = SinkPart /\ NamesPart' = NamesPart /\ FieldsPart' = FieldsPart
    BY DEF SinkPart, NamesPart, FieldsPart, HeldSinks
  <2>3. SourceBlock \notin SinkPart \cup NamesPart \cup FieldsPart
    BY PartsApart, BlocksApart
  <2>4. Owned' = Owned \ {SourceBlock}
    BY <2>1, <2>2, <2>3, OwnedParts
  <2> QED BY <2>4, HandedBack DEF Inv
<1> QED BY <1>1, <1>2, <1>3 DEF Inv

LEMMA SourceReadTileStep ==
  ASSUME Inv, NEW t, NEW fits \in BOOLEAN, SourceReadTile(t, fits)
  PROVE  Inv'
<1> USE DEF SourceReadTile, storage
<1>1. DiskInv' /\ SinksInv' /\ HeldInv' /\ SourceInv'
  BY DEF Inv, DiskInv, SinksInv, HeldInv, SourceInv
<1>2. GotInv'
  <2> DEFINE f == source.file
             e == IF fits THEN ReadError(f, t) ELSE "InvalidArgument"
  <2>1. /\ source' = source /\ source # Null
        /\ got'.cell = t /\ got'.fits = fits
        /\ got'.rc = (IF e = "None" THEN 0 ELSE ToCError(e))
        /\ got'.tile = (IF e = "None" THEN TileOf(f, t) ELSE Unknown)
    BY DEF Retained
  <2>2. /\ GoodFile(f) /\ OpenError(f) = "None"
        /\ Writable => Fulfilled(f, source.promised)
    BY <2>1 DEF Inv, SourceInv
  <2>3. CASE e = "None"
    <3>1. t \in Cells(f.desc) /\ Place(f.desc, t) <= f.have /\ ReadError(f, t) = "None"
      <4>1. e = ReadError(f, t)
        BY <2>3
      <4>2. t \in Cells(f.desc) /\ ~(Place(f.desc, t) > f.have)
        BY <2>3, <4>1 DEF ReadError
      <4>3. Place(f.desc, t) \in 1 .. Size(f.desc) /\ f.have \in Int /\ Size(f.desc) \in Nat
        BY <2>2, <4>2, PlaceInGrid DEF GoodFile, IsDesc, Size
      <4> QED BY <2>3, <4>1, <4>2, <4>3
    <3>2. Place(f.desc, t) \in 1 .. Len(f.tiles)
      <4>1. Place(f.desc, t) \in 1 .. Size(f.desc) /\ Size(f.desc) \in Nat
        BY <2>2, <3>1, PlaceInGrid DEF GoodFile, IsDesc, Size
      <4>2. f.have \in Int /\ Len(f.tiles) \in Nat /\ f.have <= Len(f.tiles)
        BY <2>2 DEF GoodFile
      <4> QED BY <3>1, <4>1, <4>2
    <3>3. TileOf(f, t) \in Contents
      BY <2>2, <3>2 DEF GoodFile, TileOf
    <3>4. TileOf(f, t) # Unknown
      BY <3>3, ContentAssumption
    <3>5. Writable /\ source.promised # Unknown => TileOf(f, t) = source.promised.tiles[t]
      BY <2>2, <3>1 DEF Fulfilled, Found
    <3> HIDE DEF e, f
    <3> QED BY <2>1, <2>3, <3>4, <3>5 DEF GotInv
  <2>4. CASE e # "None"
    <3>1. e \in {"OutOfRange", "InvalidArgument", "NotImplemented"}
      BY <2>4 DEF ReadError
    <3>2. AllBuilt => e # "NotImplemented"
      BY <2>2, <2>4 DEF ReadError, GoodFile
    <3>3. e # "NotImplemented" => ToCError(e) # 0
      <4>1. CASE e = "OutOfRange"
        BY <4>1 DEF ToCError, Code
      <4>2. CASE e = "InvalidArgument"
        BY <4>2 DEF ToCError, Code
      <4> QED BY <3>1, <4>1, <4>2
    <3>4. ASSUME Writable, source.promised # Unknown, source.promised.whole, fits,
                 t \in DOMAIN source.promised.tiles
          PROVE  FALSE
      BY <2>2, <2>4, <3>4 DEF Fulfilled, Found
    <3> HIDE DEF e, f
    <3> QED BY <2>1, <2>4, <3>2, <3>3, <3>4 DEF GotInv
  <2> QED BY <2>3, <2>4
<1>3. CountInv' /\ HeapOwned'
  BY DEF Inv, CountInv, HeapOwned, Owned, Holds
<1> QED BY <1>1, <1>2, <1>3 DEF Inv

------------------------------------------------------------------------------
(* Writing files, through a sink handle and by copying.                    *)

(* Of a file whose write was cut, what is there is what was promised.      *)
LEMMA CutKeeps ==
  ASSUME NEW f, GoodFile(f), NEW promise, Kept(f, promise), promise # Unknown,
         promise.whole, f # NoFile, Apart,
         f = [desc |-> f.desc, tiles |-> f.tiles, have |-> f.have, tags |-> f.tags],
         promise = Promise(promise.tiles, promise.camera, promise.metadata, promise.copied),
         NEW n \in Int, n <= f.have
  PROVE  GoodFile(CutAt(f, n)) /\ Kept(CutAt(f, n), Halved(promise))
<1> DEFINE g == CutAt(f, n)
           half == Halved(promise)
<1>1. /\ g.desc = f.desc /\ g.tags = f.tags /\ g.have = n
      /\ g.tiles = [i \in DOMAIN f.tiles |-> IF i <= n THEN f.tiles[i] ELSE Zero]
  BY DEF CutAt
<1>2. /\ half.whole = FALSE /\ half.tiles = promise.tiles /\ half.camera = promise.camera
      /\ half.copied = promise.copied
  BY DEF Halved, Promise
<1>3. f.tiles \in Seq(Contents) /\ Len(f.tiles) \in Nat /\ DOMAIN f.tiles = 1 .. Len(f.tiles)
      /\ IsDesc(f.desc) /\ f.have \in Int /\ f.have <= Len(f.tiles)
  BY DEF GoodFile
<1> HIDE DEF g, half
<1>4. g.tiles \in [1 .. Len(f.tiles) -> Contents]
  BY <1>1, <1>3, ContentAssumption
<1>5. g.tiles \in Seq(Contents) /\ Len(g.tiles) = Len(f.tiles)
  BY <1>3, <1>4
<1>6. GoodFile(g)
  BY <1>1, <1>3, <1>5 DEF GoodFile
<1>7. Steady(g, half)
  BY <1>1, <1>2 DEF Steady, Kept
<1>8. ASSUME Writable PROVE Fulfilled(g, half)
  <2>1. /\ OpenError(f) = "None" /\ DOMAIN promise.tiles = Cells(f.desc)
        /\ \A t \in DOMAIN promise.tiles :
             ReadError(f, t) = "None" /\ TileOf(f, t) = promise.tiles[t]
        /\ Outspoken => Calibration(CameraOf(f)) = Calibration(promise.camera)
    BY <1>8 DEF Kept, Fulfilled, Found
  <2>2. ASSUME NEW t \in DOMAIN half.tiles, ReadError(g, t) = "None"
        PROVE  TileOf(g, t) = half.tiles[t]
    <3>1. t \in Cells(f.desc) /\ ~(Place(f.desc, t) > n)
      BY <1>1, <2>2 DEF ReadError
    <3>2. Place(f.desc, t) \in 1 .. Size(f.desc) /\ Size(f.desc) \in Nat
      BY <1>3, <3>1, PlaceInGrid DEF IsDesc, Size
    <3>3. Place(f.desc, t) <= n /\ Place(f.desc, t) \in 1 .. Len(f.tiles)
      BY <1>3, <3>1, <3>2
    <3>4. g.tiles[Place(f.desc, t)] = f.tiles[Place(f.desc, t)]
      BY <1>1, <1>3, <3>3
    <3>5. TileOf(f, t) = promise.tiles[t]
      BY <1>2, <2>1, <2>2
    <3> QED BY <1>1, <1>2, <3>4, <3>5 DEF TileOf
  <2>3. Found(g, half)
    BY <1>2, <2>2 DEF Found
  <2>4. CameraOf(g) = CameraOf(f)
    BY <1>1 DEF CameraOf
  <2> QED BY <1>1, <1>2, <2>1, <2>3, <2>4 DEF Fulfilled
<1> QED BY <1>6, <1>7, <1>8 DEF Kept, g, half

LEMMA WriteFileKeeps ==
  ASSUME Apart, DiskInv, CountInv, NEW p \in Paths, NEW d, NEW raster, NEW tags,
         NEW tiles, NEW camera, NEW metadata, NEW copied,
         GoodFile(ToBytes(d, raster, tags)),
         Kept(ToBytes(d, raster, tags), Promise(tiles, camera, metadata, copied)),
         WriteFile(p, ToBytes(d, raster, tags), Promise(tiles, camera, metadata, copied))
  PROVE  DiskInv' /\ faults' \in 0 .. MaxFaults
<1> DEFINE f == ToBytes(d, raster, tags)
           promise == Promise(tiles, camera, metadata, copied)
<1>0. /\ f = [desc |-> f.desc, tiles |-> f.tiles, have |-> f.have, tags |-> f.tags]
      /\ f # NoFile /\ promise # Unknown /\ promise.whole
      /\ promise = Promise(promise.tiles, promise.camera, promise.metadata, promise.copied)
      /\ f.have = Len(raster) /\ f.tiles = raster
  BY DEF ToBytes, Promise, Apart
<1> HIDE DEF f, promise
<1>1. GoodFile(f) /\ Kept(f, promise) /\ WriteFile(p, f, promise)
  BY DEF f, promise
<1>2. ASSUME NEW g, GoodFile(g), NEW made, Kept(g, made),
             disk' = [disk EXCEPT ![p] = g], expected' = [expected EXCEPT ![p] = made]
      PROVE  DiskInv'
  <2>1. /\ disk' = [q \in Paths |-> disk'[q]] /\ expected' = [q \in Paths |-> expected'[q]]
        /\ disk'[p] = g /\ expected'[p] = made
        /\ \A q \in Paths \ {p} : disk'[q] = disk[q] /\ expected'[q] = expected[q]
    BY <1>2 DEF DiskInv
  <2>2. \A q \in Paths : disk'[q] # NoFile => GoodFile(disk'[q])
    BY <1>2, <2>1 DEF DiskInv
  <2>3. \A q \in Paths : Kept(disk'[q], expected'[q])
    BY <1>2, <2>1 DEF DiskInv
  <2> QED BY <2>1, <2>2, <2>3 DEF DiskInv
<1>3. CASE disk' = [disk EXCEPT ![p] = f] /\ expected' = [expected EXCEPT ![p] = promise]
           /\ UNCHANGED faults
  BY <1>1, <1>2, <1>3 DEF CountInv
<1>4. ASSUME NEW cut \in Cuts(disk[p], f), faults < MaxFaults, faults' = faults + 1,
             disk' = [disk EXCEPT ![p] = cut],
             expected' = IF cut = disk[p] THEN expected
                         ELSE [expected EXCEPT ![p] = Halved(promise)]
      PROVE  DiskInv' /\ faults' \in 0 .. MaxFaults
  <2>1. faults' \in 0 .. MaxFaults
    BY <1>4, HandleAssumption DEF CountInv
  <2>2. CASE cut = disk[p]
    <3>1. disk' = disk /\ expected' = expected
      BY <1>4, <2>2 DEF DiskInv
    <3> QED BY <2>1, <3>1 DEF DiskInv
  <2>3. CASE cut # disk[p]
    <3>1. PICK n \in {-1, f.have - 1} : cut = CutAt(f, n)
      BY <2>3 DEF Cuts
    <3>2. Len(raster) \in Nat
      BY <1>0, <1>1 DEF GoodFile
    <3>3. n \in Int /\ n <= f.have
      BY <1>0, <3>2
    <3>4. GoodFile(cut) /\ Kept(cut, Halved(promise))
      BY <1>0, <1>1, <3>1, <3>3, CutKeeps
    <3>5. DiskInv'
      BY <1>2, <1>4, <2>3, <3>4
    <3> QED BY <2>1, <3>5
  <2> QED BY <2>2, <2>3
<1> QED BY <1>1, <1>3, <1>4 DEF WriteFile

LEMMA SinkCreateStep ==
  ASSUME Apart, Inv, NEW s \in Sinks, NEW p \in Paths, NEW job \in Jobs, SinkCreate(s, p, job)
  PROVE  Inv'
<1> USE DEF SinkCreate, storage
<1> DEFINE k == [path |-> p, desc |-> job.desc,
                 camera |-> IF job.camera = Absent THEN Absent ELSE CameraFromC(job.camera),
                 given |-> job.camera, raster |-> [i \in 1 .. Size(job.desc) |-> Zero],
                 accepted |-> [t \in Cells(job.desc) |-> Zero], written |-> 0]
<1>1. DiskInv' /\ SourceInv' /\ HeldInv' /\ GotInv'
  BY DEF Inv, DiskInv, SourceInv, HeldInv, GotInv
<1>2. GoodSink(k)
  <2>1. /\ k.path = p /\ k.desc = job.desc
        /\ k.camera = (IF job.camera = Absent THEN Absent ELSE CameraFromC(job.camera))
        /\ k.given = job.camera
        /\ k.raster = [i \in 1 .. Size(job.desc) |-> Zero]
        /\ k.accepted = [t \in Cells(job.desc) |-> Zero] /\ k.written = 0
    OBVIOUS
  <2>2. k = [path |-> k.path, desc |-> k.desc, camera |-> k.camera, given |-> k.given,
             raster |-> k.raster, accepted |-> k.accepted, written |-> k.written]
    OBVIOUS
  <2>3. IsDesc(job.desc)
    BY JobsAssumption DEF IsDesc
  <2>4. k.camera = Absent \/ IsCamera(k.camera)
    BY <2>1, JobCamera
  <2>5. ASSUME Outspoken PROVE Calibration(CameraView(k.camera)) = Calibration(k.given)
    <3>1. CASE job.camera = Absent
      BY <2>1, <3>1 DEF CameraView
    <3>2. CASE job.camera # Absent
      BY <2>1, <2>5, <3>2, JobCalibration
    <3> QED BY <3>1, <3>2
  <2>6. Writable => CanWrite(k.desc)
    BY <2>1 DEF Writable
  <2> HIDE DEF k
  <2>7. \A t \in Cells(k.desc) : k.raster[Place(k.desc, t)] = k.accepted[t]
    BY <2>1, <2>3, PlaceInGrid
  <2>8. k.raster \in [1 .. Size(k.desc) -> Contents] /\ k.accepted \in [Cells(k.desc) -> Contents]
    BY <2>1, ContentAssumption
  <2>9. k.path \in Paths /\ IsDesc(k.desc)
    BY <2>1, <2>3
  <2> QED BY <2>2, <2>4, <2>5, <2>6, <2>7, <2>8, <2>9 DEF GoodSink
<1>3. k # Null
  BY DEF Apart
<1>4. sinks' = [sinks EXCEPT ![s] = k] /\ sinks[s] = Null
  OBVIOUS
<1> HIDE DEF k
<1>5. SinksInv'
  BY <1>2, <1>4 DEF Inv, SinksInv
<1>6. HeldSinks' = HeldSinks \cup {s}
  BY <1>3, <1>4 DEF Inv, SinksInv, HeldSinks
<1>7. CountInv'
  <2>1. HeldThings' \subseteq HeldThings
    BY DEF HeldThings
  <2>2. Holds' <= MaxHeld
    BY <1>6, <2>1, OneSinkMore DEF Inv
  <2> QED BY <2>2, HandleAssumption DEF Inv, CountInv
<1>8. HeapOwned'
  <2>1. SinkPart' = SinkPart \cup {SinkBlock(s)}
    BY <1>6 DEF SinkPart
  <2>2. SourcePart' = SourcePart /\ NamesPart' = NamesPart /\ FieldsPart' = FieldsPart
    BY DEF SourcePart, NamesPart, FieldsPart
  <2>3. Owned' = Owned \cup {SinkBlock(s)}
    BY <2>1, <2>2, OwnedParts
  <2> QED BY <2>3, HandedOut DEF Inv
<1> QED BY <1>1, <1>5, <1>7, <1>8 DEF Inv

(* A sink that accepted c for cell t.                                      *)
SinkAfter(k, at, t, c) == [k EXCEPT !.raster[at] = c, !.accepted[t] = c, !.written = @ + 1]

LEMMA SinkUpdated ==
  ASSUME NEW k, NEW at, NEW t, NEW c,
         k = [path |-> k.path, desc |-> k.desc, camera |-> k.camera, given |-> k.given,
              raster |-> k.raster, accepted |-> k.accepted, written |-> k.written]
  PROVE  SinkAfter(k, at, t, c) =
           [path |-> k.path, desc |-> k.desc, camera |-> k.camera, given |-> k.given,
            raster |-> [k.raster EXCEPT ![at] = c],
            accepted |-> [k.accepted EXCEPT ![t] = c], written |-> k.written + 1]
<1> DEFINE k1 == [k EXCEPT !.raster[at] = c]
           k2 == [k1 EXCEPT !.accepted[t] = c]
<1>1. k1 = [path |-> k.path, desc |-> k.desc, camera |-> k.camera, given |-> k.given,
            raster |-> [k.raster EXCEPT ![at] = c],
            accepted |-> k.accepted, written |-> k.written]
  OBVIOUS
<1>2. k2 = [path |-> k.path, desc |-> k.desc, camera |-> k.camera, given |-> k.given,
            raster |-> [k.raster EXCEPT ![at] = c],
            accepted |-> [k.accepted EXCEPT ![t] = c], written |-> k.written]
  <2> HIDE DEF k1
  <2> QED BY <1>1
<1>3. [k2 EXCEPT !.written = @ + 1] =
        [path |-> k.path, desc |-> k.desc, camera |-> k.camera, given |-> k.given,
         raster |-> [k.raster EXCEPT ![at] = c],
         accepted |-> [k.accepted EXCEPT ![t] = c], written |-> k.written + 1]
  <2> HIDE DEF k2
  <2> QED BY <1>2
<1> QED BY <1>3 DEF SinkAfter

LEMMA SinkWriteTileStep ==
  ASSUME Apart, Inv, NEW s \in Sinks, NEW t, NEW c \in Contents, SinkWriteTile(s, t, c)
  PROVE  Inv'
<1> USE DEF SinkWriteTile, storage
<1> DEFINE k == sinks[s]
           new == [path |-> k.path, desc |-> k.desc, camera |-> k.camera, given |-> k.given,
                   raster |-> [k.raster EXCEPT ![Place(k.desc, t)] = c],
                   accepted |-> [k.accepted EXCEPT ![t] = c], written |-> k.written + 1]
<1>1. DiskInv' /\ SourceInv' /\ HeldInv' /\ GotInv'
  BY DEF Inv, DiskInv, SourceInv, HeldInv, GotInv
<1>2. GoodSink(k) /\ t \in Cells(k.desc) /\ k # Null
  BY DEF Inv, SinksInv
<1>3. sinks' = [sinks EXCEPT ![s] = new]
  <2>1. SinkAfter(k, Place(k.desc, t), t, c) = new
    <3>1. k = [path |-> k.path, desc |-> k.desc, camera |-> k.camera, given |-> k.given,
               raster |-> k.raster, accepted |-> k.accepted, written |-> k.written]
      BY <1>2 DEF GoodSink
    <3> HIDE DEF k
    <3> QED BY <3>1, SinkUpdated
  <2>2. sinks' = [sinks EXCEPT ![s] = SinkAfter(k, Place(k.desc, t), t, c)]
    BY DEF Inv, SinksInv, RasterPlace, SinkAfter
  <2> QED BY <2>1, <2>2
<1>4. new # Null
  BY DEF Apart
<1>5. GoodSink(new)
  <2>1. /\ new.path = k.path /\ new.desc = k.desc /\ new.camera = k.camera
        /\ new.given = k.given
        /\ new.raster = [k.raster EXCEPT ![Place(k.desc, t)] = c]
        /\ new.accepted = [k.accepted EXCEPT ![t] = c] /\ new.written = k.written + 1
    OBVIOUS
  <2>2. new = [path |-> new.path, desc |-> new.desc, camera |-> new.camera, given |-> new.given,
               raster |-> new.raster, accepted |-> new.accepted, written |-> new.written]
    OBVIOUS
  <2>3. IsDesc(k.desc) /\ k.raster \in [1 .. Size(k.desc) -> Contents]
        /\ k.accepted \in [Cells(k.desc) -> Contents] /\ k.path \in Paths
        /\ (k.camera = Absent \/ IsCamera(k.camera)) /\ (Writable => CanWrite(k.desc))
        /\ (Outspoken => Calibration(CameraView(k.camera)) = Calibration(k.given))
    BY <1>2 DEF GoodSink
  <2> HIDE DEF k, new
  <2>4. new.raster \in [1 .. Size(k.desc) -> Contents] /\ new.accepted \in [Cells(k.desc) -> Contents]
    BY <2>1, <2>3
  <2>5. ASSUME NEW u \in Cells(k.desc) PROVE new.raster[Place(k.desc, u)] = new.accepted[u]
    <3>1. Place(k.desc, u) \in 1 .. Size(k.desc)
      BY <2>3, PlaceInGrid
    <3>2. CASE u = t
      BY <2>1, <2>3, <3>1, <3>2
    <3>3. CASE u # t
      <4>1. Place(k.desc, u) # Place(k.desc, t)
        BY <1>2, <2>3, <3>3, PlacesApart
      <4>2. k.raster[Place(k.desc, u)] = k.accepted[u]
        BY <1>2 DEF GoodSink
      <4> QED BY <2>1, <2>3, <3>1, <3>3, <4>1, <4>2
    <3> QED BY <3>2, <3>3
  <2> QED BY <2>1, <2>2, <2>3, <2>4, <2>5 DEF GoodSink
<1> HIDE DEF new
<1>6. SinksInv'
  BY <1>3, <1>5 DEF Inv, SinksInv
<1>7. HeldSinks' = HeldSinks
  BY <1>2, <1>3, <1>4 DEF Inv, SinksInv, HeldSinks
<1>8. CountInv'
  <2>1. HeldThings' \subseteq HeldThings /\ HeldSinks' \subseteq HeldSinks
    BY <1>7 DEF HeldThings
  <2>2. Holds' <= Holds /\ Holds \in Nat /\ Holds' \in Nat
    BY <2>1, NoMore, Counted, CountedNext
  <2> QED BY <2>2, HandleAssumption DEF Inv, CountInv
<1>9. HeapOwned'
  BY <1>7 DEF Inv, HeapOwned, Owned, HeldSinks
<1> QED BY <1>1, <1>6, <1>8, <1>9 DEF Inv

(* A file that was written whole keeps what its writer was promised.       *)
LEMMA WholeFile ==
  ASSUME Apart, NEW d, IsDesc(d), d.compression \in Built,
         NEW raster \in Seq(Contents), NEW tiles, DOMAIN tiles = Cells(d),
         \A t \in Cells(d) : Place(d, t) <= Len(raster) /\ raster[Place(d, t)] = tiles[t],
         NEW c, c = Absent \/ IsCamera(c), NEW s, s = Absent \/ IsCrs(s),
         NEW tags, tags = WriteExtensions(Extensions(c, s)), NEW metadata, NEW copied,
         NEW given, Outspoken => Calibration(CameraView(c)) = Calibration(given)
  PROVE  /\ GoodFile(ToBytes(d, raster, tags))
         /\ Kept(ToBytes(d, raster, tags), Promise(tiles, given, metadata, copied))
<1> DEFINE f == ToBytes(d, raster, tags)
           promise == Promise(tiles, given, metadata, copied)
<1>1. /\ f.desc = d /\ f.tiles = raster /\ f.have = Len(raster) /\ f.tags = tags
      /\ Len(raster) \in Nat
  BY DEF ToBytes
<1>2. f # NoFile
  BY DEF Apart, ToBytes
<1>3. promise.tiles = tiles /\ promise.camera = given
  BY DEF Promise
<1>4. /\ Readable(tags) /\ ReadExtensions(tags).camera = c
      /\ WriteExtensions(ExtensionsOf(tags)) = tags /\ DOMAIN tags \subseteq TagDomains
  BY ExtensionsKept
<1> HIDE DEF f, promise
<1>5. GoodFile(f)
  BY <1>1, <1>4 DEF GoodFile
<1>6. OpenError(f) = "None"
  BY <1>1, <1>2, <1>4 DEF OpenError, Opens
<1>7. ASSUME NEW t \in Cells(d) PROVE ReadError(f, t) = "None" /\ TileOf(f, t) = tiles[t]
  <2>1. Place(d, t) \in Nat /\ ~(Place(d, t) > Len(raster))
    <3>1. Place(d, t) \in 1 .. Size(d) /\ Size(d) \in Nat
      BY PlaceInGrid DEF IsDesc, Size
    <3>2. Place(d, t) <= Len(raster)
      OBVIOUS
    <3> QED BY <3>1, <3>2, <1>1
  <2> QED BY <1>1, <2>1 DEF ReadError, TileOf
<1>8. Found(f, promise)
  BY <1>1, <1>3, <1>6, <1>7 DEF Found
<1>9. CameraOf(f) = CameraView(c)
  BY <1>1, <1>4 DEF CameraOf
<1>10. Fulfilled(f, promise)
  BY <1>1, <1>3, <1>8, <1>9 DEF Fulfilled
<1>11. Steady(f, promise)
  BY <1>1, <1>4 DEF Steady
<1> QED BY <1>5, <1>10, <1>11 DEF Kept, f, promise

LEMMA SinkCloseStep ==
  ASSUME Apart, Inv, NEW s \in Sinks, SinkClose(s)
  PROVE  Inv'
<1> DEFINE k == sinks[s]
           tags == WriteExtensions([camera |-> k.camera, crs |-> Absent, metadata |-> NoFields])
           promise == Promise(k.accepted, k.given, NoFields, FALSE)
<1> USE DEF SinkClose, storage
<1>1. /\ UNCHANGED <<source, held, files>> /\ got' = Unknown /\ k # Null
      /\ sinks' = [sinks EXCEPT ![s] = Null] /\ heap' = heap \ {SinkBlock(s)}
  OBVIOUS
<1>2. GoodSink(k)
  BY <1>1 DEF Inv, SinksInv
<1>3. tags = WriteExtensions(Extensions(k.camera, Absent))
  BY DEF Extensions
<1>4. DiskInv' /\ faults' \in 0 .. MaxFaults
  <2>1. CASE CanWrite(k.desc)
    <3>1. WriteFile(k.path, ToBytes(k.desc, k.raster, tags), promise)
      BY <2>1
    <3> HIDE DEF k, tags
    <3>2. /\ IsDesc(k.desc) /\ k.path \in Paths /\ DOMAIN k.accepted = Cells(k.desc)
          /\ k.camera = Absent \/ IsCamera(k.camera)
          /\ Outspoken => Calibration(CameraView(k.camera)) = Calibration(k.given)
          /\ k.raster \in [1 .. Size(k.desc) -> Contents] /\ k.desc.compression \in Built
      BY <1>2, <2>1 DEF GoodSink, CanWrite
    <3>3. k.raster \in Seq(Contents) /\ Len(k.raster) = Size(k.desc)
      <4>1. Size(k.desc) \in Nat
        BY <3>2 DEF IsDesc, Size
      <4> QED BY <3>2, <4>1
    <3>4. \A t \in Cells(k.desc) :
            Place(k.desc, t) <= Len(k.raster) /\ k.raster[Place(k.desc, t)] = k.accepted[t]
      BY <1>2, <3>2, <3>3, PlaceInGrid DEF GoodSink
    <3>5. /\ GoodFile(ToBytes(k.desc, k.raster, tags))
          /\ Kept(ToBytes(k.desc, k.raster, tags), promise)
      BY <1>3, <3>2, <3>3, <3>4, WholeFile
    <3> QED BY <3>1, <3>2, <3>5, WriteFileKeeps DEF Inv
  <2>2. CASE ~CanWrite(k.desc)
    <3>1. /\ disk' = disk /\ faults' = faults
          /\ expected' = [expected EXCEPT ![k.path] = promise]
      BY <2>2
    <3>2. k.path \in Paths /\ ~Writable
      BY <1>2, <2>2 DEF GoodSink
    <3>3. \A f : Kept(f, promise)
      BY <3>2 DEF Kept, Steady, Promise
    <3> HIDE DEF k, promise
    <3>4. /\ expected' = [q \in Paths |-> expected'[q]] /\ expected'[k.path] = promise
          /\ \A q \in Paths \ {k.path} : expected'[q] = expected[q]
      BY <3>1, <3>2 DEF Inv, DiskInv
    <3>5. \A q \in Paths : Kept(disk'[q], expected'[q])
      BY <3>1, <3>3, <3>4 DEF Inv, DiskInv
    <3> QED BY <3>1, <3>4, <3>5 DEF Inv, DiskInv, CountInv
  <2> QED BY <2>1, <2>2
<1> HIDE DEF SinkClose, k, tags
<1>5. SinksInv' /\ SourceInv' /\ HeldInv' /\ GotInv'
  BY <1>1 DEF Inv, SinksInv, SourceInv, HeldInv, GotInv
<1>6. HeldSinks' = HeldSinks \ {s} /\ s \in HeldSinks
  BY <1>1 DEF Inv, SinksInv, HeldSinks, k
<1>7. CountInv'
  <2>1. HeldThings' \subseteq HeldThings /\ HeldSinks' \subseteq HeldSinks
    BY <1>1, <1>6 DEF HeldThings
  <2>2. Holds' <= Holds /\ Holds \in Nat /\ Holds' \in Nat
    BY <2>1, NoMore, Counted, CountedNext
  <2> QED BY <1>1, <1>4, <2>2, HandleAssumption DEF Inv, CountInv
<1>8. HeapOwned'
  <2>1. /\ SinkPart' = SinkPart \ {SinkBlock(s)}
        /\ SourcePart' = SourcePart /\ NamesPart' = NamesPart /\ FieldsPart' = FieldsPart
    BY <1>1, <1>6, BlocksApart DEF SinkPart, SourcePart, NamesPart, FieldsPart
  <2>2. SinkBlock(s) \notin SourcePart \cup NamesPart \cup FieldsPart
    BY PartsApart, BlocksApart
  <2>3. Owned' = Owned \ {SinkBlock(s)}
    BY <2>1, <2>2, OwnedParts
  <2> QED BY <1>1, <2>3, HandedBack DEF Inv
<1> QED BY <1>4, <1>5, <1>7, <1>8 DEF Inv

LEMMA CliCopyStep ==
  ASSUME Apart, Inv, NEW p \in Paths, NEW q \in Paths, CliCopy(p, q)
  PROVE  Inv'
<1> DEFINE f == disk[p]
           read == ReadExtensions(f.tags)
           tiles == [t \in Cells(f.desc) |-> TileOf(f, t)]
           d == DescriptorOf(f.desc)
           tags == WriteExtensions(ExtensionsOf(f.tags))
           promise == Promise(tiles, CameraOf(f), read.metadata, TRUE)
<1>1. /\ files < MaxFiles /\ files' = files + 1
      /\ OpenError(f) = "None" /\ CanWrite(d)
      /\ \A t \in Cells(f.desc) : ReadError(f, t) = "None"
      /\ WriteFile(q, Copied(f), promise)
      /\ got' = Unknown /\ UNCHANGED <<sinks, source, held, heap>>
  BY DEF CliCopy
<1> HIDE DEF f, read, d, tags, tiles, promise
<1>2. GoodFile(f) /\ Readable(f.tags)
  BY <1>1 DEF Inv, DiskInv, OpenError, Opens, f
<1>3. /\ d.columns = f.desc.columns /\ d.rows = f.desc.rows /\ d.compression \in Built
      /\ IsDesc(d)
  BY <1>1, <1>2 DEF d, DescriptorOf, GoodFile, IsDesc, CanWrite
<1>4. Cells(d) = Cells(f.desc) /\ \A t : Place(d, t) = Place(f.desc, t)
  BY <1>3 DEF Cells, Place
<1>5. Copied(f) = ToBytes(d, f.tiles, tags)
  BY DEF Copied, d, tags
<1>6. /\ read.camera = Absent \/ IsCamera(read.camera)
      /\ read.crs = Absent \/ IsCrs(read.crs)
      /\ tags = WriteExtensions(Extensions(read.camera, read.crs))
  BY <1>2, ExtensionsRead DEF tags, read
<1>7. ASSUME NEW t \in Cells(d)
      PROVE  Place(d, t) <= Len(f.tiles) /\ f.tiles[Place(d, t)] = tiles[t]
  <2>1. t \in Cells(f.desc) /\ ReadError(f, t) = "None" /\ Place(d, t) = Place(f.desc, t)
    BY <1>1, <1>4
  <2>2. ~(Place(f.desc, t) > f.have)
    BY <2>1 DEF ReadError
  <2>3. Place(f.desc, t) \in 1 .. Size(f.desc) /\ Size(f.desc) \in Nat
    BY <1>2, <2>1, PlaceInGrid DEF GoodFile, IsDesc, Size
  <2>4. f.have \in Int /\ f.have <= Len(f.tiles) /\ Len(f.tiles) \in Nat
    BY <1>2 DEF GoodFile
  <2>5. Place(f.desc, t) <= Len(f.tiles)
    BY <2>2, <2>3, <2>4
  <2> QED BY <2>1, <2>5 DEF tiles, TileOf
<1>8. DOMAIN tiles = Cells(d) /\ f.tiles \in Seq(Contents)
  BY <1>2, <1>4 DEF tiles, GoodFile
<1>9. CameraOf(f) = CameraView(read.camera)
  BY DEF CameraOf, read
<1>10. GoodFile(ToBytes(d, f.tiles, tags)) /\ Kept(ToBytes(d, f.tiles, tags), promise)
  BY <1>3, <1>6, <1>7, <1>8, <1>9, WholeFile DEF promise
<1>11. DiskInv' /\ faults' \in 0 .. MaxFaults
  BY <1>1, <1>5, <1>10, WriteFileKeeps DEF Inv, promise
<1>12. SinksInv' /\ SourceInv' /\ HeldInv' /\ GotInv'
  BY <1>1 DEF Inv, SinksInv, SourceInv, HeldInv, GotInv
<1>13. CountInv'
  <2>1. Holds' = Holds
    BY <1>1 DEF Holds
  <2> QED BY <1>1, <1>11, <2>1, HandleAssumption DEF Inv, CountInv
<1>14. HeapOwned'
  BY <1>1 DEF Inv, HeapOwned, Owned
<1> QED BY <1>11, <1>12, <1>13, <1>14 DEF Inv

------------------------------------------------------------------------------
(* Fields and strings a caller holds.                                      *)

LEMMA OpenPathFieldsStep ==
  ASSUME Apart, Inv, NEW p \in Paths, OpenPathFields(p)
  PROVE  Inv'
<1> DEFINE f == FieldsOfTags(disk[p].tags)
<1>1. /\ held.fields = Null /\ Holds < MaxHeld /\ disk[p] # NoFile
      /\ held' = [held EXCEPT !.fields = f] /\ heap' = heap \cup Allocated(f)
      /\ got' = Unknown /\ UNCHANGED <<disk, expected, faults, files, sinks, source>>
  BY DEF OpenPathFields, storage
<1>2. f # Null /\ \A k \in DOMAIN f : k[1] \in TagDomains
  <2>1. f = [k \in DOMAIN f |-> f[k]]
    BY DEF FieldsOfTags
  <2>2. DOMAIN disk[p].tags \subseteq TagDomains
    BY <1>1 DEF Inv, DiskInv, GoodFile
  <2>3. \A k \in DOMAIN f : k[1] \in DOMAIN disk[p].tags
    BY DEF FieldsOfTags
  <2> QED BY <2>1, <2>2, <2>3 DEF Apart
<1> HIDE DEF f
<1>3. held' = [names |-> held.names, fields |-> f]
  BY <1>1 DEF Inv, HeldInv
<1>4. held'.names = held.names /\ held'.fields = f
  BY <1>3
<1>5. DiskInv' /\ SinksInv' /\ SourceInv' /\ GotInv'
  BY <1>1 DEF Inv, DiskInv, SinksInv, SourceInv, GotInv
<1>6. HeldInv'
  BY <1>2, <1>3, <1>4 DEF Inv, HeldInv
<1>7. CountInv'
  <2>1. HeldSinks' \subseteq HeldSinks /\ HeldThings' \subseteq HeldThings \cup {"fields"}
    BY <1>1, <1>4 DEF HeldSinks, HeldThings
  <2>2. Holds' <= MaxHeld
    BY <1>1, <2>1, OneThingMore DEF Inv
  <2> QED BY <1>1, <2>2 DEF Inv, CountInv
<1>8. HeapOwned'
  <2>1. Owned' = Owned \cup Allocated(f)
    BY <1>1, <1>2, <1>4 DEF Owned
  <2> QED BY <1>1, <2>1, HandedOut DEF Inv
<1> QED BY <1>5, <1>6, <1>7, <1>8 DEF Inv

LEMMA FieldsFreeStep ==
  ASSUME Inv, FieldsFree
  PROVE  Inv'
<1>1. /\ held.fields # Null /\ held' = [held EXCEPT !.fields = Null]
      /\ heap' = heap \ Released(held.fields)
      /\ got' = Unknown /\ UNCHANGED <<disk, expected, faults, files, sinks, source>>
  BY DEF FieldsFree, storage
<1>2. held' = [names |-> held.names, fields |-> Null]
  BY <1>1 DEF Inv, HeldInv
<1>3. held'.names = held.names /\ held'.fields = Null
  BY <1>2
<1>4. DiskInv' /\ SinksInv' /\ SourceInv' /\ GotInv' /\ HeldInv'
  BY <1>1, <1>2, <1>3 DEF Inv, DiskInv, SinksInv, SourceInv, GotInv, HeldInv
<1>5. HeldSinks' = HeldSinks /\ HeldThings' \subseteq HeldThings
  BY <1>1, <1>3 DEF HeldSinks, HeldThings
<1>6. CountInv'
  <2>1. Holds' <= Holds /\ Holds \in Nat /\ Holds' \in Nat
    BY <1>5, NoMore, Counted, CountedNext
  <2> QED BY <1>1, <2>1, HandleAssumption DEF Inv, CountInv
<1>7. HeapOwned'
  <2>1. FieldsPart = Allocated(held.fields) /\ FieldsPart' = {}
    BY <1>1, <1>3 DEF FieldsPart
  <2>2. SinkPart' = SinkPart /\ SourcePart' = SourcePart /\ NamesPart' = NamesPart
    BY <1>1, <1>3, <1>5 DEF SinkPart, SourcePart, NamesPart
  <2>3. \A b \in SinkPart \cup SourcePart \cup NamesPart : b \notin FieldsPart
    BY PartsApart
  <2>4. /\ Released(held.fields) \subseteq FieldsPart
        /\ \A b \in FieldsPart \ Released(held.fields) : b[3] \in WithNul
    BY <2>1, ReleasedStrings
  <2>5. Owned' = Owned \ FieldsPart /\ FieldsPart \subseteq Owned
    BY <2>1, <2>2, <2>3, OwnedParts
  <2> QED BY <1>1, <2>4, <2>5 DEF Inv, HeapOwned
<1> QED BY <1>4, <1>6, <1>7 DEF Inv

LEMMA BackendNamesStep ==
  ASSUME Inv, BackendNames
  PROVE  Inv'
<1>1. /\ ~held.names /\ Holds < MaxHeld /\ held' = [held EXCEPT !.names = TRUE]
      /\ heap' = heap \cup {NamesBlock}
      /\ got' = Unknown /\ UNCHANGED <<disk, expected, faults, files, sinks, source>>
  BY DEF BackendNames, storage
<1>2. held' = [names |-> TRUE, fields |-> held.fields]
  BY <1>1 DEF Inv, HeldInv
<1>3. held'.names = TRUE /\ held'.fields = held.fields
  BY <1>2
<1>4. DiskInv' /\ SinksInv' /\ SourceInv' /\ GotInv'
  BY <1>1 DEF Inv, DiskInv, SinksInv, SourceInv, GotInv
<1>5. HeldInv'
  BY <1>2, <1>3 DEF Inv, HeldInv
<1>6. CountInv'
  <2>1. HeldSinks' \subseteq HeldSinks /\ HeldThings' \subseteq HeldThings \cup {"names"}
    BY <1>1, <1>3 DEF HeldSinks, HeldThings
  <2>2. Holds' <= MaxHeld
    BY <1>1, <2>1, OneThingMore DEF Inv
  <2> QED BY <1>1, <2>2 DEF Inv, CountInv
<1>7. HeapOwned'
  <2>1. NamesPart = {} /\ NamesPart' = {NamesBlock}
    BY <1>1, <1>3 DEF NamesPart
  <2>2. SinkPart' = SinkPart /\ SourcePart' = SourcePart /\ FieldsPart' = FieldsPart
    BY <1>1, <1>3 DEF SinkPart, SourcePart, FieldsPart, HeldSinks
  <2>3. Owned' = Owned \cup {NamesBlock}
    BY <2>1, <2>2, OwnedParts
  <2> QED BY <1>1, <2>3, HandedOut DEF Inv
<1> QED BY <1>4, <1>5, <1>6, <1>7 DEF Inv

LEMMA FreeStringStep ==
  ASSUME Inv, FreeString
  PROVE  Inv'
<1>1. /\ held.names /\ held' = [held EXCEPT !.names = FALSE] /\ heap' = heap \ {NamesBlock}
      /\ got' = Unknown /\ UNCHANGED <<disk, expected, faults, files, sinks, source>>
  BY DEF FreeString, storage
<1>2. held' = [names |-> FALSE, fields |-> held.fields]
  BY <1>1 DEF Inv, HeldInv
<1>3. held'.names = FALSE /\ held'.fields = held.fields
  BY <1>2
<1>4. DiskInv' /\ SinksInv' /\ SourceInv' /\ GotInv'
  BY <1>1 DEF Inv, DiskInv, SinksInv, SourceInv, GotInv
<1>5. HeldInv'
  BY <1>2, <1>3 DEF Inv, HeldInv
<1>6. HeldSinks' = HeldSinks /\ HeldThings' \subseteq HeldThings
  BY <1>1, <1>3 DEF HeldSinks, HeldThings
<1>7. CountInv'
  <2>1. Holds' <= Holds /\ Holds \in Nat /\ Holds' \in Nat
    BY <1>6, NoMore, Counted, CountedNext
  <2> QED BY <1>1, <2>1, HandleAssumption DEF Inv, CountInv
<1>8. HeapOwned'
  <2>1. NamesPart = {NamesBlock} /\ NamesPart' = {}
    BY <1>1, <1>3 DEF NamesPart
  <2>2. SinkPart' = SinkPart /\ SourcePart' = SourcePart /\ FieldsPart' = FieldsPart
    BY <1>1, <1>3 DEF SinkPart, SourcePart, FieldsPart, HeldSinks
  <2>3. NamesBlock \notin SinkPart \cup SourcePart \cup FieldsPart
    BY PartsApart, BlocksApart
  <2>4. Owned' = Owned \ {NamesBlock}
    BY <2>1, <2>2, <2>3, OwnedParts
  <2> QED BY <1>1, <2>4, HandedBack DEF Inv
<1> QED BY <1>4, <1>5, <1>7, <1>8 DEF Inv

LEMMA StutterStep ==
  ASSUME Inv, UNCHANGED vars
  PROVE  Inv'
<1> USE DEF vars
<1>1. DiskInv' /\ SinksInv' /\ SourceInv' /\ GotInv' /\ HeldInv'
  BY DEF Inv, DiskInv, SinksInv, SourceInv, GotInv, HeldInv
<1>2. CountInv' /\ HeapOwned'
  BY DEF Inv, CountInv, Holds, HeapOwned, Owned
<1> QED BY <1>1, <1>2 DEF Inv

LEMMA Step ==
  ASSUME Apart, Inv, [Next]_vars
  PROVE  Inv'
<1>1. CASE \E p \in Paths : SourceOpen(p) BY <1>1, SourceOpenStep
<1>2. CASE \E p \in Paths : OpenPathFields(p) BY <1>2, OpenPathFieldsStep
<1>3. CASE SourceClose BY <1>3, SourceCloseStep
<1>4. CASE \E t \in {<<0, 0>>, <<0, 1>>, <<1, 0>>}, fits \in BOOLEAN : SourceReadTile(t, fits)
  BY <1>4, SourceReadTileStep
<1>5. CASE \E s \in Sinks, p \in Paths, job \in Jobs : SinkCreate(s, p, job)
  BY <1>5, SinkCreateStep
<1>6. CASE \E s \in Sinks, t \in {0, 1} \X {0, 1}, c \in Contents : SinkWriteTile(s, t, c)
  BY <1>6, SinkWriteTileStep
<1>7. CASE \E s \in Sinks : SinkClose(s) BY <1>7, SinkCloseStep
<1>8. CASE FieldsFree BY <1>8, FieldsFreeStep
<1>9. CASE BackendNames BY <1>9, BackendNamesStep
<1>10. CASE FreeString BY <1>10, FreeStringStep
<1>11. CASE \E p \in Paths, q \in Paths : CliCopy(p, q) BY <1>11, CliCopyStep
<1>12. CASE UNCHANGED vars BY <1>12, StutterStep
<1> QED BY <1>1, <1>2, <1>3, <1>4, <1>5, <1>6, <1>7, <1>8, <1>9, <1>10, <1>11, <1>12
        DEF Next, CApi

LEMMA Invariance == ASSUME Apart PROVE Spec => []Inv
BY Start, Step, PTL DEF Spec

(* The handles, held fields and counters of the C API keep their types, for *)
(* any paths, jobs and files.                                              *)
THEOREM TypeCorrect == ASSUME Apart PROVE Spec => []TypeOK
<1>1. Inv => TypeOK
  <2>1. \A f : OpenError(f) = "None" => f.have >= 0
    BY DEF OpenError, Opens
  <2> QED BY <2>1 DEF Inv, SinksInv, GoodSink, SourceInv, HeldInv, CountInv, TypeOK
<1> QED BY <1>1, Invariance, PTL

(* If every job is one that can be written, every file that was closed or  *)
(* copied reads back tile by tile, through any number of copies, and one   *)
(* whose write the disk cut short gives no tile that was not accepted.     *)
THEOREM ReadsBackHolds == ASSUME Apart, Writable PROVE Spec => []ReadsBack
<1>1. Inv => ReadsBack
  BY DEF Inv, DiskInv, Kept, Fulfilled, ReadsBack
<1> QED BY <1>1, Invariance, PTL

(* If, besides, the flags of every camera say what its numbers do, C reads *)
(* from the file, and from its copies, the calibration it gave.            *)
THEOREM CalibrationHolds == ASSUME Apart, Writable, Outspoken PROVE Spec => []SameCalibration
<1>1. Inv => SameCalibration
  BY DEF Inv, DiskInv, Kept, Fulfilled, SameCalibration
<1> QED BY <1>1, Invariance, PTL

(* What a copy has of extension fields, a copy of it has, and every further *)
(* one.                                                                    *)
THEOREM SettledHolds == ASSUME Apart PROVE Spec => []Settled
<1>1. Inv => Settled
  <2> SUFFICES ASSUME Inv, NEW p \in Paths, expected[p] # Unknown, expected[p].copied
               PROVE  Copied(disk[p]).tags = disk[p].tags
    BY DEF Settled
  <2>1. WriteExtensions(ExtensionsOf(disk[p].tags)) = disk[p].tags
    BY DEF Inv, DiskInv, Kept, Steady
  <2> QED BY <2>1 DEF Copied, ToBytes
<1> QED BY <1>1, Invariance, PTL

(* If this build has the codecs of all files, and every job can be written,*)
(* a source answers 0 exactly when it delivers a tile, and delivers those  *)
(* of the file it was opened on, whatever is written to its path.          *)
THEOREM SourceAnswersHolds == ASSUME Apart, Writable, AllBuilt PROVE Spec => []SourceAnswers
<1>1. Inv => SourceAnswers
  BY DEF Inv, GotInv, SourceAnswers
<1> QED BY <1>1, Invariance, PTL

(* Everything the library hands out is freed once, whole, by the call that *)
(* takes it back, but for the strings of a foreign file that hold a NUL.   *)
THEOREM HeapOwnedHolds == ASSUME Apart PROVE Spec => []HeapOwned
<1>1. Inv => HeapOwned
  BY DEF Inv
<1> QED BY <1>1, Invariance, PTL
=============================================================================
