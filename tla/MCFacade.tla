------------------------------ MODULE MCFacade ------------------------------
(***************************************************************************)
(* A small disk for Facade: two paths, one sink and one source at a time,  *)
(* grids of one and of four tiles, and files of other programs with fields *)
(* of every kind, a name and a value with a NUL among them ("odd").        *)
(***************************************************************************)
EXTENDS Facade, TLC

Desc(columns, rows, compression) ==
  [columns |-> columns, rows |-> rows, channels |-> 1, compression |-> compression,
   tiled |-> TRUE, sixteen |-> TRUE, spans |-> FALSE]

Grid   == Desc(2, 2, "PackBits")
One    == [Desc(1, 1, "None") EXCEPT !.spans = TRUE]
Two    == [One EXCEPT !.channels = 2]                        \* refused when it is closed
Strips == [Desc(1, 2, "None") EXCEPT !.tiled = FALSE, !.sixteen = FALSE]
Zip    == [One EXCEPT !.compression = "Deflate"]

Cam(posed, pose, lens, params) ==
  [has_intrinsics |-> TRUE, focal |-> "7", principal |-> "8", timestamp |-> "t0",
   has_extrinsics |-> posed, rotation |-> pose, position |-> pose,
   has_lens |-> lens # "", lens_kind |-> lens, params |-> params]
Posed   == Cam(TRUE, "1", "fisheye", [k \in {"lens.k1"} |-> "7"])
Unposed == [Cam(FALSE, Identity, "", [k \in {} |-> "0"]) EXCEPT !.timestamp = ""]
Zeroed  == [Unposed EXCEPT !.rotation = "0", !.position = "0"]  \* a struct of zeros, then intrinsics

Job(d, c) == [desc |-> d, camera |-> c]
SmallJobs   == {Job(Grid, Absent), Job(One, Posed), Job(One, Unposed)}
RefusedJobs == {Job(One, Absent), Job(Two, Absent)}
ZeroedJobs  == {Job(One, Zeroed)}

Payload(records) == [whole |-> TRUE, version |-> 1, records |-> records]
Foreign(d, tags) == [desc |-> d, tiles |-> [i \in 1 .. Size(d) |-> "x"], have |-> Size(d), tags |-> tags]

Spice   == "spice" :> Payload([frame |-> "J2000"])
Odd     == "spice" :> Payload([frame |-> "J2000", odd |-> "7", kernel |-> "odd"])
Partial == "camera" :> Payload([model |-> "pinhole", focal |-> "7"])
NoPose  == "camera" :> Payload([model |-> "acme", focal |-> "7", principal |-> "8", rotation |-> "1"])
BadCam  == "camera" :> Payload([model |-> "acme", focal |-> "far", principal |-> "8"])
Mars    == "crs" :> Payload([body |-> "499", reference_frame |-> "IAU_MARS"])
Moon    == "crs" :> Payload([body |-> "301", reference_frame |-> "IAU_MOON", projection |-> "sinusoidal"])
Legacy  == "crs" :> Payload([planet_name |-> "Moon", planet_iau_id |-> "IAU_MOON",
                             planet_axes |-> "7", projection |-> "sinusoidal"])
Later   == "layers" :> [Payload([name |-> "dem"]) EXCEPT !.version = 2]

SmallFiles ==
  { Foreign(One, Spice @@ Mars), Foreign(One, NoPose @@ Later @@ Moon), Foreign(One, Legacy @@ Partial),
    Foreign(Strips, Odd), Foreign(One, BadCam) }
UnbuiltFiles == SmallFiles \cup {Foreign(Zip, Spice)}

Symmetric == Permutations(Paths)
=============================================================================
