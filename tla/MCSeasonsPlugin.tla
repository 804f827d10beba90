--------------------------- MODULE MCSeasonsPlugin ---------------------------
(* Instances of SeasonsPlugin for TLC: four requests over three slot arrays    *)
(* and room for eight FormIDs, so that texture sets are shared, shapes are     *)
(* overridden twice, the light range is exceeded and the IDs run out.          *)
EXTENDS SeasonsPlugin

MCSlots == {"dirt-a", "dirt-b", "rock"}
MCTextureName == {"dirt", "rock", "LandscapeDirt02", "LandscapeDirt03"}
MCDiffuseOf == [s \in MCSlots |-> IF s = "rock" THEN "rock" ELSE "dirt"]

Over(shape, slots) == [shape |-> shape, slots |-> slots]

Model(base, season, overrides) ==
    [base |-> base, type |-> "STAT", season |-> season, txstEdid |-> "",
     overrides |-> overrides, grasses |-> {}, pbr |-> FALSE]

Land(base, season, edid, slots, grasses, pbr) ==
    [base |-> base, type |-> "LTEX", season |-> season, txstEdid |-> edid,
     overrides |-> <<Over(0, slots)>>, grasses |-> grasses, pbr |-> pbr]

MCRequests ==
    { Model("tree", "WIN", <<Over(0, "dirt-a"), Over(1, "dirt-b"), Over(0, "rock")>>),
      Model("tree", "WIN", <<Over(1, "dirt-a")>>),
      Model("stage", "WIN", <<Over(1, "rock")>>),
      Land("dirt", "WIN", "LandscapeDirt02", "dirt-a", {"fern"}, TRUE) }

\* two landscape records whose base texture sets differ only in name
PBRRequests ==
    { Land("dirt", "WIN", "LandscapeDirt02", "dirt-a", {}, TRUE),
      Land("path", "WIN", "LandscapeDirt03", "dirt-a", {}, TRUE) }

=============================================================================
