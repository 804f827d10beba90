--------------------------- MODULE MCTextureMapping ---------------------------
(* An instance of TextureMapping for TLC: three textures, two of them environment  *)
(* masks, in two meshes that disagree about slots and types.                       *)
EXTENDS TextureMapping, TLC

CONSTANTS m1, m2

Used(t, slot, shader, flags) == [texture |-> t, slot |-> slot, shader |-> shader, flags |-> flags]

Mask(t) == Used(t, "ENVMASK", "ENVMAP", {"ENVIRONMENT_MAPPING"})
RMAOS(t) == Used(t, "ENVMASK", "DEFAULT", {"UNUSED01"})
Height(t) == Used(t, "PARALLAX", "PARALLAX", {"PARALLAX"})
Ignored(t) == Used(t, "GLOW", "DEFAULT", {})

MCTask == {"cave", "shield", "sign"}

\* the name of one texture tells nothing, another's that it is an environment mask
MCSuffix == [t \in MCTask |->
    CASE t = "cave" -> [slot |-> "UNKNOWN", type |-> "UNKNOWN"]
      [] t = "shield" -> [slot |-> "ENVMASK", type |-> "ENVIRONMENTMASK"]
      [] OTHER -> [slot |-> "DIFFUSE", type |-> "DIFFUSE"]]

MCUses ==
    { m1 :> <<Mask("cave"), Mask("cave"), Height("cave")>> @@ m2 :> <<Mask("sign"), Height("cave")>>,
      m1 :> <<Mask("cave"), Ignored("sign")>> @@ m2 :> <<RMAOS("cave"), Height("sign")>>,
      m1 :> <<Mask("cave")>> @@ m2 :> <<Mask("sign")>> }

=============================================================================
