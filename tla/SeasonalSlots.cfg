SPECIFICATION Spec
CONSTANTS
    Model = {"stones", "ruin"}
    Land = {"path", "field", "drift"}
    Shape = {0, 1}
    MeshOf <- MCMeshOf
    Alternate <- MCAlternate
    Embedded <- MCEmbedded
    LandSlots <- MCLandSlots
    TextureSetOf <- MCTextureSetOf
    Grass = {"fern", "moss"}
    GrassesOf <- MCGrassesOf
    Folder = {"landscape", "roads"}
    Word <- MCWord
    Games <- MCGames
INVARIANTS
    OneRulePerTexture
    SameMaterialSameTextures
    HeightOfItsSeason
    UnlockedForVanilla
    ConfigsClonedOnce
    GrassSwappedAlike
\* the run of the program ends
CHECK_DEADLOCK FALSE
