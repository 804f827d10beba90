SPECIFICATION Spec
CONSTANTS
    Base = {"tree", "stage", "dirt", "path"}
    ModelLess = {"stage"}
    Shape = {0, 1}
    Slots <- MCSlots
    DiffuseOf <- MCDiffuseOf
    TextureName <- MCTextureName
    NoName = ""
    Season = {"WIN", "SUM"}
    Grass = {"fern"}
    Requests <- PBRRequests
    LandscapeDefaultID = 5
    LightMax = 6
    MaxFormID = 9
INVARIANTS
    ConfigNamesTextureSet
\* the run of the program ends
CHECK_DEADLOCK FALSE
