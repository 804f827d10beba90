SPECIFICATION Spec
CONSTANTS
    Base = {"tree", "stage", "dirt", "path"}
    ModelLess = {"stage"}
    Shape = {0, 1}
    Slots <- MCSlots
    DiffuseOf <- MCDiffuseOf
    TextureName <- MCTextureName
    NoName = ""
    Season = {"WIN", "SUM"}
    Grass = {"fern"}
    Requests <- MCRequests
    LandscapeDefaultID = 5
    LightMax = 6
    MaxFormID = 9
INVARIANTS
    TypeOK
    UniqueFormIDs
    NoDanglingReference
    TexturesAsRequested
    OneTextureSetPerSlots
    LightPluginFits
PROPERTIES
    RecordsOnlyAdded
\* the run of the program ends
CHECK_DEADLOCK FALSE
