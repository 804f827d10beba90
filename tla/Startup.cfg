SPECIFICATION StartupSpec
CONSTANTS
    Plugin <- MCPlugin
    Installation <- MCInstallation
    Params <- MCParams
    NoFile = NoFile
    NullMod = NullMod
    NoMesh = NoMesh
    Name <- MCName
    LowerName <- MCLowerName
    Mapped = {"meshes", "textures", "pbrnifpatcher", "pbrtexturesets", "lightplacer"}
    Blocked = {"big.esp"}
    Nif = {"grass.nif"}
    Texture <- MCTexture
    Dds <- MCDds
    MaxLogs = 1
INVARIANTS
    ActivePluginsExact
    MastersLoaded
    LoadsAllItCan
    UsesResolve
    MapsTheVisible
    JudgedByItsPixels
    ClosedAfterTheRun
PROPERTIES
    EveryRunIsReported
\* the program ends
CHECK_DEADLOCK FALSE
