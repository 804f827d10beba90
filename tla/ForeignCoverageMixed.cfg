SPECIFICATION Spec
CONSTANTS
    NumMods = 3
    Season = {"WIN", "SUM"}
    Type = {"LTEX", "TREE"}
    Section = {"LTEX", "TREE", "VisualEffects"}
    Record <- MCRecord
    TypeOf <- MCTypeOf
    Nameless = {"tree"}
    DiffuseOf <- MCDiffuseOf
    Bases <- MCBases
    Contents <- MCContents
    Settings <- MCSettings
INVARIANTS
    EveryRespectedSwapKept
\* the run of the program ends
CHECK_DEADLOCK FALSE
