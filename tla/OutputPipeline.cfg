SPECIFICATION Spec
CONSTANTS
    Season = {"WIN", "SUM"}
    ForeignIni = {"birch", "snow"}
    Seasons <- MCSeasons
    MaxRuns = 2
INVARIANTS
    ScansNoOwnOutput
    SilencedOnlyIfFolded
    FilesOfOneRun
PROPERTIES
    RebuiltFromEmpty
