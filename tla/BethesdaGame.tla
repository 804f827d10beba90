---------------------------- MODULE BethesdaGame ----------------------------
(***************************************************************************)
(* BethesdaGame: the game folder is accepted or refused, then              *)
(* getActivePlugins reads the base plugins, Skyrim.ccc and plugins.txt,    *)
(* one step per line.                                                      *)
(*                                                                         *)
(* A plugin name stands for all its spellings: every comparison of the     *)
(* code ignores case.  The game folder, the registry and the user's        *)
(* AppData are the installation, which does not change during a run.       *)
(***************************************************************************)
EXTENDS Naturals, Sequences

CONSTANTS
    Plugin,
    Installation,   \* installations of the game, with the fields below
    Params,         \* the settings of a run: gameType and gameDir
    NoFile

GameType == {"SKYRIM_SE", "SKYRIM_GOG", "SKYRIM_VR", "ENDERAL_SE"}

getAppDataLocation(type) ==
    CASE type = "SKYRIM_SE" -> "Skyrim Special Edition"
      [] type = "SKYRIM_GOG" -> "Skyrim Special Edition GOG"
      [] type = "SKYRIM_VR" -> "Skyrim VR"
      [] type = "ENDERAL_SE" -> "Enderal Special Edition"

getDataCheckFile(type) ==
    CASE type \in {"SKYRIM_SE", "SKYRIM_GOG"} -> "Skyrim.esm"
      [] type = "SKYRIM_VR" -> "SkyrimVR.esm"
      [] type = "ENDERAL_SE" -> "Enderal - Forgotten Stories.esm"

\* A name it does not know is Skyrim SE, and so are all those the command line's help names.
getGameTypeFromStr(name) ==
    CASE name = "Skyrim GOG" -> "SKYRIM_GOG"
      [] name = "Skyrim VR" -> "SKYRIM_VR"
      [] name = "Enderal SE" -> "ENDERAL_SE"
      [] OTHER -> "SKYRIM_SE"

\* the game types getGameRegistryPath knows a registry path of
RegistryTypes == {"SKYRIM_SE", "SKYRIM_VR", "ENDERAL_SE"}

BasePlugins == <<"Update.esm", "Dawnguard.esm", "HearthFires.esm", "Dragonborn.esm">>

ASSUME GameAssumption ==
    /\ {"Skyrim.esm", "SkyrimVR.esm", "Enderal - Forgotten Stories.esm"} \subseteq Plugin
    /\ \A i \in DOMAIN BasePlugins : BasePlugins[i] \in Plugin
    /\ \A p \in Params : p.gameType \in GameType
    /\ \A inst \in Installation :
           /\ inst.data \subseteq Plugin       \* the plugins in the Data folder
           /\ inst.ccc \in Seq(Plugin)         \* the lines of Skyrim.ccc, comments left out
           /\ inst.registered \subseteq GameType
           \* plugins.txt of each game: a line is starred, and so active, or not
           /\ \A type \in GameType : LET file == inst.pluginsTxt[getAppDataLocation(type)] IN
                  file = NoFile \/ file \in Seq([plugin : Plugin, active : BOOLEAN])

VARIABLES
    installation, params,
    at,         \* the step of the run
    line,       \* the next line of the file being read
    outputLO

gameVars == <<installation, params, at, line, outputLO>>

GameInit ==
    /\ installation \in Installation /\ params \in Params
    /\ at = "game"
    /\ line = 1
    /\ outputLO = <<>>

-----------------------------------------------------------------------------
(* The constructor *)

Located ==
    \/ params.gameDir # NoFile
    \/ params.gameType \in installation.registered \cap RegistryTypes

isGamePathValid ==
    /\ getDataCheckFile(params.gameType) \in installation.data
    /\ installation.pluginsTxt[getAppDataLocation(params.gameType)] # NoFile

\* The folder that is given or found may not exist.
Construct ==
    /\ at = "game"
    /\ Located /\ params.gameDir # "missing" /\ isGamePathValid
    /\ at' = "constructed"
    /\ UNCHANGED <<installation, params, line, outputLO>>

ConstructThrows ==
    /\ at = "game"
    /\ ~(Located /\ params.gameDir # "missing" /\ isGamePathValid)
    /\ at' = "failed"
    /\ UNCHANGED <<installation, params, line, outputLO>>

-----------------------------------------------------------------------------
(* getActivePlugins *)

Present(p) == p \in installation.data
Listed(p) == \E i \in DOMAIN outputLO : outputLO[i] = p

BaseIfPresent(p) == IF Present(p) THEN <<p>> ELSE <<>>

\* Skyrim.esm is not looked for.
AddBasePlugins ==
    /\ at = "constructed"
    /\ outputLO' = <<"Skyrim.esm">>
           \o BaseIfPresent(BasePlugins[1]) \o BaseIfPresent(BasePlugins[2])
           \o BaseIfPresent(BasePlugins[3]) \o BaseIfPresent(BasePlugins[4])
           \o (IF params.gameType = "SKYRIM_VR" THEN BaseIfPresent("SkyrimVR.esm") ELSE <<>>)
    /\ at' = "ccc"
    /\ UNCHANGED <<installation, params, line>>

\* A mutant: a plugin that is listed is added again.
AddPluginAgain(p) == outputLO' = IF Present(p) THEN Append(outputLO, p) ELSE outputLO

AddPlugin(p) ==
    outputLO' = IF Present(p) /\ ~Listed(p) THEN Append(outputLO, p) ELSE outputLO

ReadCccLine ==
    /\ at = "ccc" /\ line <= Len(installation.ccc)
    /\ AddPlugin(installation.ccc[line])
    /\ line' = line + 1
    /\ UNCHANGED <<installation, params, at>>

EndCcc ==
    /\ at = "ccc" /\ line > Len(installation.ccc)
    /\ at' = "plugins.txt"
    /\ line' = 1
    /\ UNCHANGED <<installation, params, outputLO>>

PluginsFile == installation.pluginsTxt[getAppDataLocation(params.gameType)]

\* another program may hold plugins.txt open
CannotOpenPlugins ==
    /\ at = "plugins.txt" /\ line = 1
    /\ at' = "failed"
    /\ UNCHANGED <<installation, params, line, outputLO>>

ReadPluginsLine ==
    /\ at = "plugins.txt" /\ line <= Len(PluginsFile)
    /\ IF PluginsFile[line].active THEN AddPlugin(PluginsFile[line].plugin)
                                   ELSE UNCHANGED outputLO
    /\ line' = line + 1
    /\ UNCHANGED <<installation, params, at>>

EndPlugins ==
    /\ at = "plugins.txt" /\ line > Len(PluginsFile)
    /\ at' = "initialize"
    /\ UNCHANGED <<installation, params, line, outputLO>>

GetActivePlugins ==
    \/ AddBasePlugins \/ ReadCccLine \/ EndCcc
    \/ CannotOpenPlugins \/ ReadPluginsLine \/ EndPlugins

GameNext == Construct \/ ConstructThrows \/ GetActivePlugins

-----------------------------------------------------------------------------

\* the plugins the game of the settings loads beside its base plugins
ActiveLines ==
    {installation.ccc[i] : i \in DOMAIN installation.ccc}
        \cup {PluginsFile[i].plugin : i \in {j \in DOMAIN PluginsFile : PluginsFile[j].active}}

\* The base plugins, those of Skyrim.ccc and those starred in plugins.txt are listed if they
\* are in Data, each once, where it is named first: a plugin both in Skyrim.ccc and in
\* plugins.txt, starred or not, keeps its place among the former (getActivePlugins).
ActivePluginsExact ==
    at \notin {"game", "constructed", "ccc", "plugins.txt", "failed"} =>
        /\ \A i, j \in DOMAIN outputLO : outputLO[i] = outputLO[j] => i = j
        /\ \A p \in ActiveLines \cap installation.data : Listed(p)
        /\ \A i \in DOMAIN outputLO : i > 1 => Present(outputLO[i])
        /\ \A i, j \in DOMAIN outputLO :
               LET ccc == {installation.ccc[k] : k \in DOMAIN installation.ccc}
                   base == {BasePlugins[k] : k \in DOMAIN BasePlugins}
                               \cup {"Skyrim.esm", "SkyrimVR.esm"}
               IN  outputLO[i] \in ccc \ base /\ outputLO[j] \notin ccc \cup base => i < j

=============================================================================
