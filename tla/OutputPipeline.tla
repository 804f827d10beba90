--------------------------- MODULE OutputPipeline ---------------------------
(***************************************************************************)
(* AutoSeasonsRunner::run over several runs of the program: the log, the   *)
(* refusal to run over its own active output, the clearing of the output   *)
(* of the run before, the scan of the Data view and the writes, in their   *)
(* order, with a failure or the end of the process between any two steps.  *)
(* Between runs the user enables and disables the output mod, installs and *)
(* removes other mods and deletes files by hand.                           *)
(*                                                                         *)
(* A file of the output is known by its role: the merged ini of a season   *)
(* by the season, the empty ini over another mod's by that ini's name.     *)
(* One PBR rule and one texture set config stand for all of their kind.    *)
(* What is in the merged inis is the subject of ForeignCoverage: here, the *)
(* inis of other mods whose lines a merged ini holds; no mod is overridden.*)
(***************************************************************************)
EXTENDS Naturals, Sequences

CONSTANTS
    Season,
    ForeignIni,     \* inis other mods may have in Data/Seasons
    Seasons(_),     \* the seasons such an ini has swaps for
    MaxRuns         \* bound: the program is started so many times

Log == "AutoSeasons.log"
Plugin == "AutoSeasons.esp"
Rules == "PBRNIFPatcher"
TextureSets == "PBRTextureSets"
File == Season \cup ForeignIni \cup {Log, Plugin, Rules, TextureSets}

ASSUME PipelineAssumption ==
    /\ MaxRuns \in Nat
    /\ \A i \in ForeignIni : Seasons(i) \subseteq Season
    /\ Season \cap ForeignIni = {}
    /\ {Log, Plugin, Rules, TextureSets} \cap (Season \cup ForeignIni) = {}

VARIABLES
    disk,           \* outputDir: the run that wrote a file, 0 if it is not there
    folded,         \* the inis of other mods whose lines the merged ini of a season holds
    enabled,        \* the output mod is enabled in the mod manager
    installed,      \* the inis the other mods have
    run,            \* runs started
    dryRun,
    shown,          \* our files the Data view had at the start of the run
    at,             \* the step of the run
    todo,           \* the files the step has still to clear or to write
    seasonSwaps,    \* seasons for which the run has swaps of its own
    foreignInis,    \* outForeignIniFilenames
    relayed,        \* ... those that had lines: our own empty inis have none
    outputs,        \* which of Plugin, Rules and TextureSets the run has content for
    leftover,       \* history: files that could not be removed and not be written since
    excused         \* history: seasons whose merged ini was lost other than by a finished step

env == <<enabled, installed>>
findings == <<seasonSwaps, foreignInis, relayed, outputs>>
history == <<leftover, excused>>
pipelineVars == <<disk, folded, env, run, dryRun, shown, at, todo, findings, history>>

\* the folders in the order they are removed, then the plugin
CleanSteps == <<"clean Seasons", "clean PBRNIFPatcher", "clean PBRTextureSets", "clean plugin">>
\* A mutant: the empty inis are written before the merged ones.
WriteStepsSwapped == <<"writeForeignIniOverrides", "writeIniFiles", "writePBRJsonRules",
                       "writePBRTextureSetFiles", "savePlugin">>

\* the writers in the order they are called
WriteSteps == <<"writeIniFiles", "writeForeignIniOverrides", "writePBRJsonRules",
                "writePBRTextureSetFiles", "savePlugin">>
Steps == {"idle", "start", "scan"} \cup {CleanSteps[i] : i \in DOMAIN CleanSteps}
                                   \cup {WriteSteps[i] : i \in DOMAIN WriteSteps}
Running == at # "idle"

Cleared(step) ==
    CASE step = "clean Seasons" -> Season \cup ForeignIni
      [] step = "clean PBRNIFPatcher" -> {Rules}
      [] step = "clean PBRTextureSets" -> {TextureSets}
      [] OTHER -> {Plugin}

OnDisk == {f \in File : disk[f] # 0}
\* a file of ours is seen in Data if it was there at the start and still is
InDataView == shown \cap OnDisk

Init ==
    /\ disk = [f \in File |-> 0] /\ folded = [s \in Season |-> {}]
    /\ enabled = FALSE /\ installed \in SUBSET ForeignIni
    /\ run = 0 /\ dryRun = FALSE /\ shown = {} /\ at = "idle" /\ todo = {}
    /\ seasonSwaps = {} /\ foreignInis = {} /\ relayed = {} /\ outputs = {}
    /\ leftover = {} /\ excused = {}

-----------------------------------------------------------------------------
(* between runs *)

SwitchOutputMod ==
    /\ ~Running /\ enabled' = ~enabled
    /\ UNCHANGED <<disk, folded, installed, run, dryRun, shown, at, todo, findings, history>>

ChangeMods ==
    /\ ~Running /\ \E i \in ForeignIni :
           installed' \in {installed \cup {i}, installed \ {i}}
    /\ UNCHANGED <<disk, folded, enabled, run, dryRun, shown, at, todo, findings, history>>

DeleteByHand(f) ==
    /\ ~Running /\ disk[f] # 0
    /\ disk' = [disk EXCEPT ![f] = 0]
    /\ excused' = excused \cup ({f} \cap Season) /\ leftover' = leftover \ {f}
    /\ UNCHANGED <<folded, env, run, dryRun, shown, at, todo, findings>>

-----------------------------------------------------------------------------
(* a run *)

\* The log is opened and truncated before anything else.  Whether a log that was not there
\* shows up in the Data view of the process is the mod manager's affair.
Start ==
    /\ ~Running /\ run < MaxRuns
    /\ run' = run + 1 /\ dryRun' \in BOOLEAN
    /\ disk' = [disk EXCEPT ![Log] = run']
    /\ shown' \in IF enabled THEN {OnDisk, OnDisk \cup {Log}} ELSE {{}}
    /\ at' = "start"
    /\ leftover' = leftover \ {Log}
    /\ UNCHANGED <<folded, env, todo, findings, excused>>

Enter(step, files) == at' = step /\ todo' = files

\* What the run knows ends with it.
EndRun ==
    /\ Enter("idle", {}) /\ shown' = {}
    /\ seasonSwaps' = {} /\ foreignInis' = {} /\ relayed' = {} /\ outputs' = {}

\* The run ends with an exception, or the process does: no GPU, no game, a backend error, a
\* directory that cannot be made, a plugin that cannot be saved, power.
Fail ==
    /\ Running /\ EndRun
    /\ UNCHANGED <<disk, folded, env, run, dryRun, history>>

\* A mutant: only the plugin is looked for.
DetectedPluginOnly == {Plugin} \cap InDataView
Detected == InDataView

Refuse ==
    /\ at = "start" /\ Detected # {}
    /\ EndRun
    /\ UNCHANGED <<disk, folded, env, run, dryRun, history>>

\* A mutant: a preview clears the output, too.
PassCheckAlwaysCleans ==
    /\ at = "start" /\ Detected = {}
    /\ Enter(CleanSteps[1], Cleared(CleanSteps[1]) \cap OnDisk)
    /\ UNCHANGED <<disk, folded, env, run, dryRun, shown, findings, history>>

PassCheck ==
    /\ at = "start" /\ Detected = {}
    /\ IF dryRun THEN Enter("scan", {})
       ELSE Enter(CleanSteps[1], Cleared(CleanSteps[1]) \cap OnDisk)
    /\ UNCHANGED <<disk, folded, env, run, dryRun, shown, findings, history>>

\* remove_all removes file by file, in any order
Remove(f) ==
    /\ \E i \in DOMAIN CleanSteps : at = CleanSteps[i]
    /\ f \in todo /\ todo' = todo \ {f}
    /\ disk' = [disk EXCEPT ![f] = 0]
    /\ leftover' = leftover \ {f} /\ excused' = excused \cup ({f} \cap Season)
    /\ UNCHANGED <<folded, env, run, dryRun, shown, at, findings>>

\* A mutant: the texture set configs are not cleared.
EndCleanSkipping(i) ==
    /\ at = CleanSteps[i]
    /\ leftover' = leftover \cup todo
    /\ excused' = IF i = 1 THEN {} ELSE excused
    /\ \/ i = 1 /\ Enter(CleanSteps[2], Cleared(CleanSteps[2]) \cap OnDisk)
       \/ i = 2 /\ Enter(CleanSteps[4], Cleared(CleanSteps[4]) \cap OnDisk)
       \/ i = 4 /\ Enter("scan", {})
    /\ UNCHANGED <<disk, folded, env, run, dryRun, shown, findings>>

\* What cannot be removed is warned about and left there.
EndClean(i) ==
    /\ at = CleanSteps[i]
    /\ leftover' = leftover \cup todo
    /\ excused' = IF i = 1 THEN {} ELSE excused
    /\ IF i = Len(CleanSteps) THEN Enter("scan", {})
       ELSE Enter(CleanSteps[i + 1], Cleared(CleanSteps[i + 1]) \cap OnDisk)
    /\ UNCHANGED <<disk, folded, env, run, dryRun, shown, findings>>

\* what a writer has to write
Written(step) ==
    CASE step = "writeIniFiles" -> seasonSwaps \cup UNION {Seasons(i) : i \in relayed}
      [] step = "writeForeignIniOverrides" -> foreignInis
      [] step = "writePBRJsonRules" -> outputs \cap {Rules}
      [] step = "writePBRTextureSetFiles" -> outputs \cap {TextureSets}
      [] OTHER -> outputs \cap {Plugin}

\* an ini of ours covers the one of the same name and has no lines
RelayedOf(inis) == inis \ InDataView

\* Initialize, mapFiles and SeasonPatcher::run; the scan of Data/Seasons may end early.
\* Where there are swaps there is a plugin, which may hold other records, too.
Scan ==
    /\ at = "scan" /\ ~dryRun
    /\ seasonSwaps' \in SUBSET Season
    /\ outputs' \in SUBSET {Plugin, Rules, TextureSets} /\ (seasonSwaps' # {} => Plugin \in outputs')
    /\ foreignInis' \in SUBSET (installed \cup (InDataView \cap ForeignIni))
    /\ relayed' = RelayedOf(foreignInis')
    /\ at' = WriteSteps[1] /\ todo' = Written(WriteSteps[1])'
    /\ UNCHANGED <<disk, folded, env, run, dryRun, shown, history>>

EndPreview ==
    /\ at = "scan" /\ dryRun
    /\ EndRun
    /\ UNCHANGED <<disk, folded, env, run, dryRun, history>>

\* A file that cannot be opened is skipped, and whether the writing succeeds is not asked.  The
\* plugin is written or the run fails.
Write(f) ==
    /\ \E i \in DOMAIN WriteSteps : at = WriteSteps[i]
    /\ f \in todo /\ todo' = todo \ {f}
    /\ \/ /\ disk' = [disk EXCEPT ![f] = run] /\ leftover' = leftover \ {f}
          /\ folded' = IF f \in Season
                       THEN [folded EXCEPT ![f] = {i \in relayed : f \in Seasons(i)}] ELSE folded
          /\ excused' = excused \ {f}
       \/ /\ f # Plugin
          /\ excused' = excused \cup ({f} \cap Season)
          /\ UNCHANGED <<disk, folded, leftover>>
    /\ UNCHANGED <<env, run, dryRun, shown, at, findings>>

EndWrite(i) ==
    /\ at = WriteSteps[i] /\ todo = {}
    /\ IF i = Len(WriteSteps) THEN EndRun
       ELSE Enter(WriteSteps[i + 1], Written(WriteSteps[i + 1])) /\ UNCHANGED <<shown, findings>>
    /\ UNCHANGED <<disk, folded, env, run, dryRun, history>>

User == SwitchOutputMod \/ ChangeMods \/ \E f \in File : DeleteByHand(f)

RunStep ==
    \/ Start \/ Refuse \/ PassCheck \/ Scan \/ EndPreview \/ Fail
    \/ \E f \in File : Remove(f) \/ Write(f)
    \/ \E i \in DOMAIN CleanSteps : EndClean(i)
    \/ \E i \in DOMAIN WriteSteps : EndWrite(i)

Next == User \/ RunStep

Spec == Init /\ [][Next]_pipelineVars

-----------------------------------------------------------------------------

\* Types.
TypeOK ==
    /\ disk \in [File -> 0 .. MaxRuns] /\ folded \in [Season -> SUBSET ForeignIni]
    /\ enabled \in BOOLEAN /\ installed \subseteq ForeignIni
    /\ run \in 0 .. MaxRuns /\ dryRun \in BOOLEAN /\ shown \subseteq File
    /\ at \in Steps /\ todo \subseteq File
    /\ seasonSwaps \subseteq Season /\ foreignInis \subseteq ForeignIni
    /\ relayed \subseteq foreignInis /\ outputs \subseteq {Plugin, Rules, TextureSets}
    /\ leftover \subseteq File /\ excused \subseteq Season

\* Whatever was left over, deleted by hand or enabled between runs, a run that gets as far as
\* the scan sees none of its own files in Data.
ScansNoOwnOutput == at = "scan" => InDataView = {}

\* Where an empty ini silences one of another mod, the merged inis hold the lines of that
\* mod, after a failure at any step too; unless a merged ini could not be opened, was deleted
\* by hand or removed when a run ended while it cleared the folder, or the empty one could
\* not be removed.
SilencedOnlyIfFolded ==
    \A i \in ForeignIni : disk[i] # 0 /\ i \notin leftover =>
        \A s \in Seasons(i) \ excused : disk[s] # 0 /\ i \in folded[s]

\* Plugin, inis and PBR files are never of different runs, whichever of them failed and
\* where, but for files that could not be removed: swaps name FormIDs that the plugin of
\* another run gives to other records.
FilesOfOneRun ==
    \A f, g \in OnDisk \ ({Log} \cup leftover) : disk[f] = disk[g]

\* The program changes no file but its log in a preview, and none the game could be using.
OnlyDormantFilesChange ==
    [][Running => \A f \in File \ {Log} : disk'[f] # disk[f] => ~dryRun /\ f \notin shown]_pipelineVars

\* how far the run may go with the folder, and what is there
FolderPhase ==
    CASE at = "idle" -> "closed"
      [] at = "start" \/ (Running /\ dryRun) -> "looking"
      [] ~dryRun /\ at \in {CleanSteps[i] : i \in DOMAIN CleanSteps} -> "emptying"
      [] OTHER -> "filling"
OutputFile == File \ {Log}
WrittenBy == [f \in OutputFile |-> disk[f]]

Folder == INSTANCE OutputFolder
          WITH File <- OutputFile, written <- WrittenBy, phase <- FolderPhase,
               inUse <- shown \ {Log}, stuck <- leftover \ {Log}

\* The pipeline keeps what is promised of the folder: nothing in use and nothing in a preview is
\* touched, and what a run writes goes to a folder emptied of all that let itself be removed,
\* over any sequence of runs, failures, previews and deletions.
RebuiltFromEmpty == Folder!Spec

=============================================================================
