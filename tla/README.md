# AutoSeasons in TLA+

AutoSeasons gives the records of a Skyrim load order seasonal variants. It maps the textures of
the game, asks which records can be given seasonal textures, creates the duplicates in a plugin of
its own (`AutoSeasons.esp`) and writes the inis by which *Seasons of Skyrim* swaps records by
season. Mods with inis of their own are read, folded into the inis AutoSeasons writes, and silenced.

This directory holds TLA+ models of that program, the TLC configurations that check them on small
instances, and TLAPS proofs that lift every safety result to every instance. `PROJECT.json` lists the runs, the mutants
that show each property can fail, the lines each definition stands for, hazards and theorems.

    tlc -workers 2 -config Startup.cfg MCStartup     # a run
    tlapm LoadOrderProofs.tla                         # proofs

File names in this document are relative to `src/AutoSeasons/src` (C++), and `ASMutagen.cs` is
`src/ASMutagen/ASMutagen.cs` (C#, the plugin backend).

## 1 The system

### 1.1 Components

| Component | State | Operations | Hard behaviour | Correct means |
|---|---|---|---|---|
| Plugin backend (`ASMutagen.cs`) | output plugin, reserved FormIDs, caches of texture sets and grass, load order index | Initialize, PopulateObjs, DuplicateGrass, PatchLandscapeDefaultParallax, EnsureDefaultPBRLand, GenerateSeasonalDuplicates, Finalize | requests fail half-way and leave records; caches shared across requests; FormIDs run out | FormIDs unique and kept; references resolve; shapes show what was asked; light flag only if every FormID fits |
| Season patcher (`SeasonPatcher.cpp`) | swaps per season, foreign coverage, raw lines per section, PBR rules | loadForeignSeasonCoverage, resolveEffectiveCoverage, writeIniFiles, writeForeignIniOverrides, writePBRJsonRules, writePBRTextureSetFiles | priorities and overrides computed in two places; two keys for one record; line order decides who wins | AutoSeasons wins where the user wants, other mods where the user wants, nobody's lines are lost |
| The walk over the records (`SeasonPatcher::run`) | requests, PBR rules and configs to write, grass cache, landscape defaults | the model loop, the landscape loop, recordPBRRuleIfNeeded, getOrCreateSeasonalGrass | one answer per material, season and grass, whatever record comes first and whoever covers those in between | a material has one texture per season; rules and configs once; the terrain shader only if it is needed |
| Texture mapping (`PGDirectory.cpp`) | votes per texture, slot maps, type map | mapFiles, mapTexturesFromNIF, checkIfCMAddToMap, waitForCMClassification | mesh tasks on many threads, classification on another | the map says what most meshes say; nothing is forgotten |
| `TaskQueue` | queue, three atomics, mutex, condition variable | queueTask, waitForCompletion, shutdown, isWorking, isProcessing | lost wake-ups, windows between two atomics | every task runs once, in order; waiting and shutdown return |
| `TaskPoolRunner`, `ExceptionHandler` | counter, stored exception | addTask, runTasks | exceptions of pool threads, polling of a counter | all done on return; the first exception is rethrown |
| Run pipeline (`AutoSeasonsRunner.cpp`, `main.cpp`) | output directory | run: log, refuse, clear, scan, write | failure between any two writes; previews; output enabled between runs | files of one run; no mod silenced without its lines kept |
| `BethesdaGame` (`common/BethesdaGame.cpp`) | game type and folders | constructor, getActivePlugins | one list from three files with different rules | each active plugin once, in its place |
| Load order (`ASMutagen.cs` Initialize, PopulateObjs, EnumerateAllModelUses) | load order, model and grass index | as named | missing masters through chains and circles; an index built once and asked later; records that throw | what can be loaded is, nothing else; the index resolves against the winning versions |
| File map (`common/BethesdaDirectory.cpp`) | file map, generated files and what they hid | populateFileMap, addLooseFilesToMap, updateFileMap, addGeneratedFile, lookups | folders hidden at any depth, tested one level at a time; paths in two spellings | what can be seen of the mapped folders is there, nothing of what lies under a hidden folder; generated files take nothing away |
| PGPlugin, PGMutagenWrapper | none | marshalling of calls, rethrow of backend exceptions | an exception reaches C++ through a text | as the backend |
| PGD3D (`PGD3D.cpp`, the count shader) | GPU device, bindings, metadata cache | initGPU, initShaders, checkIfCM | the GPU works at its own time; steps fail and leave commands behind | a texture is judged by its own pixels |
| NIF utilities (`pgutil`) | mesh permutations | reading, hashing and naming of meshes | none of its own | data transformation |
| Progress window (`GUI/ProgressWindow.cpp`) | run thread, queued calls, close button | log lines, report, close | the user closes, the run ends and queued calls arrive at any time | no call to a window that is gone, no report lost, every run reported |
| Launcher, override dialog | widgets | edit settings | none of its own | views |
| Configuration, translations, logging, helpers | settings, texts, log buffers | load, save, lookups | wrongly typed settings | data and I/O |

### 1.2 Interaction

`main` calls `AutoSeasonsRunner::run`, on its own thread from the command line, on a thread of the
progress window from the launcher. It opens the log, finds the game and the GPU, refuses to run
over its own active output, clears what the last run wrote, has the backend read the load order
(`PGPlugin`), has `BethesdaDirectory` and `PGDirectory` map files and textures, and calls
`SeasonPatcher::run`. That reads the inis of other mods first, then walks the records; for each
record and season it computes textures from the file map and collects the duplicates to make, which
it then has the backend make season by season, synchronously and from one thread. Finally the
patcher writes the inis and PBR files and the backend saves the plugin. The concurrency is in `mapFiles` (mesh tasks on a `TaskPoolRunner`, with classification on
a `TaskQueue` worker) and between the run thread and the progress window.

| Caller | Callee | How |
|---|---|---|
| SeasonPatcher | plugin backend | synchronous calls: one per grass while it walks the records, one per season and record type with a batch of requests; errors as exceptions |
| PGDirectory | TaskPoolRunner | mesh tasks that vote under a mutex |
| PGDirectory | TaskQueue | callables with the winning slot bound in |
| AutoSeasonsRunner | all of them | in sequence; an exception ends the run |
| run thread | progress window | `CallAfter`: calls queued for the thread of the window |
| checkIfCM | GPU | commands queued on the context; mapping a buffer waits for them |
| run | next run | the files on disk, and what the mod manager shows of them in Data |

### 1.3 Which part is modelled where

| Module | Code | Kind |
|---|---|---|
| `BethesdaGame` | `common/BethesdaGame.cpp`: constructor, getActivePlugins | component |
| `LoadOrder` | `ASMutagen.cs`: Initialize, PopulateObjs, EnumerateAllModelUses | component, over `BethesdaGame` |
| `FileMap` | `common/BethesdaDirectory.cpp` | component, over `BethesdaGame` |
| `GpuClassification` | `PGD3D.cpp`: checkIfCM and what it calls, `CountAlphaValues.hlsl` | component, over `FileMap` |
| `ProgressWindow` | `GUI/ProgressWindow.cpp` | component |
| `Startup` | `main.cpp`, `AutoSeasonsRunner.cpp` up to the scan, and how the run ends | composition of the five |
| `SeasonsPlugin` | `ASMutagen.cs`: duplicates, texture sets, grass, landscape, Finalize | component |
| `ForeignCoverage` | `SeasonPatcher.cpp`: reading foreign inis, coverage, merged inis, emptied inis | component |
| `SeasonalSlots` | `SeasonPatcher.cpp`: buildSeasonalSlots and the walk of run over the records | component |
| `SerialExecutor` | what `TaskQueue.hpp` promises | abstract specification |
| `TaskQueue` | `util/TaskQueue.cpp` | component, implements `SerialExecutor` |
| `TaskPoolRunner` | `util/TaskPoolRunner.cpp`, `util/ExceptionHandler.cpp` | component |
| `TextureMapping` | `PGDirectory.cpp`: mapFiles and waitForCMClassification | composition with `TaskQueue` |
| `OutputFolder` | what `AutoSeasonsRunner::run` does to the output folder, seen from the folder | abstract specification |
| `OutputPipeline` | `AutoSeasonsRunner.cpp`, the writers of `SeasonPatcher.cpp` | composition over several runs, implements `OutputFolder` |
| `LoadOrderProofs` | | theorems (section 4) about `BethesdaGame` and `LoadOrder` |
| `StartupProofs` | | about `FileMap`, `GpuClassification`, `ProgressWindow` and the whole `Startup` |
| `TextureMappingProofs` | | about `TaskQueue` and `TextureMapping` |
| `SeasonsPluginProofs`, `ForeignCoverageProofs`, `SeasonalSlotsProofs`, `TaskPoolRunnerProofs`, `OutputPipelineProofs` | | about the module of the name |
| `MC...` | | definitions of constants for TLC |

## 2 The modules

### 2.1 SeasonsPlugin

A request is one entry of the batches `SeasonPatcher::run` sends to `GenerateSeasonalDuplicates`;
`Requests` is the constant set of them, served in any order (the batches lie in a hash map). `phase`
follows the patcher through its calls: `collect` (grass duplicates are made while the records are
walked), `patch` and `ensure` (the two landscape fallbacks), `generate`, then `written`, `empty` or
`aborted`. `allocated` and `lastUsed` are the reserved FormIDs, `cache` is `NewTextureSets`, and
`textureSets`, `duplicates`, `grassRecords`, `defaultPatched` are the plugin's records.

`GenerateSeasonalDuplicates` is one action per request (`BeginRequest`, or `SkipRequest` and
`AbandonRequest` for the two ways it is given up) and one per shape override (`ApplyOverride`), with
`building` the record in between. Each of them allocates and may throw, for want of a FormID or for any
other reason, and the call catches whatever a request throws (`ASMutagen.cs:1383`): the texture sets
of a request that failed at any of its overrides (`RequestThrows`) stay in the plugin and in the cache, where
later requests share them, and its FormID stays reserved. What the other calls throw ends the run
(`CallThrows`). `GetLowestAvailableFormID` is the least number past the last one used that is not
reserved. The override of LandscapeDefault is no record of the plugin's own; its FormID counts for
the light flag only, as in the code.

A slot array is a value of `Slots`; `DiffuseOf` gives the part the names of texture sets are built
from. Six record types with a Model stand behind `STAT`: the code treats them alike.

### 2.2 ForeignCoverage

The inis of other mods (`content`) are sequences of lines; a line has a section, a base and a target,
each written as FormID or EditorID. `phase` follows a run: `scan` reads one ini per step in
directory order, which is any order, and may end early when the directory iterator fails; `request`
builds the requests for whatever part of `Bases` has seasonal textures; `generate` says which of them
the backend made; `order` sorts the raw
lines; `write` and `neutralise` write the merged and the emptied inis, where any may fail to open.
`settings` are the global and per-type lists of overridden mods and priorities with their different
fallbacks. The game is external: it evaluates the inis of a season in alphabetical order, AutoSeasons'
own last, and the last line for a record wins (`Evaluated`, `LastSwap`, `Shown`). The properties thus
compare what the user asked for with what the game shows, not with the intermediate decisions of the
code.

### 2.3 SeasonalSlots

What stands between the file map and the requests `SeasonsPlugin` takes. A texture path is a folder,
whether it lies under `textures\pbr`, and its name as a sequence of words (`dirt`, `winter`, `n`), since
all the code does with names is to cut a known suffix off, put a season's alias in and compare.
An optional value of the code is a set with at most one element, an empty slot is left out of the
domain. `game` is the installation: an input that stays.

`phase` is the loop that runs, `current` and `season` are where it is. `EnterModel` and `EnterLand`
are what the loops do before the seasons, `ServeModel` and `ServeLand` one season of one record with all
it writes down, `PassSeason` a season that is left out because another mod covers the record:
whether one does is `ForeignCoverage`'s subject and free here, as is whether the grass of that
mod is taken over (`borrowed`). A record that could be served may thus always be passed over, and the
properties must hold for every subset of the records. The records come in any order: the meshes lie in a
hash map, the landscape textures in the order the plugins give them. The backend may come back
with no grass, a config may not parse (`CloneConfig`), and any call may end the run (`RunThrows`).

### 2.4 SerialExecutor, TaskQueue

One action per access of shared state: the predicate and the block of `condition_variable::wait`
are separate steps, the queue size and the busy flag are read one after the other. The mutex is
no variable: the worker's states say where it holds it. The client is at one operation at a time,
as the only user of the class is `PGDirectory` from the main thread. `SerialExecutor` knows the tasks
submitted and started, whether one is running, whether one has failed and whether the executor is
closed: tasks start one at a time in the order of submission, and none after a failure.

### 2.5 TaskPoolRunner

Threads take tasks in order from the pool, test the exception flag, run, and count. The main thread
polls the counter and the flag. The pool has two threads fewer than the machine (`Thread`), and is
`Refused` on one core, where the unsigned subtraction wraps. `boost::asio::thread_pool` is external:
it starts posted tasks in order, one per free thread, `stop()` prevents those that have not begun, and `join()` waits.

### 2.6 TextureMapping

Extends `TaskQueue`; the tasks are the textures. What a classification computes is
`GpuClassification`'s subject; here it answers or fails. A mesh is a sequence of uses (texture, slot, shader,
flags), and `Rules` is the decision table of `mapTexturesFromNIF`. Mesh tasks interleave use by use,
the main thread confirms textures one by one, and the worker classifies. All waiting goes through
the real queue, which is why the hole of `waitForCMClassification` shows here.

### 2.7 OutputFolder, OutputPipeline

A file on disk is known by the run that wrote it. One step of a run is one removal or one write, and
`Fail` may come between any two. The user's actions are between runs. `folded` records which mods'
lines a merged ini holds; what these lines are is the subject of `ForeignCoverage`. What the mod
manager shows in Data is fixed at the start of a run, except that a removed file is gone.

`OutputFolder` knows neither the steps nor the contents: a run looks at the folder, empties it if nothing in it is in
use, fills it, and closes it, which it may do at any time. To fill, everything of earlier runs must have been taken out
or been tried (`Fill`). The mapping leaves the log out, which every run writes, and takes a preview for a run that
only looks (`FolderPhase`). The four clearing steps, which each look at the disk anew, are one phase there, and so are the five writers.

### 2.8 BethesdaGame and LoadOrder

`at` is the step of the run, shared by the modules of `Startup`, and `line` the next line of the file,
entry of the load order or record it is at. A plugin name stands for all its spellings, since every
comparison of the code ignores case; `installation` holds the files of the game, the registry and the
user's folders, which a run only reads. The constructor is one action and its failure another,
getActivePlugins one per line. Skyrim.esm is listed whether or not it is there, as in the code.

Of `LoadOrder`, `FindValidMods`, `LoadNextPlugin` and `BuildEnvironment` are the three parts of
Initialize; the loop is one action per plugin, with the sets `validMods` and
`modsWithMissingMasters` as the code keeps them. An environment that cannot be built is only logged:
`env` stays null, and PopulateObjs throws for it (`CallThrows`, which is also any other exception of
a call: the wrapper fetches and rethrows it). PopulateObjs indexes record by record; a record
that throws is skipped alone or ends its type (`RecordThrows`), depending on where the
enumerator stands, which `EnumerateModelRecordsSafe` does not know. Mutagen is external: it reads
plugins and answers for the winning version of a record (`Winner`).

### 2.9 FileMap

A path is a sequence of names as they are spelled, `Lower` puts it in lower case, and `fileMap` gives a
path its source, `loose` or `generated`. `MapTop` is the start of populateFileMap: what lies in Data itself, files
only, and the folders to map, which are opened by their names, hidden or not. `WalkFolder` is one directory of
addLooseFilesToMap: everything in it that is not hidden or blocked is mapped under its path in lower case,
directories like files, and the directories that are not hidden are still to be entered (`toWalk`, in any
order). isHidden tests an entry and not what is above it, so that nothing but the walk keeps the files of a
hidden folder out. `EndWalk` ends it. `hidden` is the set of the entries that isHidden takes for hidden, by name or attribute.

addGeneratedFile takes its path as it is spelled (`AddGeneratedFile`). The patcher's paths are never all in lower
case, so that in the program they meet no native key and `restoreMap` stays empty; the branch that fills it is
in the model, since the code has it. Archives, clearing and filling again are left out: the program calls
`populateFileMap(false)` once, and nothing calls clearGeneratedFiles. A lookup locks twice
(`BethesdaDirectory.cpp:227`); as nothing removes an entry while other threads read the map, the two reads
are one in the model.

### 2.10 GpuClassification

checkIfCM has a step for each call that can fail: metadata, image, the resources, binding, dispatch,
unbinding, copy, mapping. `commands` is the queue of the device context; `Execute` is the GPU, external but
for the shader, which adds one per pixel and channel. The query the code makes after a dispatch is asked once and
its answer not waited for, so that it is no step of its own; what waits is `Map`. `Fails` ends a call at any
step and leaves `commands` and `bound` as they are. A size that is no power of two is a failure.

### 2.11 ProgressWindow and Startup

`worker` is the thread of the run as the window sees it, `calls` what it has queued with `CallAfter`,
`shown` history. Queued calls are made one at a time by the window's event loop, also while its
message box is open.

`Startup` composes everything up to the scan: the run's steps in `AutoSeasonsRunner`'s order (`RunStep`),
the GPU, the run's end (`EndRun`) and the window's steps. What follows the scan, the subject of the other
modules, appears as files that are generated, or as a failure (`Generate`). The settings say who started the run;
the command line's game types pass through `getGameTypeFromStr`, and the launcher always runs with threads
(the default argument of `AutoSeasonsRunner::run`).

Of the mesh tasks and the classification queue, each a module of its own, `Startup` has what decides how a run ends:

- `mapping` is where mapFiles is. A task that throws stores its exception (`stored`) and is never counted: with threads
  runTasks then polls for ever (`hangs`), without them it stops at this task and the run goes on (`TaskThrows`).
- `queue` is the classification queue, made with `PGDirectory` as soon as the game is found. A classification
  may throw only where it stores what it found (`ClassifyThrows`); with threads the worker then ends, and
  waitForCompletion does not return if tasks were queued behind.
- `Shutdown` joins the worker, which may have missed its notification (finding 2); it is called before the records are
  enumerated, or when a failed run unwinds and destroys `PGDirectory`. A run whose queue is neither absent nor
  closed does not end.
- `exitCode` is 1 if the run threw or anything is stored, as `runCLI` asks `ExceptionHandler` at its end; the
  launcher does not ask, and its window reports what `run` threw and nothing else.

## 3 What the runs check

| Run | Property | What it says |
|---|---|---|
| `plugin` | UniqueFormIDs | no two records, of any type, share a FormID |
| | NoDanglingReference | the texture sets and grasses a record refers to are in the plugin, after any failure |
| | TexturesAsRequested | a finished duplicate shows the textures its request asked for, through whatever cached set |
| | OneTextureSetPerSlots | equal textures share a texture set |
| | LightPluginFits | the plugin is flagged light only if all FormIDs fit |
| | RecordsOnlyAdded | a record once added stays as it is, and a reserved ID is never handed out again |
| `plugin_pbr_config` | ConfigNamesTextureSet | violated: finding 1 |
| `taskqueue` | RunsSerially | the queue implements `SerialExecutor` |
| | WaitThenShutdownRunsAll | after waitForCompletion and shutdown no task is left |
| | EveryTaskStarts, WaitReturns | no lost wake-up on push; waiting ends |
| `taskqueue_shutdown` | ShutdownReturns | violated: finding 2 |
| `pool` | ReturnMeansDone, RunEnds | runTasks returns only when all is done (single-threaded: or an exception is held); without an exception it does return and the pool is destroyed |
| | FewBeginLate | after an exception fewer tasks than there are threads still begin |
| `foreign` | OurSwapsWin | a duplicate that was made is what the game shows for the record |
| | OverriddenModsAreSilent | an overridden mod's lines do not show for records of that type once its ini is emptied |
| | RespectedSwapsKept | if the priorities prefer a mod that swaps a record, the game shows something for the record, and it is that mod's swap or a duplicate with its grass; records that inis name by both keys are finding 3 |
| | SeasonalTargetsAreNoBase | what a mod swaps to is not itself given seasons, unless a mod covers it as a base |
| `foreign_mixed` | EveryRespectedSwapKept | violated: finding 3 |
| `slots` | OneRulePerTexture | a seasonal PBR texture has one rule, a mod's or ours, never two |
| | SameMaterialSameTextures | records that show one material for which there is a rule get PBR textures with the same diffuse texture, in whatever folder a plugin has put them, and the same texture in every slot if what the plugins wired is what the rule wires; what a plugin wired differently is kept ("Trust the ESP's own already-resolved slots") |
| | HeightOfItsSeason | no duplicate shows the height map of another season or texture |
| | UnlockedForVanilla | LandscapeDefault gets a height map if and only if a landscape that is not PBR did |
| | ConfigsClonedOnce | texture set configs are cloned once, for PBR duplicates, and never over a mod's |
| | GrassSwappedAlike | in a season a grass is swapped alike everywhere and duplicated at most once |
| `mapping` | MapsAsVoted | at the end each texture has the slot and the type most loaded meshes give it, in both maps |
| | NoTextureForgotten, MapFilesReturns | every usable texture is mapped, unless the GPU failed or the queue dropped it; mapFiles ends |
| `mapping_wait` | ClassifiedWhenWaitedFor | violated: finding 4 |
| `pipeline` | ScansNoOwnOutput | the scan of Data never sees output of an earlier run |
| | SilencedOnlyIfFolded | a mod's ini is shadowed only while merged inis hold its lines; `excused` and `leftover` are the merged inis and empty inis no program could answer for |
| | FilesOfOneRun | plugin, inis and PBR files on disk are of one run, but for files that could not be removed |
| | RebuiltFromEmpty | the pipeline implements `OutputFolder`: a preview, or a run over active output, changes nothing but the log, and what is written goes to an emptied folder |

| `startup` | ActivePluginsExact | each plugin that is starred or in Skyrim.ccc and present is listed once, at the place of its first naming |
| | MastersLoaded | a loaded plugin has the masters loaded that come before it, through any chain of plugins that were left out |
| | LoadsAllItCan | any set of readable plugins that need only each other is loaded, in whatever order and with circles: nobody is left out for another's fault |
| | UsesResolve | the index answers for the winning versions only, with both meshes of a weight slider, and returns every use of the supported types but those of records that threw |
| | MapsTheVisible | a filled map has everything that can be seen of the mapped folders and at the top, and nothing that lies under a hidden folder, however deep; no generated file takes an entry away |
| | JudgedByItsPixels | an answer is drawn from the texture's own pixels, counted once, whatever earlier failures left on the GPU |
| | ClosedAfterTheRun | the window closes only after the run has ended and everything it said was shown |
| | EveryRunIsReported | every run that does not wait for ever for its own threads ends, and exit code or window tell whether it failed; the exit code also tells of a task whose exception did not end the run |

`plugin` also checks TypeOK, the range of the FormIDs included. The type invariants of `TaskQueue`, `TaskPoolRunner`
and `OutputPipeline` are proved with the inductive invariants they belong to; the typing of the other
modules is in the properties, which TLC could not evaluate otherwise.

### 3.1 Bounds, and why they are enough

- `plugin`: four requests (two for a tree, one for a record without a Model, one for a landscape
  texture with grass) over three slot arrays, FormIDs 2 to 9, `LightMax` 6, LandscapeDefault at 5. The
  IDs run out in the middle of a request, the light limit is crossed, a shape is overridden twice, and
  requests of one record and of two records share texture sets. The theorems lift these bounds.
- `taskqueue`: three tasks: one running, one queued and one being pushed meet at once. The worker's
  loop has no state beyond queue, flags and program counter, so that a fourth task repeats a state.
- `pool`: four tasks on two threads (four cores less the two the code keeps free): each thread
  finishes one and begins another while the other is inside, and with an exception two tasks are
  skipped.
- `foreign`: three mods (the code compares a winner with all others; with three there are a
  middle one, ties and one overridden between two respected), two seasons, two record types, six
  settings that cover global and per-type lists, empty and not, and disagreements between them;
  627,787 distinct states.
- `slots`: five records: two landscapes with one texture set (one of them under `textures\pbr`), two
  statics with one mesh that show the same material, a texture of the same name in another folder, and a
  landscape without a rule; so that each kind of record meets each other over a rule, a config, a
  grass and a height map. Winter art in every combination of five groups of files under each of four
  settings of rules, configs and defaults: 128 installations. The seasons share no state but the
  sets of things done, so winter and one summer texture show what several seasons can do; 387,222
  distinct states.
- `mapping`: two meshes that disagree and agree over three textures: majority, tie, no vote with
  and without a telling suffix; 82,516 states.
- `pipeline`: `MaxRuns` 2. A file is of the current run or of an earlier one, and a third run meets
  only files of the first two; two seasons and two foreign inis with different season sets give
  partial writes in every position; 2,184,460 distinct states.
- `startup`: an installation differs from a plain one in one respect at a time, since the parts
  share nothing but the list of plugins and the file map: four combinations of Skyrim.ccc and
  plugins.txt with plugins named twice, unstarred and missing; four dependency graphs over three
  plugins (a chain, a circle, a late master, a missing one) with Skyrim.esm, one plugin or none gone and one or none unreadable;
  overrides in three plugins with both weight meshes, a dropped submodel, a null mod and two grasses of
  one EditorID; six trees of folders in folders, with a hidden folder inside a mapped one, a mapped folder that is hidden
  itself, hidden and blocked files, and the generated config there already or not; textures with and without meshes, and an empty
  Data folder. Under each, eight settings: the launcher with two game types, the folder given, found and missing, and
  the command line with threads and without. `MaxLogs` 1 log line may be queued: more only delay the calls behind them.
  162,651 distinct states. Plugins, files, folders, textures and records are unbounded in the theorems.

`MaxRuns` and `MaxLogs` are the only bounds in a guard. The FormID range and the light limit are the code's with
smaller numbers. Inputs (requests, inis, meshes, settings) are sets of states the program can be given,
named in the `MC` modules.

### 3.2 Fairness and deadlock

`TaskQueue` assumes weak fairness of the worker's loop and of the client's own steps (the operating
system schedules both, and a task ends), and strong fairness of the push: the mutex is taken and
released by the worker over and over, and a client that waits for it gets it at some time. The
client is never obliged to submit, to wait or to shut down. `TaskPoolRunner` assumes weak fairness
of every pool thread and of the main thread. `TextureMapping` takes the assumptions of `TaskQueue` with
those of the mesh threads. No assumption says that a file opens, a GPU answers or a call succeeds.
`Startup` assumes weak fairness of the run thread, of the GPU, which executes what it is given, and of the window's
thread together with the user, who dismisses the message of a successful run. Nobody is obliged to
log or to close. A run that hangs takes no step in the model, so that fairness asks nothing of it, and
EveryRunIsReported excepts it by name (`Hangs`). The models of the backend, the coverage, the walk and the pipeline claim no liveness and state no fairness.

Runs with `CHECK_DEADLOCK FALSE` are those in which the program really ends (the comment in the cfg
says how); the pipeline has no end, since the user can always act, and is checked for deadlock.

## 4 What is proved

Every theorem holds for all values of the constants its module's assumption allows; TLC evaluates
the assumptions in the runs. No theorem assumes fairness.

| Module | Theorem | States |
|---|---|---|
| `SeasonsPluginProofs` | TypeCorrect | `Spec => []TypeOK` |
| | Invariant | `Spec => []IInv` |
| | FormIDsAreUnique | `Spec => []UniqueFormIDs` |
| | NoReferenceDangles | `Spec => []NoDanglingReference` |
| | TextureSetsAreShared | `Spec => []OneTextureSetPerSlots` |
| | TexturesShown | `Spec => []TexturesAsRequested` |
| | LightFlagIsSound | `Spec => []LightPluginFits` |
| | RecordsStay | `Spec => RecordsOnlyAdded` |
| `LoadOrderProofs` | ActivePluginsAreExact | `LoadSpec => []ActivePluginsExact` |
| | MastersAreLoaded | `LoadSpec => []MastersLoaded` |
| | AllThatCanIsLoaded | `LoadSpec => []LoadsAllItCan` |
| | IndexResolves | `LoadSpec => []UsesResolve` |
| `StartupProofs` | VisibleFilesAreMapped | `FileMapSpec => []MapsTheVisible` |
| | TexturesAreJudgedByTheirPixels | `GpuSpec => []JudgedByItsPixels` |
| | WindowClosesAfterTheRun | `WindowSpec => []ClosedAfterTheRun` |
| | RunLoadsExactly | the four properties of `LoadOrderProofs`, for `StartupSpec` |
| | RunMapsTheVisible, RunJudgesByPixels, RunOutlivedByWindow | `StartupSpec => []MapsTheVisible`, `[]JudgedByItsPixels`, `[]ClosedAfterTheRun` |
| `SeasonalSlotsProofs` | SlotsInvariant | `Spec => []SlotsInv` |
| | RulesAreWrittenOnce | `Spec => []OneRulePerTexture` |
| | MaterialsStayPBR | `Spec => []SameMaterialSameTextures` |
| | HeightsAreOfTheirSeason | `Spec => []HeightOfItsSeason` |
| | ShaderIsUnlockedForVanilla | `Spec => []UnlockedForVanilla` |
| | ConfigsAreClonedOnce | `Spec => []ConfigsClonedOnce` |
| | GrassIsSwappedAlike | `Spec => []GrassSwappedAlike` |
| `ForeignCoverageProofs` | CoverInvariant | `Spec => []CoverInv` |
| | DuplicatesAreShown | `Spec => []OurSwapsWin` |
| | OverriddenModsAreSilenced | `Spec => []OverriddenModsAreSilent` |
| | RespectedSwapsAreKept | `Spec => []RespectedSwapsKept` |
| | SeasonalTargetsAreNotAskedFor | `Spec => []SeasonalTargetsAreNoBase` |
| `OutputPipelineProofs` | PipelineInvariant | `Spec => []Inv` |
| | NoOwnOutputIsScanned | `Spec => []ScansNoOwnOutput` |
| | SilencedInisAreFolded | `Spec => []SilencedOnlyIfFolded` |
| | OutputIsOfOneRun | `Spec => []FilesOfOneRun` |
| | ActiveOutputIsUntouched | `Spec => OnlyDormantFilesChange` |
| | PipelineRebuildsFolder | `Spec => RebuiltFromEmpty`, that is `Folder!Spec` |
| `TaskPoolRunnerProofs` | PoolInvariant | `Spec => []PoolInv` |
| | RunTasksReturnsWhenDone | `Spec => []ReturnMeansDone` |
| | FewTasksBeginLate | `Spec => []FewBeginLate` |
| `TextureMappingProofs` | MapInvariant | `MapSpec => []MapInv` |
| | MapsFollowTheVotes | `MapSpec => []MapsAsVoted` |
| | NoTextureIsForgotten | `MapSpec => []NoTextureForgotten` |
| | QueueInvariant | `Spec => []QueueInv` |
| | WaitedForTasksHaveRun | `Spec => []WaitThenShutdownRunsAll` |
| | ImplementsSerialExecutor | `Spec => RunsSerially`, that is `Serial!Spec` |
| | MappingRunsSerially | `MapSpec => RunsSerially`: also as `PGDirectory` uses the queue |

None of the properties is inductive as it stands; what has to be added, and why:

**SeasonsPlugin.** `PluginAssumption`: the typing of the constants, at least one override in
every request, just one for a landscape texture, and PBR configs only for landscape requests with a
named texture set. `SeasonPatcher` never queues a request without overrides. `IInv` is `TypeOK`,
`UniqueFormIDs`, `NoDanglingReference`, `LightPluginFits` and

- `ReservedBeforeUse`: every FormID in the plugin is reserved, and none beyond `lastUsed` is. The
  uniqueness of FormIDs rests on this alone, and it is what a forgotten reservation breaks.
- `OneBuilding`: at most one record is under construction.
- `CacheSound`, `CacheComplete`: a cached ID is that of a texture set with just the cached slots, and
  every texture set but DefaultPBRLand is the one cached for its slots. Without the second, sharing would
  fail after the first request; it implies OneTextureSetPerSlots.
- `BuildingRefers`, `BuildingShown`: the texture sets the unfinished record refers to are in the
  plugin, and its shapes show the overrides applied so far. They carry the properties of finished
  records over the steps of a request, and over a failure between them.
- `GrassCacheSound`: a grass duplicate that is remembered is in the plugin, which the landscape
  record made later relies on.
- `DuplicatesShown`: TexturesAsRequested in the form a finished record inherits from `BuildingShown`.

The argument: `LowestIsFresh` (what the scan returns is not reserved), then `StepKinds`, which sorts the
disjuncts of `Next`: a step is `Quiet` for the records, or it is DuplicateGrass, EnsureDefaultPBRLand,
BeginRequest, ApplyOverride or FinishRequest. Each of these has a "...Keeps" lemma, the light flag has
`LightStep` of its own, `StepInvariant` puts them together, and the temporal steps follow by PTL.

**LoadOrder.** `GameInv`: the list holds what the lines read so far name (`CccRead`, `LineRead`),
each name once, and only Creation Club and base plugins until plugins.txt is opened. `LoadInv`: what
was passed and is not marked is loaded, and no self-contained set of readable plugins has a marked
member. The last is the point of LoadsAllItCan: a plugin is marked only if it is unreadable, or if
it, or something it is a master of, misses a master (`LeftOut`), which no member of such a set does.
`IndexInv`: the index is the union of the uses of the records passed and not skipped.
`MissingMasters` marks masters, too; that no plugin is lost by it is a consequence of `LoadInv`.

**FileMap.** MapsTheVisible speaks of the end of the walk; `FileInv` of its middle: a directory still to be entered can be reached
without passing a hidden one (`Reached`); every native entry is one that can be seen, or lies where the walk has come
(`Shown`); and every visible entry is in the map, or at or below a directory still to be entered. With nothing left to enter
this is the property (`FileInvExact`). The step that enters a directory takes it out of the third part for everything below it:
`FoundBelow` says that what lies below is found in it or lies below a directory found in it. Only native
entries are spoken of, those that were hidden and can be restored included, so that generated files disturb nothing
(`NativeKept`). `FileAssumption` is that a tree of files is one: with an entry it has the directories above it.

**GpuClassification.** `GpuInv` follows the one call in progress: before its dispatch nothing of its
texture was counted or queued (`Untouched`); after it the count is queued once or made (`Counted`);
after the copy command the copy comes behind the count in the queue, or is made (`Copied`). Commands of
failed calls are of other textures and touch neither buffer. When `Map` finds the queue empty, only the last
disjuncts remain.

**Startup.** `WindowInv` says how the last queued calls continue what was shown. `RunInv` is the
conjunction of the component invariants: a step of the run is a step of one component and leaves the
variables of the others (`EarlyStepKeeps` up to the records, `MapStepKeeps` for files and textures), so that the
lemmas of the components' proofs are used again. Tasks, queue, stored exception and exit code are in no
invariant: the safety properties hold wherever a run fails or hangs.

**SeasonalSlots.** `SlotsInv` has a part for each thing the walk writes down. `RequestInv`: an override
is what the season has for the slots of its record (`MadeFrom`), from which HeightOfItsSeason follows, and
SameMaterialSameTextures with it: of two paths of one material, what `findMatchingPBRConfig` and
`seasonSuffixedSibling` answer depends on the name alone, so that both records get the slots of one rule
(`PBRSlots`); in the other slots they differ only where the plugins wired them differently (`Wired`). `RuleInv`: the textures seen are those the requests show,
and the rules written are those of them no mod has one for. `HeightInv`: a height map is remembered just if
a landscape that is not PBR asked for one. `ConfigInv`: what is cloned was seen, or is the default at
the very end, whose season is empty and so no season's. `GrassInv`: the cache holds all that was ever
swapped or duplicated. A step that asks for nothing keeps all of it (`QuietKeeps`), what is left are
the two steps that serve a record. `SlotsAssumption`: meshes have finitely many shapes, landscapes finitely many grasses, and a
path has a name, which splitting it gives.

**ForeignCoverage.** What the game shows is the last line for a record over all the inis it evaluates. The
lemmas are about `LastIn(q, S)`, the last element of a sequence q that is in S: of two sequences joined
(`LastInConcat`), of any number joined (`LastInFlatten`, `LastPart`), and of a sequence some elements are left out of
(`LastSelected`). `CoverInv` carries them through the run. `RawInv`: until the lines are ordered, the last of a mod
for a record is that of its ini. `SortedInv`: afterwards no line is an overridden mod's, and the last for a record
is one of the mod the priorities prefer, since the ordering joins the lines of equal rank. `RequestInv`
says that requests were decided by the coverage there still is. The game reads AutoSeasons' ini last, and in
it AutoSeasons' lines come last: DuplicatesAreShown. For RespectedSwapsAreKept the coverage (`PickWinner`, over the lists of
covering mods) and the order (`Ordered`, over lines) are shown to prefer the same mod, of which a line for the record is still there, the two computations of one thing
the hazard at `SeasonPatcher.cpp:1849` is about. `CoverageAssumption` has finitely many seasonal bases.

**TextureMapping.** The queue's invariant, for the whole program in which it is used, and: `ScanInv`, each counter is the
number of uses counted that vote for it; `PhaseInv`, counting is over before the first texture is confirmed;
`FlightInv`, a texture is at one place of the queue, the worker or the client at most, and in no map then, and only if it
won as an environment mask; `EntryInv`, an entry says what won; `ConfirmedInv`, what was confirmed is in
the maps, given up by the GPU, under way, or unknown. At the end of the scan the uses counted are all uses of the meshes
that could be loaded, so that the counters are the votes of MapsAsVoted. `MappingAssumption`: no
file name suggests a complex material (the GPU alone says so), as in `getTexSuffixMap`.

**OutputPipeline.** `CleanInv` and `WriteInv` say how far the clearing and the writers have come:
at a later step of the clearing what is on disk of an earlier folder is `leftover`; while writing, what is on
disk is of this run, or left over; an empty ini is written only when the merged inis of all its seasons
are. `Fail` may leave the run in any of these states, and FilesOfOneRun and SilencedOnlyIfFolded
have to hold there: they are conjuncts of the invariant. The number of runs is bounded in no theorem but by `MaxRuns`, any number.
For the refinement `FolderInv` is added: what is left over or still to be removed is on disk. `PhaseOfStep` says which phase of
the folder a step of the run belongs to; each action then is `Folder!Look`, `Empty`, `TakeOut`, `GiveUp`, `Fill`, `Put` or `Close`, or
leaves the folder's variables. That OnlyDormantFilesChange holds is proved apart; no run checks it, as `OutputFolder` has no step that could
violate it.

**TaskPoolRunner.** `CountInv`: returned tasks are the counter plus the threads about to advance it
(`Counting`), and no task is at two threads. When the counter reaches the number of tasks no task is missing
(`FS_Subset`). `LateInv`: after an exception, late tasks and threads past their check (`AtBuffer`) are
fewer than the threads. `PoolAssumption` gives the cores and the number of tasks.

**TaskQueue.** `OrderInv`: what was submitted is what was started, the popped task, and the queue, in this
order. `ControlInv`: who may be where, among others that nothing starts after a failure. For the refinement each
action is shown to be one of `Serial!Start`, `Return`, `Fail`, `Submit`, `Close`, or to leave its variables (`SerialStep`). A step of
`TextureMapping` is one of the queue or none (`StepOfQueue`), so that the refinement holds for it, too.

**Induction.** The library's induction theorems take an operator and cannot be used. Where a proof is by induction over a
number (sequences joined by `FlattenSeq`), the numbers it holds for are made a set, and `SetInduction` says that
a set with 0 and every successor has all numbers; it follows from `NatLessThanWellFounded`.

**Only model-checked.** Liveness (EveryTaskStarts, WaitReturns, RunEnds, MapFilesReturns,
EveryRunIsReported), which is out of the prover's reach, and the four runs that expect a
violation. Every safety property and every action property the passing runs check is proved.

## 5 Findings

1. **Shared texture set, wrong config name** (`plugin_pbr_config`). Two landscape records whose
   seasonal textures coincide share the set made first (`ASMutagen.cs:1179`); the PBR config written
   for the second names an EditorID that does not exist, against `SeasonPatcher.cpp:1675`.
2. **shutdown may hang** (`taskqueue_shutdown`). Flag and notification do not take the mutex
   (`util/TaskQueue.cpp:79`): the wake-up is lost if the worker is between test and wait.
3. **A respected swap is replaced** (`foreign_mixed`) when an overridden mod names the record by
   FormID and the respected one by EditorID (`SeasonPatcher.cpp:714`, against the comment at 700).
4. **Queued classifications are discarded** (`mapping_wait`): `waitForCMClassification` asks whether
   a task runs, not whether tasks are queued (`PGDirectory.cpp:137`, against `PGDirectory.hpp:106`).

Observed while modelling and not run as findings, most because no text in the repository says
otherwise or because they concern code outside the models:

- After a task of the pool threw, runTasks does not return: tasks that threw or were skipped are never
  counted, and the branch that calls stop() has no exit (`util/TaskPoolRunner.cpp:94-97`, under a comment "If
  exception stop thread pool and throw"). RunEnds excepts such runs, and so does EveryRunIsReported (`TaskThrows`, `Hangs`). Started from the launcher the progress window
  then cannot be closed, since nothing there asks `ExceptionHandler`.
- Without threads (`multithreading` false) an exception ends the loop of tasks but not the run: the
  command line goes on with an incomplete mapping, writes its output, and returns 1 (`TaskThrows`, `EndRun`).
- After a classification threw with threads, a run that is not left waiting for the queue goes on. The command line
  returns 1, the launcher reports success, as it does not ask `ExceptionHandler`.
- `--no-multithreading` has the default false for the variable that means multithreading, so that
  the program is single-threaded without the flag, and with it is not (`main.cpp:91`).
- The names the help gives for --game-type (`main.cpp:98`: skyrimse, skyrimvr, skyrimgog, enderalse) are
  none of those `getGameTypeFromStr` knows: each selects Skyrim SE (`BethesdaGame!getGameTypeFromStr`, and the
  command line of `startup`).
- With two cores the pool has no thread and runTasks polls for ever; with one the unsigned
  subtraction wraps and the pool is refused (`Refused` and `Thread` in `TaskPoolRunner`).
- waitForCompletion returns in the window between a pop and the busy flag, and does not return after
  a task threw. One leftover task may run after shutdown was signalled.
- The game's and the coverage's tie-breaks differ: for an unresolved tie the coverage takes the mod
  that is first by name, while in the merged ini the last one scanned wins.
- Lines of a foreign ini in sections AutoSeasons does not know are lost: the file is emptied as
  soon as one line was recognised (`SeasonPatcher.cpp:870`, against the comment at 661-663).
- Two seasonal PBR textures of one name in different folders get two rules of the same name, though
  rules are matched by the bare name (OneRulePerTexture goes by the path, as the code does).
- A merged ini that cannot be opened is skipped, and the foreign inis are emptied anyway.
- An overridden mod's own seasonal target may become a base again.
- The slot and the type of a texture win their votes independently.
- A dry run creates the output directory and truncates the log. A locked plugin is only warned
  about. Errors of output streams after opening are not tested.
- The comment at `SeasonPatcher.cpp:1948` expects generated files to be recognised by the next run,
  but the map it refers to lives in memory only.
- A PBR config with a value of the wrong type aborts the run, because only parse errors are caught,
  after the old output has been cleared.
- `SeasonPatcher.cpp:1600` clones the PBR config for DefaultPBRLand from "the same entry" by its
  comment; if the entry the slots came from has no config, the next entry with one is cloned instead (`SeasonalSlots!EnterLand` does as the code does).
- reportConflicts takes any overridden or ranked mod for a resolution of the conflict.
- A base record used by two meshes gets two duplicates, of which the later one wins.
- The help of --dry-run says that nothing is written to the output directory.
- The comments at `ASMutagen.cs:129` and 418 leave overrides out of the count for the light flag, the
  override of LandscapeDefault is counted.
- Each slot picks its seasonal alias by itself, so that a request can mix the textures of two packs.
- Initialize tests a plugin's masters against the plugins that were left out before it: a master that is
  left out later does not count. MastersLoaded therefore speaks of masters that come before their plugin.
- A record that throws may end the enumeration of its record type: later records of the type are then
  in no index (`RecordThrows`), and only the log says so.
- The file map takes directories under the mapped folders for files (`common/BethesdaDirectory.cpp:361-384`
  tests is_directory only for hidden ones), as `WalkFolder` does; no lookup asks for one. A folder to map that is
  hidden itself is mapped nonetheless.
- addGeneratedFile takes paths as they are spelled. The patcher passes "Seasons", "PBRNIFPatcher" and
  "PBRTextureSets" (`SeasonPatcher.cpp:1950`, 2025, 2045, 2062), the keys of native files are in lower case
  (`common/BethesdaDirectory.cpp:343`, 377), and `common/BethesdaDirectory.hpp:134` says that paths are all lower
  case. A native file of that name is therefore neither hidden nor kept for restoring, and a lookup in lower case does
  not find the generated one. Nothing in the program looks one up.

## 6 Hazards without a property

`PROJECT.json` lists the hazards at their lines. Those without a property are the core-count
boundary, the merged ini that cannot be opened and the locked plugin (no promise to check against),
and the lines in unknown sections (an observation above).

## 7 Not modelled

| Part | Why |
|---|---|
| NIF utilities, mesh permutations (`pgutil`) | transformation of mesh data without control of its own; SeasonPatcher uses only names and slots of them. Of PGMeshPermutationTracker the program uses only the type FormKey; no object of the class is made |
| PGD3D beyond checkIfCM | aspect ratios compared, mipmaps generated, shaders applied to whole textures, raw pixels and formats converted: nothing outside the file calls these |
| Reading of inis and the registry | input of the models (`installation`) |
| Archives, clearing and filling again in `BethesdaDirectory` | nothing in the program calls them: populateFileMap is called once, with `false` |
| Launcher, override dialog | wxWidgets views that edit settings; the settings are an input |
| Marshalling (PGPlugin, PGMutagenWrapper) | conversion; its errors appear as failures of the call |
| Configuration, translations | settings are an input of `ForeignCoverage` and `Startup` |
| Logging, progress counts, string helpers | no state a property is about |

## 8 Plan

1. *Done*: all components whose state the rest of the program depends on, the compositions
   `TextureMapping`, `OutputPipeline` and `Startup`, and the theorems of section 4.
2. *Done*: theorems about every safety property of the runs, those of `ForeignCoverage`, `SeasonalSlots`,
   `TextureMapping` and the file map included.
3. *Done*: `OutputFolder`, an abstract specification of the pipeline, with `OutputPipeline` as its refinement.
4. The composition of `SeasonalSlots` with `SeasonsPlugin`: the requests the walk makes are the ones
   the backend serves, so that HeightOfItsSeason and TexturesAsRequested become one property of the game.

No module declares a RECURSIVE operator, so that each can be proved about.
